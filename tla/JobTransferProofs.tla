--------------------------- MODULE JobTransferProofs ---------------------------
(***************************************************************************)
(* Proofs about speech on its way to the workers, for any speech, any      *)
(* messages, any documents in a frame, any recordings and any limits: that *)
(* requests are numbered as the controller relies on; that the segments of *)
(* a request say what NVDA's sequence said and answer for its indexes;     *)
(* that a request the worker serves is answered by its own audio, whole,   *)
(* and that trimming keeps every sound that is sustained; that a message   *)
(* is decoded to what was encoded, that the decoder accepts nothing the    *)
(* encoder would not have written, and that every job of the converter can *)
(* be sent, but for what is beyond the wire.                               *)
(*                                                                         *)
(* What a recursive function makes of a sequence is stated as a traversal  *)
(* (Induction.tla): its value for the empty sequence, and for a sequence   *)
(* with one element more.  SequenceInduction over these facts gives the    *)
(* rest.  A document is taken layer by layer: what the messages are made   *)
(* of is five containers deep, whatever their sequences.                   *)
(***************************************************************************)
EXTENDS JobTransfer, Induction

(* The converter's counter is ahead of every generation it gave out; one past the
   range of the identifiers it stays. *)
Numbered ==
    /\ nextId \in 1 .. MaxIdentifier + 1
    /\ submitted \in Seq(Nat)
    /\ \A i \in 1 .. Len(submitted) : submitted[i] < nextId
    /\ \A i \in 1 .. Len(submitted) : \A j \in 1 .. i - 1 : submitted[j] < submitted[i]

LEMMA NumberedInit == InitJobs => Numbered
<1>1. <<>> \in Seq(Nat)
  OBVIOUS
<1>2. QED
  BY <1>1, IdentifierAssumption DEF InitJobs, Numbered

LEMMA SubmitStep ==
    ASSUME Numbered, NEW s, SubmitSpeech(s) PROVE Numbered'
<1>1. /\ nextId <= MaxIdentifier /\ nextId' = nextId + 1 /\ nextId \in Nat
      /\ submitted' = Append(submitted, nextId)
  BY IdentifierAssumption DEF SubmitSpeech, Converts, Exhausted, Numbered
<1>2. /\ submitted' \in Seq(Nat) /\ Len(submitted') = Len(submitted) + 1
      /\ submitted'[Len(submitted')] = nextId
      /\ \A i \in 1 .. Len(submitted) : submitted'[i] = submitted[i] /\ submitted[i] \in Nat
  BY <1>1 DEF Numbered
<1>3. nextId' \in 1 .. MaxIdentifier + 1
  BY <1>1, IdentifierAssumption
<1>4. \A i \in 1 .. Len(submitted') : submitted'[i] < nextId'
  BY <1>1, <1>2 DEF Numbered
<1>5. \A i \in 1 .. Len(submitted') : \A j \in 1 .. i - 1 : submitted'[j] < submitted'[i]
  <2>1. ASSUME NEW i \in 1 .. Len(submitted'), NEW j \in 1 .. i - 1
        PROVE  submitted'[j] < submitted'[i]
    <3>1. /\ Len(submitted) \in Nat /\ j \in 1 .. Len(submitted)
          /\ submitted'[j] = submitted[j]
      BY <1>1, <1>2 DEF Numbered
    <3>2. CASE i \in 1 .. Len(submitted)
      BY <1>2, <3>1, <3>2 DEF Numbered
    <3>3. CASE i = Len(submitted')
      <4>1. submitted'[i] = nextId /\ submitted[j] < nextId
        BY <1>2, <3>1, <3>3 DEF Numbered
      <4>2. QED
        BY <3>1, <4>1
    <3>4. QED
      BY <1>2, <3>1, <3>2, <3>3
  <2>2. QED
    BY <2>1
<1>6. QED
  BY <1>2, <1>3, <1>4, <1>5 DEF Numbered

LEMMA NumberedStep == Numbered /\ [NextJobs]_jobVars => Numbered'
<1> SUFFICES ASSUME Numbered, [NextJobs]_jobVars PROVE Numbered'
  OBVIOUS
<1>1. CASE UNCHANGED jobVars \/ ForgetSpeech
  BY <1>1 DEF jobVars, ForgetSpeech, Numbered
<1>2. ASSUME NEW s, RejectConversion(s) \/ RaiseExhausted(s) PROVE Numbered'
  BY <1>2 DEF RejectConversion, RaiseExhausted, NothingSubmitted, Numbered
<1>3. ASSUME NEW s, RejectSegments(s) PROVE Numbered'
  <2>1. /\ nextId <= MaxIdentifier /\ nextId' = nextId + 1 /\ nextId \in Nat
        /\ UNCHANGED submitted
    BY <1>3, IdentifierAssumption
       DEF RejectSegments, Converts, Exhausted, NothingSubmitted, Numbered
  <2>2. \A i \in 1 .. Len(submitted) : submitted[i] \in Nat
    BY DEF Numbered
  <2>3. QED
    BY <2>1, <2>2, IdentifierAssumption DEF Numbered
<1>4. QED
  BY <1>1, <1>2, <1>3, SubmitStep DEF NextJobs, Speak

(* Every request that is submitted has a generation later than all before it and
   within the range of the identifiers, however many were rejected in between. *)
THEOREM GenerationsAreFresh == SpecJobs => []GenerationsIncrease
<1>1. Numbered => GenerationsIncrease
  <2> SUFFICES ASSUME Numbered, NEW i \in 1 .. Len(submitted)
               PROVE  submitted[i] <= MaxIdentifier
    BY DEF Numbered, GenerationsIncrease
  <2>1. submitted[i] \in Nat /\ submitted[i] < nextId /\ nextId \in 1 .. MaxIdentifier + 1
    BY DEF Numbered
  <2>2. QED
    BY <2>1, IdentifierAssumption
<1>2. QED
  BY <1>1, NumberedInit, NumberedStep, PTL DEF SpecJobs
-----------------------------------------------------------------------------
(* What is made of a sequence: of strings V, indexes X and character modes M. *)
Audible(V) == {t \in V : t[3] > 0}
SegmentOf(V, X, M) == [text : Seq(Audible(V)), characterMode : M, indexesAfter : Seq(X)]
BuilderOf(V, X, M) == [segments : Seq(SegmentOf(V, X, M)), parts : Seq(V), mode : M]
Utterance(V, X, M) == {Mark(n) : n \in X} \union {Saying(t, m) : t \in V, m \in M}
SayState(V, X, M) == [said : Seq(Utterance(V, X, M)), mode : M]

(* A sequence of them, which starts outside of character mode, and the items it is
   converted to. *)
Plain(M) == FALSE \in M
Source(S, V, X, M) ==
    /\ Plain(M)
    /\ \A i \in S : (i.class = "str" => i.text \in V) /\ i.index[2] \in X /\ i.state[2] \in M
Item(C, V, X, M) ==
    \A c \in C : /\ c.type = "text" => c.text \in V
                 /\ c.type = "index" => c.index[2] \in X
                 /\ c.type = "characterMode" => c.state[2] \in M
Converted(S) == {ConvertItem(i) : i \in {j \in S : j.class \notin Ignored}}

(* The items of a sequence. *)
LEMMA ItemsFacts ==
    ASSUME NEW S, NEW s \in Seq(S), NEW e \in S
    PROVE  /\ Items(<<>>) = <<>> /\ Items(s) \in Seq(Converted(S))
           /\ Items(Append(s, e)) = IF e.class \in Ignored THEN Items(s)
                       ELSE Append(Items(s), ConvertItem(e))
<1> DEFINE A == Seq(Converted(S))
           E == S
           a == <<>>
           st == [d \in E |-> [x \in A |-> IF d.class \in Ignored THEN x ELSE Append(x, ConvertItem(d))]]
<1>1. a \in A /\ st \in StepsOf(E, A)
  BY DEF StepsOf, Converted
<1>2. \A d \in E, x \in A : st[d][x] = IF d.class \in Ignored THEN x ELSE Append(x, ConvertItem(d))
  OBVIOUS
<1> HIDE DEF A, E, a, st
<1>3. ASSUME NEW t \in Seq(E) PROVE IsTraversal(A, a, st, t, Items(t))
  <2> DEFINE Rec(g) == g = [n \in 0 .. Len(t) |-> IF n = 0 THEN <<>>
                                                  ELSE IF t[n].class \in Ignored THEN g[n - 1]
                                                       ELSE Append(g[n - 1], ConvertItem(t[n]))]
             f == CHOOSE g : Rec(g)
  <2>1. PICK h : h \in Traversals(A, a, st, t)
    BY <1>1, TraversalExists
  <2>2. /\ h = [n \in 0 .. Len(t) |-> h[n]] /\ h[0] = a
        /\ \A n \in 1 .. Len(t) : h[n] = st[t[n]][h[n - 1]] /\ h[n - 1] \in A
    BY <2>1 DEF Traversals
  <2>3. ASSUME NEW n \in 1 .. Len(t)
        PROVE h[n] = IF t[n].class \in Ignored THEN h[n - 1] ELSE Append(h[n - 1], ConvertItem(t[n]))
    <3>1. t[n] \in E
      OBVIOUS
    <3>2. h[n - 1] \in A /\ h[n] = st[t[n]][h[n - 1]]
      BY <2>2
    <3>3. QED
      BY <1>2, <3>1, <3>2
  <2>4. h = [n \in 0 .. Len(t) |-> IF n = 0 THEN <<>>
                                   ELSE IF t[n].class \in Ignored THEN h[n - 1]
                                        ELSE Append(h[n - 1], ConvertItem(t[n]))]
    <3>1. ASSUME NEW n \in 0 .. Len(t)
          PROVE  h[n] = IF n = 0 THEN <<>> ELSE IF t[n].class \in Ignored THEN h[n - 1]
                      ELSE Append(h[n - 1], ConvertItem(t[n]))
      <4>1. n = 0 \/ n \in 1 .. Len(t)
        OBVIOUS
      <4>2. QED
        BY <2>2, <2>3, <4>1 DEF a
    <3>2. QED
      BY <2>2, <3>1
  <2>5. Rec(f)
    <3>1. Rec(h)
      BY <2>4
    <3> HIDE DEF Rec
    <3>2. QED
      BY <3>1
  <2>6. Items(t) = f[Len(t)]
    BY DEF Items
  <2> HIDE DEF f
  <2>7. f = [n \in 0 .. Len(t) |-> f[n]] /\ f[0] = a
    BY <2>5 DEF a
  <2>8. ASSUME NEW n \in 1 .. Len(t), f[n - 1] \in A PROVE f[n] = st[t[n]][f[n - 1]]
    <3>1. n \in 0 .. Len(t) /\ n # 0
      OBVIOUS
    <3>2. f[n] = IF t[n].class \in Ignored THEN f[n - 1] ELSE Append(f[n - 1], ConvertItem(t[n]))
      BY <2>5, <3>1
    <3> HIDE DEF Rec
    <3>3. t[n] \in E
      OBVIOUS
    <3>4. QED
      BY <1>2, <2>8, <3>2, <3>3
  <2>9. f \in Traversals(A, a, st, t)
    BY <1>1, <2>7, <2>8, TraversalIs
  <2>10. QED
    BY <2>6, <2>9 DEF IsTraversal
<1>4. Items(<<>>) = a
  <2>1. <<>> \in Seq(E)
    OBVIOUS
  <2>2. QED
    BY <1>3, <2>1, TraversalOfEmpty
<1>5. Items(s) \in A /\ Items(Append(s, e)) = st[e][Items(s)]
  <2>1. s \in Seq(E) /\ Append(s, e) \in Seq(E) /\ e \in E
    BY DEF E
  <2>2. IsTraversal(A, a, st, s, Items(s)) /\ IsTraversal(A, a, st, Append(s, e), Items(Append(s, e)))
    BY <1>3, <2>1
  <2>3. QED
    BY <2>1, <2>2, TraversalOfAppend
<1>6. QED
  BY <1>2, <1>4, <1>5 DEF A, E, a

(* The text of strings. *)
LEMMA JoinFacts ==
    ASSUME NEW S, NEW s \in Seq(S), NEW e \in S
    PROVE  /\ Join(<<>>) = <<>> /\ Join(s) \in Seq(Audible(S))
           /\ Join(Append(s, e)) = IF e[3] > 0 THEN Append(Join(s), e) ELSE Join(s)
<1> DEFINE A == Seq(Audible(S))
           E == S
           a == <<>>
           st == [d \in E |-> [x \in A |-> IF d[3] > 0 THEN Append(x, d) ELSE x]]
<1>1. a \in A /\ st \in StepsOf(E, A)
  BY DEF StepsOf, Audible
<1>2. \A d \in E, x \in A : st[d][x] = IF d[3] > 0 THEN Append(x, d) ELSE x
  OBVIOUS
<1> HIDE DEF A, E, a, st
<1>3. ASSUME NEW t \in Seq(E) PROVE IsTraversal(A, a, st, t, Join(t))
  <2> DEFINE Rec(g) == g = [n \in 0 .. Len(t) |-> IF n = 0 THEN <<>>
                                                  ELSE IF t[n][3] > 0 THEN Append(g[n - 1], t[n])
                                                       ELSE g[n - 1]]
             f == CHOOSE g : Rec(g)
  <2>1. PICK h : h \in Traversals(A, a, st, t)
    BY <1>1, TraversalExists
  <2>2. /\ h = [n \in 0 .. Len(t) |-> h[n]] /\ h[0] = a
        /\ \A n \in 1 .. Len(t) : h[n] = st[t[n]][h[n - 1]] /\ h[n - 1] \in A
    BY <2>1 DEF Traversals
  <2>3. ASSUME NEW n \in 1 .. Len(t) PROVE h[n] = IF t[n][3] > 0 THEN Append(h[n - 1], t[n]) ELSE h[n - 1]
    <3>1. t[n] \in E
      OBVIOUS
    <3>2. h[n - 1] \in A /\ h[n] = st[t[n]][h[n - 1]]
      BY <2>2
    <3>3. QED
      BY <1>2, <3>1, <3>2
  <2>4. h = [n \in 0 .. Len(t) |-> IF n = 0 THEN <<>>
                                   ELSE IF t[n][3] > 0 THEN Append(h[n - 1], t[n]) ELSE h[n - 1]]
    <3>1. ASSUME NEW n \in 0 .. Len(t)
          PROVE  h[n] = IF n = 0 THEN <<>> ELSE IF t[n][3] > 0 THEN Append(h[n - 1], t[n]) ELSE h[n - 1]
      <4>1. n = 0 \/ n \in 1 .. Len(t)
        OBVIOUS
      <4>2. QED
        BY <2>2, <2>3, <4>1 DEF a
    <3>2. QED
      BY <2>2, <3>1
  <2>5. Rec(f)
    <3>1. Rec(h)
      BY <2>4
    <3> HIDE DEF Rec
    <3>2. QED
      BY <3>1
  <2>6. Join(t) = f[Len(t)]
    BY DEF Join
  <2> HIDE DEF f
  <2>7. f = [n \in 0 .. Len(t) |-> f[n]] /\ f[0] = a
    BY <2>5 DEF a
  <2>8. ASSUME NEW n \in 1 .. Len(t), f[n - 1] \in A PROVE f[n] = st[t[n]][f[n - 1]]
    <3>1. n \in 0 .. Len(t) /\ n # 0
      OBVIOUS
    <3>2. f[n] = IF t[n][3] > 0 THEN Append(f[n - 1], t[n]) ELSE f[n - 1]
      BY <2>5, <3>1
    <3> HIDE DEF Rec
    <3>3. t[n] \in E
      OBVIOUS
    <3>4. QED
      BY <1>2, <2>8, <3>2, <3>3
  <2>9. f \in Traversals(A, a, st, t)
    BY <1>1, <2>7, <2>8, TraversalIs
  <2>10. QED
    BY <2>6, <2>9 DEF IsTraversal
<1>4. Join(<<>>) = a
  <2>1. <<>> \in Seq(E)
    OBVIOUS
  <2>2. QED
    BY <1>3, <2>1, TraversalOfEmpty
<1>5. Join(s) \in A /\ Join(Append(s, e)) = st[e][Join(s)]
  <2>1. s \in Seq(E) /\ Append(s, e) \in Seq(E) /\ e \in E
    BY DEF E
  <2>2. IsTraversal(A, a, st, s, Join(s)) /\ IsTraversal(A, a, st, Append(s, e), Join(Append(s, e)))
    BY <1>3, <2>1
  <2>3. QED
    BY <2>1, <2>2, TraversalOfAppend
<1>6. QED
  BY <1>2, <1>4, <1>5 DEF A, E, a

(* The indexes of a sequence. *)
LEMMA IndexesFacts ==
    ASSUME NEW S, NEW V, NEW X, NEW M, Source(S, V, X, M), NEW s \in Seq(S), NEW e \in S
    PROVE  /\ Indexes(<<>>) = <<>> /\ Indexes(s) \in Seq(X)
           /\ Indexes(Append(s, e)) = IF e.class = "IndexCommand" THEN Append(Indexes(s), e.index[2])
                       ELSE Indexes(s)
<1> DEFINE A == Seq(X)
           E == S
           a == <<>>
           st == [d \in E |-> [x \in A |-> IF d.class = "IndexCommand" THEN Append(x, d.index[2]) ELSE x]]
<1>1. a \in A /\ st \in StepsOf(E, A)
  BY DEF StepsOf, Source
<1>2. \A d \in E, x \in A : st[d][x] = IF d.class = "IndexCommand" THEN Append(x, d.index[2]) ELSE x
  OBVIOUS
<1> HIDE DEF A, E, a, st
<1>3. ASSUME NEW t \in Seq(E) PROVE IsTraversal(A, a, st, t, Indexes(t))
  <2> DEFINE Rec(g) == g = [n \in 0 .. Len(t) |-> IF n = 0 THEN <<>>
                                                  ELSE IF t[n].class = "IndexCommand" THEN Append(g[n - 1], t[n].index[2])
                                                       ELSE g[n - 1]]
             f == CHOOSE g : Rec(g)
  <2>1. PICK h : h \in Traversals(A, a, st, t)
    BY <1>1, TraversalExists
  <2>2. /\ h = [n \in 0 .. Len(t) |-> h[n]] /\ h[0] = a
        /\ \A n \in 1 .. Len(t) : h[n] = st[t[n]][h[n - 1]] /\ h[n - 1] \in A
    BY <2>1 DEF Traversals
  <2>3. ASSUME NEW n \in 1 .. Len(t)
        PROVE h[n] = IF t[n].class = "IndexCommand" THEN Append(h[n - 1], t[n].index[2]) ELSE h[n - 1]
    <3>1. t[n] \in E
      OBVIOUS
    <3>2. h[n - 1] \in A /\ h[n] = st[t[n]][h[n - 1]]
      BY <2>2
    <3>3. QED
      BY <1>2, <3>1, <3>2
  <2>4. h = [n \in 0 .. Len(t) |-> IF n = 0 THEN <<>>
                                   ELSE IF t[n].class = "IndexCommand" THEN Append(h[n - 1], t[n].index[2])
                                        ELSE h[n - 1]]
    <3>1. ASSUME NEW n \in 0 .. Len(t)
          PROVE  h[n] = IF n = 0 THEN <<>>
                      ELSE IF t[n].class = "IndexCommand" THEN Append(h[n - 1], t[n].index[2])
                                  ELSE h[n - 1]
      <4>1. n = 0 \/ n \in 1 .. Len(t)
        OBVIOUS
      <4>2. QED
        BY <2>2, <2>3, <4>1 DEF a
    <3>2. QED
      BY <2>2, <3>1
  <2>5. Rec(f)
    <3>1. Rec(h)
      BY <2>4
    <3> HIDE DEF Rec
    <3>2. QED
      BY <3>1
  <2>6. Indexes(t) = f[Len(t)]
    BY DEF Indexes
  <2> HIDE DEF f
  <2>7. f = [n \in 0 .. Len(t) |-> f[n]] /\ f[0] = a
    BY <2>5 DEF a
  <2>8. ASSUME NEW n \in 1 .. Len(t), f[n - 1] \in A PROVE f[n] = st[t[n]][f[n - 1]]
    <3>1. n \in 0 .. Len(t) /\ n # 0
      OBVIOUS
    <3>2. f[n] = IF t[n].class = "IndexCommand" THEN Append(f[n - 1], t[n].index[2]) ELSE f[n - 1]
      BY <2>5, <3>1
    <3> HIDE DEF Rec
    <3>3. t[n] \in E
      OBVIOUS
    <3>4. QED
      BY <1>2, <2>8, <3>2, <3>3
  <2>9. f \in Traversals(A, a, st, t)
    BY <1>1, <2>7, <2>8, TraversalIs
  <2>10. QED
    BY <2>6, <2>9 DEF IsTraversal
<1>4. Indexes(<<>>) = a
  <2>1. <<>> \in Seq(E)
    OBVIOUS
  <2>2. QED
    BY <1>3, <2>1, TraversalOfEmpty
<1>5. Indexes(s) \in A /\ Indexes(Append(s, e)) = st[e][Indexes(s)]
  <2>1. s \in Seq(E) /\ Append(s, e) \in Seq(E) /\ e \in E
    BY DEF E
  <2>2. IsTraversal(A, a, st, s, Indexes(s)) /\ IsTraversal(A, a, st, Append(s, e), Indexes(Append(s, e)))
    BY <1>3, <2>1
  <2>3. QED
    BY <2>1, <2>2, TraversalOfAppend
<1>6. QED
  BY <1>2, <1>4, <1>5 DEF A, E, a

(* The operations on the segments keep to V, X and M. *)
LEMMA FlushType ==
    ASSUME NEW V, NEW X, NEW M, NEW b \in BuilderOf(V, X, M)
    PROVE  /\ Flush(b) \in BuilderOf(V, X, M) /\ Flush(b).parts = <<>> /\ Flush(b).mode = b.mode
           /\ b.parts = <<>> => Flush(b) = b
           /\ b.parts # <<>> =>
                 /\ Segment(Join(b.parts), b.mode, <<>>) \in SegmentOf(V, X, M)
                 /\ Flush(b).segments = Append(b.segments, Segment(Join(b.parts), b.mode, <<>>))
<1>1. b.parts \in Seq(V) /\ b.mode \in M /\ b.segments \in Seq(SegmentOf(V, X, M)) /\ <<>> \in Seq(V)
  BY DEF BuilderOf
<1>2. CASE b.parts = <<>>
  BY <1>2 DEF Flush
<1>3. CASE b.parts # <<>>
  <2>1. b.parts[1] \in V
    BY <1>1, <1>3
  <2>2. Join(b.parts) \in Seq(Audible(V))
    BY <1>1, <2>1, JoinFacts
  <2> DEFINE g == Segment(Join(b.parts), b.mode, <<>>)
  <2>3. g \in SegmentOf(V, X, M)
    BY <1>1, <2>2 DEF Segment, SegmentOf
  <2> HIDE DEF g
  <2>4. Append(b.segments, g) \in Seq(SegmentOf(V, X, M))
    BY <1>1, <2>3
  <2>5. Flush(b) = [b EXCEPT !.parts = <<>>, !.segments = Append(@, g)]
    BY <1>3 DEF Flush, g
  <2>6. QED
    BY <1>1, <1>3, <2>3, <2>4, <2>5 DEF BuilderOf, g
<1>4. QED
  BY <1>2, <1>3

(* An index goes to the last segment, or to one of its own if there is none. *)
Indexed(P, segs, n, indexed) ==
    \/ /\ segs = <<>> /\ Segment(<<>>, FALSE, <<n>>) \in P
       /\ indexed = Append(<<>>, Segment(<<>>, FALSE, <<n>>))
    \/ \E front \in Seq(P), g \in P :
          /\ segs = Append(front, g)
          /\ [g EXCEPT !.indexesAfter = Append(@, n)] \in P
          /\ indexed = Append(front, [g EXCEPT !.indexesAfter = Append(@, n)])

LEMMA AddIndexSegments ==
    ASSUME NEW V, NEW X, NEW M, Plain(M), NEW b \in BuilderOf(V, X, M), NEW n \in X
    PROVE  /\ AddIndex(b, n) \in BuilderOf(V, X, M)
           /\ AddIndex(b, n).parts = <<>> /\ AddIndex(b, n).mode = b.mode
           /\ Indexed(SegmentOf(V, X, M), Flush(b).segments, n, AddIndex(b, n).segments)
<1> DEFINE c == Flush(b)
           segs == c.segments
           last == Len(segs)
<1>1. c \in BuilderOf(V, X, M) /\ c.parts = <<>> /\ c.mode = b.mode
  BY FlushType
<1> HIDE DEF c
<1>2. segs \in Seq(SegmentOf(V, X, M)) /\ last \in Nat
  BY <1>1 DEF BuilderOf
<1>3. CASE last = 0
  <2> DEFINE own == Segment(<<>>, FALSE, <<n>>)
  <2>1. own \in SegmentOf(V, X, M)
    <3>1. <<>> \in Seq(Audible(V)) /\ <<n>> \in Seq(X)
      OBVIOUS
    <3>2. QED
      BY <3>1 DEF Segment, SegmentOf, Plain
  <2>2. AddIndex(b, n) = [c EXCEPT !.segments = <<own>>]
    BY <1>3 DEF AddIndex, c
  <2> HIDE DEF own
  <2>3. <<own>> \in Seq(SegmentOf(V, X, M)) /\ <<own>> = Append(<<>>, own) /\ segs = <<>>
    BY <1>2, <1>3, <2>1
  <2>4. AddIndex(b, n).segments = <<own>>
    BY <1>1, <2>2 DEF BuilderOf
  <2>5. AddIndex(b, n) \in BuilderOf(V, X, M) /\ AddIndex(b, n).parts = <<>> /\ AddIndex(b, n).mode = b.mode
    BY <1>1, <2>2, <2>3 DEF BuilderOf
  <2>6. QED
    BY <2>1, <2>3, <2>4, <2>5 DEF own, c, Indexed
<1>4. CASE last # 0
  <2> DEFINE g == segs[last]
             h == [g EXCEPT !.indexesAfter = Append(@, n)]
             front == SubSeq(segs, 1, last - 1)
  <2>1. last \in 1 .. Len(segs) /\ g \in SegmentOf(V, X, M)
    BY <1>2, <1>4
  <2>2. h \in SegmentOf(V, X, M)
    <3>1. g.indexesAfter \in Seq(X)
      BY <2>1 DEF SegmentOf
    <3>2. Append(g.indexesAfter, n) \in Seq(X)
      BY <3>1
    <3>3. QED
      BY <2>1, <3>2 DEF SegmentOf
  <2>3. AddIndex(b, n) = [c EXCEPT !.segments[last].indexesAfter = Append(@, n)]
    BY <1>4 DEF AddIndex, c
  <2>4. AddIndex(b, n).segments = [segs EXCEPT ![last] = h]
    BY <1>1, <2>3 DEF BuilderOf
  <2> HIDE DEF g, h
  <2>5. front \in Seq(SegmentOf(V, X, M)) /\ segs = Append(front, g)
    BY <1>2, <2>1 DEF g
  <2>6. [segs EXCEPT ![last] = h] = Append(front, h)
    BY <1>2, <2>1, <2>2
  <2>7. Append(front, h) \in Seq(SegmentOf(V, X, M))
    BY <2>2, <2>5
  <2>8. AddIndex(b, n) \in BuilderOf(V, X, M) /\ AddIndex(b, n).parts = <<>> /\ AddIndex(b, n).mode = b.mode
    <3>1. AddIndex(b, n) = [c EXCEPT !.segments = [segs EXCEPT ![last] = h]]
      BY <2>3 DEF h, g
    <3>2. QED
      BY <1>1, <2>6, <2>7, <3>1 DEF BuilderOf
  <2>9. QED
    BY <2>1, <2>2, <2>4, <2>5, <2>6, <2>8 DEF c, h, Indexed
<1>5. QED
  BY <1>3, <1>4

LEMMA AddIndexType ==
    ASSUME NEW V, NEW X, NEW M, Plain(M), NEW b \in BuilderOf(V, X, M), NEW n \in X
    PROVE  AddIndex(b, n) \in BuilderOf(V, X, M) /\ AddIndex(b, n).parts = <<>> /\ AddIndex(b, n).mode = b.mode
BY AddIndexSegments

LEMMA BuildItemType ==
    ASSUME NEW V, NEW X, NEW M, Plain(M), NEW b \in BuilderOf(V, X, M),
           NEW C, Item(C, V, X, M), NEW c \in C
    PROVE  BuildItem(b, c) \in BuilderOf(V, X, M)
<1>1. CASE c.type = "text"
  <2>1. c.text \in V /\ b.parts \in Seq(V)
    BY <1>1 DEF Item, BuilderOf
  <2>2. Append(b.parts, c.text) \in Seq(V)
    BY <2>1
  <2>3. BuildItem(b, c) = [b EXCEPT !.parts = Append(@, c.text)]
    BY <1>1 DEF BuildItem
  <2>4. QED
    BY <2>2, <2>3 DEF BuilderOf
<1>2. CASE c.type = "characterMode"
  <2>1. c.state[2] \in M /\ Flush(b) \in BuilderOf(V, X, M)
    BY <1>2, FlushType DEF Item
  <2>2. BuildItem(b, c) = IF c.state[2] = b.mode THEN b ELSE [Flush(b) EXCEPT !.mode = c.state[2]]
    BY <1>2 DEF BuildItem
  <2>3. QED
    BY <2>1, <2>2 DEF BuilderOf
<1>3. CASE c.type = "index"
  <2>1. c.index[2] \in X /\ BuildItem(b, c) = AddIndex(b, c.index[2])
    BY <1>3 DEF Item, BuildItem
  <2>2. QED
    BY <2>1, AddIndexType
<1>4. CASE c.type \notin {"text", "characterMode", "index"}
  BY <1>4 DEF BuildItem
<1>5. QED
  BY <1>1, <1>2, <1>3, <1>4

(* What is built of items. *)
LEMMA BuiltFacts ==
    ASSUME NEW C, NEW V, NEW X, NEW M, Plain(M), Item(C, V, X, M), NEW s \in Seq(C), NEW e \in C
    PROVE  /\ Built(<<>>) = [segments |-> <<>>, parts |-> <<>>, mode |-> FALSE]
           /\ Built(s) \in BuilderOf(V, X, M)
           /\ Built(Append(s, e)) = BuildItem(Built(s), e)
<1> DEFINE A == BuilderOf(V, X, M)
           E == C
           a == [segments |-> <<>>, parts |-> <<>>, mode |-> FALSE]
           st == [d \in E |-> [x \in A |-> BuildItem(x, d)]]
<1>1. a \in A /\ st \in StepsOf(E, A)
  <2>1. <<>> \in Seq(SegmentOf(V, X, M)) /\ <<>> \in Seq(V)
    OBVIOUS
  <2>2. a \in A
    BY <2>1 DEF BuilderOf, Plain
  <2>3. \A d \in E, x \in A : BuildItem(x, d) \in A
    BY BuildItemType
  <2> HIDE DEF E, A, a
  <2>4. QED
    BY <2>2, <2>3 DEF StepsOf
<1>2. \A d \in E, x \in A : st[d][x] = BuildItem(x, d)
  OBVIOUS
<1> HIDE DEF A, E, a, st
<1>3. ASSUME NEW t \in Seq(E) PROVE IsTraversal(A, a, st, t, Built(t))
  <2> DEFINE Rec(g) == g = [n \in 0 .. Len(t) |->
                IF n = 0 THEN [segments |-> <<>>, parts |-> <<>>, mode |-> FALSE]
                                                  ELSE BuildItem(g[n - 1], t[n])]
             f == CHOOSE g : Rec(g)
  <2>1. PICK h : h \in Traversals(A, a, st, t)
    BY <1>1, TraversalExists
  <2>2. /\ h = [n \in 0 .. Len(t) |-> h[n]] /\ h[0] = a
        /\ \A n \in 1 .. Len(t) : h[n] = st[t[n]][h[n - 1]] /\ h[n - 1] \in A
    BY <2>1 DEF Traversals
  <2>3. ASSUME NEW n \in 1 .. Len(t) PROVE h[n] = BuildItem(h[n - 1], t[n])
    <3>1. t[n] \in E
      OBVIOUS
    <3>2. h[n - 1] \in A /\ h[n] = st[t[n]][h[n - 1]]
      BY <2>2
    <3>3. QED
      BY <1>2, <3>1, <3>2
  <2>4. h = [n \in 0 .. Len(t) |-> IF n = 0 THEN [segments |-> <<>>, parts |-> <<>>, mode |-> FALSE]
                                   ELSE BuildItem(h[n - 1], t[n])]
    <3>1. ASSUME NEW n \in 0 .. Len(t)
          PROVE  h[n] = IF n = 0 THEN [segments |-> <<>>, parts |-> <<>>, mode |-> FALSE]
                      ELSE BuildItem(h[n - 1], t[n])
      <4>1. n = 0 \/ n \in 1 .. Len(t)
        OBVIOUS
      <4>2. QED
        BY <2>2, <2>3, <4>1 DEF a
    <3>2. QED
      BY <2>2, <3>1
  <2>5. Rec(f)
    <3>1. Rec(h)
      BY <2>4
    <3> HIDE DEF Rec
    <3>2. QED
      BY <3>1
  <2>6. Built(t) = f[Len(t)]
    BY DEF Built
  <2> HIDE DEF f
  <2>7. f = [n \in 0 .. Len(t) |-> f[n]] /\ f[0] = a
    BY <2>5 DEF a
  <2>8. ASSUME NEW n \in 1 .. Len(t), f[n - 1] \in A PROVE f[n] = st[t[n]][f[n - 1]]
    <3>1. n \in 0 .. Len(t) /\ n # 0
      OBVIOUS
    <3>2. f[n] = BuildItem(f[n - 1], t[n])
      BY <2>5, <3>1
    <3> HIDE DEF Rec
    <3>3. t[n] \in E
      OBVIOUS
    <3>4. QED
      BY <1>2, <2>8, <3>2, <3>3
  <2>9. f \in Traversals(A, a, st, t)
    BY <1>1, <2>7, <2>8, TraversalIs
  <2>10. QED
    BY <2>6, <2>9 DEF IsTraversal
<1>4. Built(<<>>) = a
  <2>1. <<>> \in Seq(E)
    OBVIOUS
  <2>2. QED
    BY <1>3, <2>1, TraversalOfEmpty
<1>5. Built(s) \in A /\ Built(Append(s, e)) = st[e][Built(s)]
  <2>1. s \in Seq(E) /\ Append(s, e) \in Seq(E) /\ e \in E
    BY DEF E
  <2>2. IsTraversal(A, a, st, s, Built(s)) /\ IsTraversal(A, a, st, Append(s, e), Built(Append(s, e)))
    BY <1>3, <2>1
  <2>3. QED
    BY <2>1, <2>2, TraversalOfAppend
<1>6. QED
  BY <1>2, <1>4, <1>5 DEF A, E, a

(* What an item says. *)
LEMMA SayItemType ==
    ASSUME NEW S, NEW V, NEW X, NEW M, Source(S, V, X, M), NEW i \in S, NEW b \in SayState(V, X, M)
    PROVE  SayItem(b, i) \in SayState(V, X, M)
<1>1. b.said \in Seq(Utterance(V, X, M)) /\ b.mode \in M
  BY DEF SayState
<1>2. (i.class = "str" => i.text \in V) /\ i.index[2] \in X /\ i.state[2] \in M
  BY DEF Source
<1>3. CASE i.class = "CharacterModeCommand"
  <2>1. SayItem(b, i) = [b EXCEPT !.mode = i.state[2]]
    BY <1>3 DEF SayItem
  <2>2. QED
    BY <1>1, <1>2, <2>1 DEF SayState
<1>4. CASE i.class = "IndexCommand"
  <2>1. SayItem(b, i) = [b EXCEPT !.said = Append(@, Mark(i.index[2]))]
    BY <1>4 DEF SayItem
  <2>2. Mark(i.index[2]) \in Utterance(V, X, M)
    BY <1>2 DEF Utterance
  <2>3. Append(b.said, Mark(i.index[2])) \in Seq(Utterance(V, X, M))
    BY <1>1, <2>2
  <2>4. QED
    BY <1>1, <2>1, <2>3 DEF SayState
<1>5. CASE i.class = "str" /\ i.text[3] > 0
  <2>1. SayItem(b, i) = [b EXCEPT !.said = Append(@, Saying(i.text, b.mode))]
    BY <1>5 DEF SayItem
  <2>2. Saying(i.text, b.mode) \in Utterance(V, X, M)
    BY <1>1, <1>2, <1>5 DEF Utterance
  <2>3. Append(b.said, Saying(i.text, b.mode)) \in Seq(Utterance(V, X, M))
    BY <1>1, <2>2
  <2>4. QED
    BY <1>1, <2>1, <2>3 DEF SayState
<1>6. CASE /\ i.class \notin {"CharacterModeCommand", "IndexCommand"}
           /\ ~(i.class = "str" /\ i.text[3] > 0)
  BY <1>6 DEF SayItem
<1>7. QED
  BY <1>3, <1>4, <1>5, <1>6

(* What a sequence says. *)
LEMMA SaidFacts ==
    ASSUME NEW S, NEW V, NEW X, NEW M, Source(S, V, X, M), NEW s \in Seq(S), NEW e \in S
    PROVE  /\ SaidBy(<<>>) = [said |-> <<>>, mode |-> FALSE] /\ SaidBy(s) \in SayState(V, X, M)
           /\ SaidBy(Append(s, e)) = SayItem(SaidBy(s), e)
<1> DEFINE A == SayState(V, X, M)
           E == S
           a == [said |-> <<>>, mode |-> FALSE]
           st == [d \in E |-> [x \in A |-> SayItem(x, d)]]
<1>1. a \in A /\ st \in StepsOf(E, A)
  <2>1. <<>> \in Seq(Utterance(V, X, M))
    OBVIOUS
  <2>2. a \in A
    BY <2>1 DEF Source, Plain, SayState
  <2>3. \A d \in E, x \in A : SayItem(x, d) \in A
    BY SayItemType
  <2> HIDE DEF E, A, a
  <2>4. QED
    BY <2>2, <2>3 DEF StepsOf
<1>2. \A d \in E, x \in A : st[d][x] = SayItem(x, d)
  OBVIOUS
<1> HIDE DEF A, E, a, st
<1>3. ASSUME NEW t \in Seq(E) PROVE IsTraversal(A, a, st, t, SaidBy(t))
  <2> DEFINE Rec(g) == g = [n \in 0 .. Len(t) |-> IF n = 0 THEN [said |-> <<>>, mode |-> FALSE]
                                                  ELSE SayItem(g[n - 1], t[n])]
             f == CHOOSE g : Rec(g)
  <2>1. PICK h : h \in Traversals(A, a, st, t)
    BY <1>1, TraversalExists
  <2>2. /\ h = [n \in 0 .. Len(t) |-> h[n]] /\ h[0] = a
        /\ \A n \in 1 .. Len(t) : h[n] = st[t[n]][h[n - 1]] /\ h[n - 1] \in A
    BY <2>1 DEF Traversals
  <2>3. ASSUME NEW n \in 1 .. Len(t) PROVE h[n] = SayItem(h[n - 1], t[n])
    <3>1. t[n] \in E
      OBVIOUS
    <3>2. h[n - 1] \in A /\ h[n] = st[t[n]][h[n - 1]]
      BY <2>2
    <3>3. QED
      BY <1>2, <3>1, <3>2
  <2>4. h = [n \in 0 .. Len(t) |-> IF n = 0 THEN [said |-> <<>>, mode |-> FALSE]
                                   ELSE SayItem(h[n - 1], t[n])]
    <3>1. ASSUME NEW n \in 0 .. Len(t)
          PROVE  h[n] = IF n = 0 THEN [said |-> <<>>, mode |-> FALSE] ELSE SayItem(h[n - 1], t[n])
      <4>1. n = 0 \/ n \in 1 .. Len(t)
        OBVIOUS
      <4>2. QED
        BY <2>2, <2>3, <4>1 DEF a
    <3>2. QED
      BY <2>2, <3>1
  <2>5. Rec(f)
    <3>1. Rec(h)
      BY <2>4
    <3> HIDE DEF Rec
    <3>2. QED
      BY <3>1
  <2>6. SaidBy(t) = f[Len(t)]
    BY DEF SaidBy
  <2> HIDE DEF f
  <2>7. f = [n \in 0 .. Len(t) |-> f[n]] /\ f[0] = a
    BY <2>5 DEF a
  <2>8. ASSUME NEW n \in 1 .. Len(t), f[n - 1] \in A PROVE f[n] = st[t[n]][f[n - 1]]
    <3>1. n \in 0 .. Len(t) /\ n # 0
      OBVIOUS
    <3>2. f[n] = SayItem(f[n - 1], t[n])
      BY <2>5, <3>1
    <3> HIDE DEF Rec
    <3>3. t[n] \in E
      OBVIOUS
    <3>4. QED
      BY <1>2, <2>8, <3>2, <3>3
  <2>9. f \in Traversals(A, a, st, t)
    BY <1>1, <2>7, <2>8, TraversalIs
  <2>10. QED
    BY <2>6, <2>9 DEF IsTraversal
<1>4. SaidBy(<<>>) = a
  <2>1. <<>> \in Seq(E)
    OBVIOUS
  <2>2. QED
    BY <1>3, <2>1, TraversalOfEmpty
<1>5. SaidBy(s) \in A /\ SaidBy(Append(s, e)) = st[e][SaidBy(s)]
  <2>1. s \in Seq(E) /\ Append(s, e) \in Seq(E) /\ e \in E
    BY DEF E
  <2>2. IsTraversal(A, a, st, s, SaidBy(s)) /\ IsTraversal(A, a, st, Append(s, e), SaidBy(Append(s, e)))
    BY <1>3, <2>1
  <2>3. QED
    BY <2>1, <2>2, TraversalOfAppend
<1>6. QED
  BY <1>2, <1>4, <1>5 DEF A, E, a

LEMMA SayingsType ==
    ASSUME NEW V, NEW X, NEW M, NEW g \in SegmentOf(V, X, M)
    PROVE  /\ Sayings(g.text, g.characterMode) \in Seq(Utterance(V, X, M))
           /\ Marks(g.indexesAfter) \in Seq(Utterance(V, X, M))
<1>1. g.text \in Seq(Audible(V)) /\ g.characterMode \in M /\ g.indexesAfter \in Seq(X)
  BY DEF SegmentOf
<1>2. ASSUME NEW t \in Seq(Audible(V)), NEW m \in M PROVE Sayings(t, m) \in Seq(Utterance(V, X, M))
  <2>1. \A k \in 1 .. Len(t) : Saying(t[k], m) \in Utterance(V, X, M)
    BY DEF Utterance, Audible
  <2>2. QED
    BY <2>1 DEF Sayings
<1>3. ASSUME NEW t \in Seq(X) PROVE Marks(t) \in Seq(Utterance(V, X, M))
  <2>1. \A k \in 1 .. Len(t) : Mark(t[k]) \in Utterance(V, X, M)
    BY DEF Utterance
  <2>2. QED
    BY <2>1 DEF Marks
<1>4. QED
  BY <1>1, <1>2, <1>3

(* What segments say. *)
LEMMA SpokenFacts ==
    ASSUME NEW V, NEW X, NEW M, NEW s \in Seq(SegmentOf(V, X, M)), NEW e \in SegmentOf(V, X, M)
    PROVE  /\ Spoken(<<>>) = <<>> /\ Spoken(s) \in Seq(Utterance(V, X, M))
           /\ Spoken(Append(s, e)) = Spoken(s) \o Sayings(e.text, e.characterMode)
                       \o Marks(e.indexesAfter)
<1> DEFINE A == Seq(Utterance(V, X, M))
           E == SegmentOf(V, X, M)
           a == <<>>
           st == [d \in E |-> [x \in A |-> x \o Sayings(d.text, d.characterMode)
                       \o Marks(d.indexesAfter)]]
<1>1. a \in A /\ st \in StepsOf(E, A)
  <2>1. a \in A
    OBVIOUS
  <2>2. \A d \in E, x \in A : x \o Sayings(d.text, d.characterMode) \o Marks(d.indexesAfter) \in A
    BY SayingsType
  <2> HIDE DEF E, A, a
  <2>3. QED
    BY <2>1, <2>2 DEF StepsOf
<1>2. \A d \in E, x \in A : st[d][x] = x \o Sayings(d.text, d.characterMode) \o Marks(d.indexesAfter)
  OBVIOUS
<1> HIDE DEF A, E, a, st
<1>3. ASSUME NEW t \in Seq(E) PROVE IsTraversal(A, a, st, t, Spoken(t))
  <2> DEFINE Rec(g) == g = [n \in 0 .. Len(t) |-> IF n = 0 THEN <<>>
                                                  ELSE g[n - 1] \o Sayings(t[n].text, t[n].characterMode)
                                                              \o Marks(t[n].indexesAfter)]
             f == CHOOSE g : Rec(g)
  <2>1. PICK h : h \in Traversals(A, a, st, t)
    BY <1>1, TraversalExists
  <2>2. /\ h = [n \in 0 .. Len(t) |-> h[n]] /\ h[0] = a
        /\ \A n \in 1 .. Len(t) : h[n] = st[t[n]][h[n - 1]] /\ h[n - 1] \in A
    BY <2>1 DEF Traversals
  <2>3. ASSUME NEW n \in 1 .. Len(t)
        PROVE h[n] = h[n - 1] \o Sayings(t[n].text, t[n].characterMode) \o Marks(t[n].indexesAfter)
    <3>1. t[n] \in E
      OBVIOUS
    <3>2. h[n - 1] \in A /\ h[n] = st[t[n]][h[n - 1]]
      BY <2>2
    <3>3. QED
      BY <1>2, <3>1, <3>2
  <2>4. h = [n \in 0 .. Len(t) |-> IF n = 0 THEN <<>>
                                   ELSE h[n - 1] \o Sayings(t[n].text, t[n].characterMode)
                                               \o Marks(t[n].indexesAfter)]
    <3>1. ASSUME NEW n \in 0 .. Len(t)
          PROVE  h[n] = IF n = 0 THEN <<>>
                      ELSE h[n - 1] \o Sayings(t[n].text, t[n].characterMode) \o Marks(t[n].indexesAfter)
      <4>1. n = 0 \/ n \in 1 .. Len(t)
        OBVIOUS
      <4>2. QED
        BY <2>2, <2>3, <4>1 DEF a
    <3>2. QED
      BY <2>2, <3>1
  <2>5. Rec(f)
    <3>1. Rec(h)
      BY <2>4
    <3> HIDE DEF Rec
    <3>2. QED
      BY <3>1
  <2>6. Spoken(t) = f[Len(t)]
    BY DEF Spoken
  <2> HIDE DEF f
  <2>7. f = [n \in 0 .. Len(t) |-> f[n]] /\ f[0] = a
    BY <2>5 DEF a
  <2>8. ASSUME NEW n \in 1 .. Len(t), f[n - 1] \in A PROVE f[n] = st[t[n]][f[n - 1]]
    <3>1. n \in 0 .. Len(t) /\ n # 0
      OBVIOUS
    <3>2. f[n] = f[n - 1] \o Sayings(t[n].text, t[n].characterMode) \o Marks(t[n].indexesAfter)
      BY <2>5, <3>1
    <3> HIDE DEF Rec
    <3>3. t[n] \in E
      OBVIOUS
    <3>4. QED
      BY <1>2, <2>8, <3>2, <3>3
  <2>9. f \in Traversals(A, a, st, t)
    BY <1>1, <2>7, <2>8, TraversalIs
  <2>10. QED
    BY <2>6, <2>9 DEF IsTraversal
<1>4. Spoken(<<>>) = a
  <2>1. <<>> \in Seq(E)
    OBVIOUS
  <2>2. QED
    BY <1>3, <2>1, TraversalOfEmpty
<1>5. Spoken(s) \in A /\ Spoken(Append(s, e)) = st[e][Spoken(s)]
  <2>1. s \in Seq(E) /\ Append(s, e) \in Seq(E) /\ e \in E
    BY DEF E
  <2>2. IsTraversal(A, a, st, s, Spoken(s)) /\ IsTraversal(A, a, st, Append(s, e), Spoken(Append(s, e)))
    BY <1>3, <2>1
  <2>3. QED
    BY <2>1, <2>2, TraversalOfAppend
<1>6. QED
  BY <1>2, <1>4, <1>5 DEF A, E, a

(* The indexes of segments. *)
LEMMA SegmentIndexesFacts ==
    ASSUME NEW V, NEW X, NEW M, NEW s \in Seq(SegmentOf(V, X, M)), NEW e \in SegmentOf(V, X, M)
    PROVE  /\ SegmentIndexes(<<>>) = <<>> /\ SegmentIndexes(s) \in Seq(X)
           /\ SegmentIndexes(Append(s, e)) = SegmentIndexes(s) \o e.indexesAfter
<1> DEFINE A == Seq(X)
           E == SegmentOf(V, X, M)
           a == <<>>
           st == [d \in E |-> [x \in A |-> x \o d.indexesAfter]]
<1>1. a \in A /\ st \in StepsOf(E, A)
  <2>1. a \in A
    OBVIOUS
  <2>2. \A d \in E, x \in A : x \o d.indexesAfter \in A
    BY DEF SegmentOf
  <2> HIDE DEF E, A, a
  <2>3. QED
    BY <2>1, <2>2 DEF StepsOf
<1>2. \A d \in E, x \in A : st[d][x] = x \o d.indexesAfter
  OBVIOUS
<1> HIDE DEF A, E, a, st
<1>3. ASSUME NEW t \in Seq(E) PROVE IsTraversal(A, a, st, t, SegmentIndexes(t))
  <2> DEFINE Rec(g) == g = [n \in 0 .. Len(t) |-> IF n = 0 THEN <<>>
                                                  ELSE g[n - 1] \o t[n].indexesAfter]
             f == CHOOSE g : Rec(g)
  <2>1. PICK h : h \in Traversals(A, a, st, t)
    BY <1>1, TraversalExists
  <2>2. /\ h = [n \in 0 .. Len(t) |-> h[n]] /\ h[0] = a
        /\ \A n \in 1 .. Len(t) : h[n] = st[t[n]][h[n - 1]] /\ h[n - 1] \in A
    BY <2>1 DEF Traversals
  <2>3. ASSUME NEW n \in 1 .. Len(t) PROVE h[n] = h[n - 1] \o t[n].indexesAfter
    <3>1. t[n] \in E
      OBVIOUS
    <3>2. h[n - 1] \in A /\ h[n] = st[t[n]][h[n - 1]]
      BY <2>2
    <3>3. QED
      BY <1>2, <3>1, <3>2
  <2>4. h = [n \in 0 .. Len(t) |-> IF n = 0 THEN <<>> ELSE h[n - 1] \o t[n].indexesAfter]
    <3>1. ASSUME NEW n \in 0 .. Len(t)
          PROVE  h[n] = IF n = 0 THEN <<>> ELSE h[n - 1] \o t[n].indexesAfter
      <4>1. n = 0 \/ n \in 1 .. Len(t)
        OBVIOUS
      <4>2. QED
        BY <2>2, <2>3, <4>1 DEF a
    <3>2. QED
      BY <2>2, <3>1
  <2>5. Rec(f)
    <3>1. Rec(h)
      BY <2>4
    <3> HIDE DEF Rec
    <3>2. QED
      BY <3>1
  <2>6. SegmentIndexes(t) = f[Len(t)]
    BY DEF SegmentIndexes
  <2> HIDE DEF f
  <2>7. f = [n \in 0 .. Len(t) |-> f[n]] /\ f[0] = a
    BY <2>5 DEF a
  <2>8. ASSUME NEW n \in 1 .. Len(t), f[n - 1] \in A PROVE f[n] = st[t[n]][f[n - 1]]
    <3>1. n \in 0 .. Len(t) /\ n # 0
      OBVIOUS
    <3>2. f[n] = f[n - 1] \o t[n].indexesAfter
      BY <2>5, <3>1
    <3> HIDE DEF Rec
    <3>3. t[n] \in E
      OBVIOUS
    <3>4. QED
      BY <1>2, <2>8, <3>2, <3>3
  <2>9. f \in Traversals(A, a, st, t)
    BY <1>1, <2>7, <2>8, TraversalIs
  <2>10. QED
    BY <2>6, <2>9 DEF IsTraversal
<1>4. SegmentIndexes(<<>>) = a
  <2>1. <<>> \in Seq(E)
    OBVIOUS
  <2>2. QED
    BY <1>3, <2>1, TraversalOfEmpty
<1>5. SegmentIndexes(s) \in A /\ SegmentIndexes(Append(s, e)) = st[e][SegmentIndexes(s)]
  <2>1. s \in Seq(E) /\ Append(s, e) \in Seq(E) /\ e \in E
    BY DEF E
  <2>2. IsTraversal(A, a, st, s, SegmentIndexes(s)) /\ IsTraversal(A, a, st, Append(s, e), SegmentIndexes(Append(s, e)))
    BY <1>3, <2>1
  <2>3. QED
    BY <2>1, <2>2, TraversalOfAppend
<1>6. QED
  BY <1>2, <1>4, <1>5 DEF A, E, a

(* What a builder has been told: the text it still collects comes last. *)
Told(b) == Spoken(b.segments) \o Sayings(Join(b.parts), b.mode)

LEMMA NothingSaid ==
    /\ \A m : Sayings(<<>>, m) = <<>>
    /\ Marks(<<>>) = <<>> /\ Join(<<>>) = <<>> /\ Spoken(<<>>) = <<>> /\ SegmentIndexes(<<>>) = <<>>
<1>1. /\ \A m : Sayings(<<>>, m) = <<>>
      /\ Marks(<<>>) = <<>>
  BY DEF Sayings, Marks
<1>2. <<>> \in Seq({1}) /\ 1 \in {1}
  OBVIOUS
<1>3. Join(<<>>) = <<>>
  BY <1>2, JoinFacts
<1> DEFINE P == SegmentOf({}, {}, {1})
           g == Segment(<<>>, 1, <<>>)
<1>4. g \in P /\ <<>> \in Seq(P)
  <2>1. <<>> \in Seq({})
    OBVIOUS
  <2>2. QED
    BY <2>1 DEF SegmentOf, Segment
<1> HIDE DEF g
<1>5. QED
  BY <1>1, <1>3, <1>4, SpokenFacts, SegmentIndexesFacts

LEMMA OneMoreSaid ==
    ASSUME NEW S, NEW t \in Seq(S), NEW e \in S, NEW m
    PROVE  /\ Sayings(Append(t, e), m) = Append(Sayings(t, m), Saying(e, m))
           /\ Marks(Append(t, e)) = Append(Marks(t), Mark(e))
<1> DEFINE P == {Saying(d, m) : d \in S}
           Q == {Mark(d) : d \in S}
           u == Append(t, e)
<1>1. /\ u \in Seq(S) /\ Len(u) = Len(t) + 1 /\ u[Len(t) + 1] = e /\ Len(t) \in Nat
      /\ \A k \in 1 .. Len(t) : u[k] = t[k] /\ t[k] \in S
  OBVIOUS
<1> HIDE DEF u
<1>2. Sayings(u, m) = Append(Sayings(t, m), Saying(e, m))
  <2>1. /\ Sayings(t, m) \in Seq(P) /\ Len(Sayings(t, m)) = Len(t)
        /\ \A k \in 1 .. Len(t) : Sayings(t, m)[k] = Saying(t[k], m)
    BY <1>1 DEF Sayings
  <2>2. /\ Sayings(u, m) \in Seq(P) /\ Len(Sayings(u, m)) = Len(t) + 1
        /\ Sayings(u, m)[Len(t) + 1] = Saying(e, m)
        /\ \A k \in 1 .. Len(t) : Sayings(u, m)[k] = Saying(t[k], m)
    BY <1>1 DEF Sayings
  <2>3. Saying(e, m) \in P
    OBVIOUS
  <2> HIDE DEF P
  <2>4. QED
    BY <1>1, <2>1, <2>2, <2>3
<1>3. Marks(u) = Append(Marks(t), Mark(e))
  <2>1. /\ Marks(t) \in Seq(Q) /\ Len(Marks(t)) = Len(t)
        /\ \A k \in 1 .. Len(t) : Marks(t)[k] = Mark(t[k])
    BY <1>1 DEF Marks
  <2>2. /\ Marks(u) \in Seq(Q) /\ Len(Marks(u)) = Len(t) + 1
        /\ Marks(u)[Len(t) + 1] = Mark(e)
        /\ \A k \in 1 .. Len(t) : Marks(u)[k] = Mark(t[k])
    BY <1>1 DEF Marks
  <2>3. Mark(e) \in Q
    OBVIOUS
  <2> HIDE DEF Q
  <2>4. QED
    BY <1>1, <2>1, <2>2, <2>3
<1>4. QED
  BY <1>2, <1>3 DEF u

LEMMA JoinType ==
    ASSUME NEW V, NEW t \in Seq(V)
    PROVE  Join(t) \in Seq(Audible(V))
<1>1. CASE t = <<>>
  <2>1. <<>> \in Seq(Audible(V))
    OBVIOUS
  <2>2. QED
    BY <1>1, <2>1, NothingSaid
<1>2. CASE t # <<>>
  <2>1. t[1] \in V
    BY <1>2
  <2>2. QED
    BY <2>1, JoinFacts
<1>3. QED
  BY <1>1, <1>2

LEMMA SpokenType ==
    ASSUME NEW V, NEW X, NEW M, NEW segs \in Seq(SegmentOf(V, X, M))
    PROVE  Spoken(segs) \in Seq(Utterance(V, X, M)) /\ SegmentIndexes(segs) \in Seq(X)
<1>1. CASE segs = <<>>
  <2>1. <<>> \in Seq(Utterance(V, X, M)) /\ <<>> \in Seq(X)
    OBVIOUS
  <2>2. QED
    BY <1>1, <2>1, NothingSaid
<1>2. CASE segs # <<>>
  <2>1. segs[1] \in SegmentOf(V, X, M)
    BY <1>2
  <2>2. QED
    BY <2>1, SpokenFacts, SegmentIndexesFacts
<1>3. QED
  BY <1>1, <1>2

Longer(t, s, e) == t = Append(s, e)

(* A segment more says what it holds, and then its indexes. *)
LEMMA SegmentSays ==
    ASSUME NEW V, NEW X, NEW M, NEW s \in Seq(SegmentOf(V, X, M)), NEW e \in SegmentOf(V, X, M),
           NEW t, Longer(t, s, e)
    PROVE  /\ Spoken(t) = Spoken(s) \o Sayings(e.text, e.characterMode) \o Marks(e.indexesAfter)
           /\ SegmentIndexes(t) = SegmentIndexes(s) \o e.indexesAfter
BY SpokenFacts, SegmentIndexesFacts DEF Longer

LEMMA ToldWithoutParts ==
    ASSUME NEW V, NEW X, NEW M, NEW b \in BuilderOf(V, X, M), b.parts = <<>>
    PROVE  Told(b) = Spoken(b.segments)
<1>1. b.segments \in Seq(SegmentOf(V, X, M))
  BY DEF BuilderOf
<1>2. Spoken(b.segments) \in Seq(Utterance(V, X, M))
  BY <1>1, SpokenType
<1>3. Sayings(Join(b.parts), b.mode) = <<>>
  BY NothingSaid
<1>4. QED
  BY <1>2, <1>3, ConcatEmptySeq DEF Told

(* A flush puts what is collected into a segment. *)
LEMMA FlushSays ==
    ASSUME NEW V, NEW X, NEW M, NEW b \in BuilderOf(V, X, M)
    PROVE  /\ Spoken(Flush(b).segments) = Told(b)
           /\ SegmentIndexes(Flush(b).segments) = SegmentIndexes(b.segments)
<1>1. /\ b.segments \in Seq(SegmentOf(V, X, M)) /\ b.parts \in Seq(V) /\ b.mode \in M
  BY DEF BuilderOf
<1>2. CASE b.parts = <<>>
  BY <1>2, FlushType, ToldWithoutParts
<1>3. CASE b.parts # <<>>
  <2> DEFINE g == Segment(Join(b.parts), b.mode, <<>>)
             segs == b.segments
             x == Spoken(segs)
             y == Sayings(g.text, g.characterMode)
  <2>1. g \in SegmentOf(V, X, M) /\ Flush(b).segments = Append(segs, g)
    BY <1>3, FlushType
  <2>2. g.text = Join(b.parts) /\ g.characterMode = b.mode /\ g.indexesAfter = <<>>
    BY DEF Segment
  <2>3. y = Sayings(Join(b.parts), b.mode)
    BY <2>2
  <2> HIDE DEF g
  <2>4. x \in Seq(Utterance(V, X, M)) /\ SegmentIndexes(segs) \in Seq(X) /\ segs \in Seq(SegmentOf(V, X, M))
    BY <1>1, SpokenType
  <2>5. y \in Seq(Utterance(V, X, M))
    BY <2>1, SayingsType
  <2> HIDE DEF segs
  <2>6. Spoken(Append(segs, g)) = x \o y \o Marks(g.indexesAfter)
    BY <2>1, <2>4, SpokenFacts
  <2>7. SegmentIndexes(Append(segs, g)) = SegmentIndexes(segs) \o g.indexesAfter
    BY <2>1, <2>4, SegmentIndexesFacts
  <2>8. Marks(g.indexesAfter) = <<>>
    BY <2>2, NothingSaid
  <2>9. Told(b) = x \o y
    BY <2>3 DEF Told, segs
  <2> HIDE DEF x, y
  <2>10. x \o y \in Seq(Utterance(V, X, M))
    BY <2>4, <2>5
  <2>11. x \o y \o <<>> = x \o y /\ SegmentIndexes(segs) \o <<>> = SegmentIndexes(segs)
    BY <2>4, <2>10, ConcatEmptySeq
  <2>12. QED
    BY <2>1, <2>2, <2>6, <2>7, <2>8, <2>9, <2>11 DEF segs
<1>4. QED
  BY <1>2, <1>3

(* An index is said after the text before it. *)
LEMMA AddIndexSays ==
    ASSUME NEW V, NEW X, NEW M, Plain(M), NEW b \in BuilderOf(V, X, M), NEW n \in X
    PROVE  /\ Told(AddIndex(b, n)) = Append(Told(b), Mark(n))
           /\ SegmentIndexes(AddIndex(b, n).segments) = Append(SegmentIndexes(b.segments), n)
<1> DEFINE P == SegmentOf(V, X, M)
           c == Flush(b).segments
           segs == AddIndex(b, n).segments
<1>1. Told(AddIndex(b, n)) = Spoken(segs)
  BY AddIndexType, ToldWithoutParts
<1>2. SUFFICES /\ Spoken(segs) = Append(Spoken(c), Mark(n))
               /\ SegmentIndexes(segs) = Append(SegmentIndexes(c), n)
  BY <1>1, FlushSays
<1>3. CASE /\ c = <<>>
           /\ Segment(<<>>, FALSE, <<n>>) \in P
           /\ segs = Append(<<>>, Segment(<<>>, FALSE, <<n>>))
  <2> DEFINE g == Segment(<<>>, FALSE, <<n>>)
  <2>1. g.text = <<>> /\ g.indexesAfter = <<n>> /\ g \in P
    BY <1>3 DEF Segment
  <2>2. Longer(segs, c, g) /\ c \in Seq(P) /\ g \in P
    <3>1. Longer(segs, c, g)
      BY <1>3 DEF Longer
    <3>2. c \in Seq(P)
      <4>1. <<>> \in Seq(P)
        OBVIOUS
      <4>2. QED
        BY <1>3, <4>1
    <3>3. QED
      BY <1>3, <3>1, <3>2
  <2> HIDE DEF g, c, segs
  <2>3. /\ Spoken(segs) = Spoken(c) \o Sayings(g.text, g.characterMode) \o Marks(g.indexesAfter)
        /\ SegmentIndexes(segs) = SegmentIndexes(c) \o g.indexesAfter
    BY <2>2, SegmentSays
  <2>5. Marks(<<n>>) = <<Mark(n)>>
    BY DEF Marks
  <2>6. Spoken(c) = <<>> /\ SegmentIndexes(c) = <<>>
    BY <1>3, NothingSaid
  <2>7. Spoken(segs) = <<>> \o <<>> \o <<Mark(n)>> /\ SegmentIndexes(segs) = <<>> \o <<n>>
    BY <2>1, <2>3, <2>5, <2>6, NothingSaid
  <2>8. QED
    BY <2>6, <2>7
<1>4. ASSUME NEW front \in Seq(P), NEW g \in P,
             c = Append(front, g),
             [g EXCEPT !.indexesAfter = Append(@, n)] \in P,
             segs = Append(front, [g EXCEPT !.indexesAfter = Append(@, n)])
      PROVE  /\ Spoken(segs) = Append(Spoken(c), Mark(n))
             /\ SegmentIndexes(segs) = Append(SegmentIndexes(c), n)
  <2> DEFINE h == [g EXCEPT !.indexesAfter = Append(@, n)]
             ix == g.indexesAfter
             x == Spoken(front)
             y == Sayings(g.text, g.characterMode)
             z == SegmentIndexes(front)
  <2>1. /\ h.text = g.text /\ h.characterMode = g.characterMode /\ ix \in Seq(X)
        /\ h.indexesAfter = Append(ix, n) /\ h \in P
    BY <1>4 DEF SegmentOf
  <2>2. /\ x \in Seq(Utterance(V, X, M)) /\ y \in Seq(Utterance(V, X, M)) /\ z \in Seq(X)
        /\ Marks(ix) \in Seq(Utterance(V, X, M))
    BY SpokenType, SayingsType
  <2>3. Longer(c, front, g) /\ Longer(segs, front, h) /\ h \in P
    BY <1>4 DEF Longer
  <2> HIDE DEF h, c, segs
  <2>4. Spoken(c) = x \o y \o Marks(ix) /\ SegmentIndexes(c) = z \o ix
    BY <2>3, SegmentSays
  <2>5. Spoken(segs) = x \o y \o Marks(h.indexesAfter) /\ SegmentIndexes(segs) = z \o h.indexesAfter
    <3>1. /\ Spoken(segs) = x \o Sayings(h.text, h.characterMode) \o Marks(h.indexesAfter)
          /\ SegmentIndexes(segs) = z \o h.indexesAfter
      BY <2>3, SegmentSays
    <3>2. QED
      BY <2>1, <3>1
  <2>6. Marks(Append(ix, n)) = Append(Marks(ix), Mark(n))
    BY <2>1, OneMoreSaid
  <2>7. Mark(n) \in Utterance(V, X, M)
    BY DEF Utterance
  <2> HIDE DEF x, y, z, ix
  <2>8. x \o y \o Append(Marks(ix), Mark(n)) = Append(x \o y \o Marks(ix), Mark(n))
    <3>1. x \o y \in Seq(Utterance(V, X, M))
      BY <2>2
    <3>2. QED
      BY <2>2, <2>7, <3>1, ConcatOfAppend
  <2>9. z \o Append(ix, n) = Append(z \o ix, n)
    BY <2>1, <2>2, ConcatOfAppend
  <2>10. QED
    BY <2>1, <2>4, <2>5, <2>6, <2>8, <2>9
<1>5. Indexed(P, c, n, segs)
  BY AddIndexSegments
<1> HIDE DEF P, c, segs
<1>6. QED
  BY <1>3, <1>4, <1>5 DEF Indexed

Heard(t) == t[3] > 0
Collected(b, t) == [b EXCEPT !.parts = Append(@, t)]

(* A text is said after all before it; an empty string says nothing. *)
LEMMA TextSays ==
    ASSUME NEW V, NEW X, NEW M, NEW b \in BuilderOf(V, X, M), NEW t \in V,
           NEW d, d = Collected(b, t)
    PROVE  /\ Heard(t) => Told(d) = Append(Told(b), Saying(t, b.mode))
           /\ ~Heard(t) => Told(d) = Told(b)
           /\ d.segments = b.segments /\ d.mode = b.mode
<1>1. b.segments \in Seq(SegmentOf(V, X, M)) /\ b.parts \in Seq(V) /\ b.mode \in M
  BY DEF BuilderOf
<1>2. d.segments = b.segments /\ d.mode = b.mode /\ d.parts = Append(b.parts, t)
  BY DEF BuilderOf, Collected
<1> DEFINE j == Join(b.parts)
           x == Spoken(b.segments)
           y == Sayings(j, b.mode)
<1>3. j \in Seq(Audible(V))
  BY <1>1, JoinType
<1>4. Join(Append(b.parts, t)) = IF Heard(t) THEN Append(j, t) ELSE j
  BY <1>1, JoinFacts DEF Heard
<1>5. Told(d) = x \o Sayings(Join(Append(b.parts, t)), b.mode) /\ Told(b) = x \o y
  BY <1>2 DEF Told
<1> HIDE DEF j
<1>6. CASE ~Heard(t)
  BY <1>2, <1>4, <1>5, <1>6
<1>7. CASE Heard(t)
  <2>1. Told(d) = x \o Sayings(Append(j, t), b.mode)
    BY <1>4, <1>5, <1>7
  <2>2. Sayings(Append(j, t), b.mode) = Append(y, Saying(t, b.mode))
    <3>1. t \in Audible(V)
      BY <1>7 DEF Audible, Heard
    <3>2. QED
      BY <1>3, <3>1, OneMoreSaid
  <2>3. Saying(t, b.mode) \in Utterance(V, X, M)
    BY <1>1 DEF Utterance
  <2>4. x \in Seq(Utterance(V, X, M))
    BY <1>1, SpokenType
  <2>5. y \in Seq(Utterance(V, X, M))
    <3>1. \A k \in 1 .. Len(j) : Saying(j[k], b.mode) \in Utterance(V, X, M)
      BY <1>1, <1>3 DEF Utterance, Audible
    <3>2. QED
      BY <1>3, <3>1 DEF Sayings
  <2> HIDE DEF x, y
  <2>6. x \o Append(y, Saying(t, b.mode)) = Append(x \o y, Saying(t, b.mode))
    BY <2>3, <2>4, <2>5, ConcatOfAppend
  <2>7. QED
    BY <1>2, <1>5, <1>7, <2>1, <2>2, <2>6
<1>8. QED
  BY <1>6, <1>7

(* What is said does not change with the mode. *)
LEMMA ModeSays ==
    ASSUME NEW V, NEW X, NEW M, NEW b \in BuilderOf(V, X, M), NEW m \in M,
           NEW d, d = [Flush(b) EXCEPT !.mode = m]
    PROVE  /\ Told(d) = Told(b) /\ d.mode = m
           /\ SegmentIndexes(d.segments) = SegmentIndexes(b.segments)
<1>1. Flush(b) \in BuilderOf(V, X, M) /\ Flush(b).parts = <<>>
  BY FlushType
<1>2. /\ d \in BuilderOf(V, X, M) /\ d.parts = <<>> /\ d.mode = m
      /\ d.segments = Flush(b).segments
  BY <1>1 DEF BuilderOf
<1>3. Told(d) = Spoken(d.segments)
  BY <1>2, ToldWithoutParts
<1>4. QED
  BY <1>2, <1>3, FlushSays

(* What the items of a sequence are converted to. *)
LEMMA ConvertFacts ==
    ASSUME NEW i, WellFormed(i)
    PROVE  /\ i.class = "str" =>
                 /\ i.class \notin Ignored
                 /\ ConvertItem(i).type = "text" /\ ConvertItem(i).text = i.text
           /\ i.class = "IndexCommand" =>
                 /\ i.class \notin Ignored
                 /\ ConvertItem(i).type = "index" /\ ConvertItem(i).index = i.index
           /\ i.class = "CharacterModeCommand" =>
                 /\ i.class \notin Ignored
                 /\ ConvertItem(i).type = "characterMode" /\ ConvertItem(i).state = i.state
           /\ i.class \notin Ignored \union {"str", "IndexCommand", "CharacterModeCommand"} =>
                 ConvertItem(i).type \notin {"text", "index", "characterMode"}
<1>1. i.class = "str" => i.class \notin Ignored /\ ConvertItem(i) = [type |-> "text", text |-> i.text]
  BY DEF Ignored, ConvertItem, Prosody
<1>2. i.class = "IndexCommand" =>
        i.class \notin Ignored /\ ConvertItem(i) = [type |-> "index", index |-> i.index]
  BY DEF Ignored, ConvertItem, Prosody
<1>3. i.class = "CharacterModeCommand" =>
        i.class \notin Ignored /\ ConvertItem(i) = [type |-> "characterMode", state |-> i.state]
  BY DEF Ignored, ConvertItem, Prosody
<1>4. ASSUME i.class \notin Ignored \union {"str", "IndexCommand", "CharacterModeCommand"}
      PROVE  ConvertItem(i).type \notin {"text", "index", "characterMode"}
  <2>1. i.class \in {"LangChangeCommand", "BreakCommand", "PhonemeCommand"} \union Prosody
    BY <1>4 DEF WellFormed
  <2>2. CASE i.class = "LangChangeCommand"
    BY <2>2 DEF ConvertItem, Prosody
  <2>3. CASE i.class = "BreakCommand"
    BY <2>3 DEF ConvertItem, Prosody
  <2>4. CASE i.class = "PhonemeCommand"
    BY <2>4 DEF ConvertItem, Prosody
  <2>5. CASE i.class \in Prosody
    <3>1. ConvertItem(i) = [type |-> ProsodyType[i.class], offset |-> i.offset,
                            multiplier |-> i.multiplier, isDefault |-> i.isDefault]
      BY <2>5 DEF ConvertItem, Prosody
    <3>2. ProsodyType[i.class] \in {"rate", "pitch", "volume"}
      BY <2>5 DEF ProsodyType, Prosody
    <3>3. QED
      BY <3>1, <3>2
  <2>6. QED
    BY <2>1, <2>2, <2>3, <2>4, <2>5
<1>5. QED
  BY <1>1, <1>2, <1>3, <1>4

(* One item keeps the builder in step with what the sequence says. *)
LEMMA ItemSays ==
    ASSUME NEW S, NEW V, NEW X, NEW M, Source(S, V, X, M), NEW i \in S, WellFormed(i),
           NEW b \in BuilderOf(V, X, M), NEW a \in SayState(V, X, M), a.said = Told(b), a.mode = b.mode,
           NEW d, d = IF i.class \in Ignored THEN b ELSE BuildItem(b, ConvertItem(i))
    PROVE  /\ SayItem(a, i).said = Told(d) /\ SayItem(a, i).mode = d.mode
           /\ SegmentIndexes(d.segments) =
                IF i.class = "IndexCommand" THEN Append(SegmentIndexes(b.segments), i.index[2])
                ELSE SegmentIndexes(b.segments)
<1> DEFINE c == ConvertItem(i)
<1>1. Plain(M) /\ (i.class = "str" => i.text \in V) /\ i.index[2] \in X /\ i.state[2] \in M
  BY DEF Source
<1>2. a = [said |-> a.said, mode |-> a.mode]
  BY DEF SayState
<1>3. CASE i.class = "str"
  <2>1. i.class \notin Ignored /\ c.type = "text" /\ c.text = i.text
    BY <1>3, ConvertFacts
  <2> HIDE DEF c
  <2>2. d = [b EXCEPT !.parts = Append(@, i.text)]
    BY <2>1 DEF BuildItem, c
  <2> DEFINE t == i.text
  <2>3. t \in V
    BY <1>1, <1>3
  <2>4. SayItem(a, i) = IF Heard(t) THEN [a EXCEPT !.said = Append(@, Saying(t, a.mode))] ELSE a
    BY <1>3 DEF SayItem, Heard
  <2>5. d = Collected(b, t)
    BY <2>2 DEF Collected
  <2> HIDE DEF t
  <2>6. /\ Heard(t) => Told(d) = Append(Told(b), Saying(t, b.mode))
        /\ ~Heard(t) => Told(d) = Told(b)
        /\ d.segments = b.segments /\ d.mode = b.mode
    BY <2>3, <2>5, TextSays
  <2>7. QED
    BY <1>2, <1>3, <2>4, <2>6
<1>4. CASE i.class = "IndexCommand"
  <2>1. i.class \notin Ignored /\ c.type = "index" /\ c.index = i.index
    BY <1>4, ConvertFacts
  <2> HIDE DEF c
  <2>2. d = AddIndex(b, i.index[2])
    BY <2>1 DEF BuildItem, c
  <2> DEFINE n == i.index[2]
  <2>3. n \in X
    BY <1>1
  <2>4. SayItem(a, i) = [a EXCEPT !.said = Append(@, Mark(n))]
    BY <1>4 DEF SayItem
  <2> HIDE DEF n
  <2>5. /\ Told(AddIndex(b, n)) = Append(Told(b), Mark(n))
        /\ SegmentIndexes(AddIndex(b, n).segments) = Append(SegmentIndexes(b.segments), n)
    BY <1>1, <2>3, AddIndexSays
  <2>6. AddIndex(b, n).mode = b.mode
    BY <1>1, <2>3, AddIndexType
  <2>7. QED
    BY <1>2, <1>4, <2>2, <2>4, <2>5, <2>6 DEF n
<1>5. CASE i.class = "CharacterModeCommand"
  <2>1. i.class \notin Ignored /\ c.type = "characterMode" /\ c.state = i.state
    BY <1>5, ConvertFacts
  <2> HIDE DEF c
  <2> DEFINE m == i.state[2]
  <2>2. d = IF m = b.mode THEN b ELSE [Flush(b) EXCEPT !.mode = m]
    BY <2>1 DEF BuildItem, c
  <2>3. SayItem(a, i) = [a EXCEPT !.mode = m]
    BY <1>5 DEF SayItem
  <2>4. m \in M
    BY <1>1
  <2> HIDE DEF m
  <2>5. Told(d) = Told(b) /\ d.mode = m /\ SegmentIndexes(d.segments) = SegmentIndexes(b.segments)
    <3>1. CASE m = b.mode
      BY <2>2, <3>1
    <3>2. CASE m # b.mode
      BY <2>2, <2>4, <3>2, ModeSays
    <3>3. QED
      BY <3>1, <3>2
  <2>6. QED
    BY <1>2, <1>5, <2>3, <2>5
<1>6. CASE i.class \notin {"str", "IndexCommand", "CharacterModeCommand"}
  <2>1. d = b
    <3>1. CASE i.class \in Ignored
      BY <3>1
    <3>2. CASE i.class \notin Ignored
      <4>1. c.type \notin {"text", "index", "characterMode"}
        BY <1>6, <3>2, ConvertFacts
      <4> HIDE DEF c
      <4>2. BuildItem(b, c) = b
        BY <4>1 DEF BuildItem
      <4>3. QED
        BY <3>2, <4>2 DEF c
    <3>3. QED
      BY <3>1, <3>2
  <2>2. SayItem(a, i) = a
    BY <1>6 DEF SayItem
  <2>3. QED
    BY <1>6, <2>1, <2>2
<1>7. QED
  BY <1>3, <1>4, <1>5, <1>6

(* The items of well-formed sequences hold strings of V, indexes of X and modes of M. *)
LEMMA ConvertedItems ==
    ASSUME NEW S, NEW V, NEW X, NEW M, Source(S, V, X, M), \A i \in S : WellFormed(i)
    PROVE  Item(Converted(S), V, X, M)
<1> SUFFICES ASSUME NEW c \in Converted(S)
             PROVE  /\ c.type = "text" => c.text \in V
                    /\ c.type = "index" => c.index[2] \in X
                    /\ c.type = "characterMode" => c.state[2] \in M
  BY DEF Item
<1>1. PICK i \in S : i.class \notin Ignored /\ c = ConvertItem(i)
  BY DEF Converted
<1>2. WellFormed(i) /\ (i.class = "str" => i.text \in V) /\ i.index[2] \in X /\ i.state[2] \in M
  BY DEF Source
<1>3. CASE i.class = "str"
  BY <1>1, <1>2, <1>3, ConvertFacts
<1>4. CASE i.class = "IndexCommand"
  BY <1>1, <1>2, <1>4, ConvertFacts
<1>5. CASE i.class = "CharacterModeCommand"
  BY <1>1, <1>2, <1>5, ConvertFacts
<1>6. CASE i.class \notin Ignored \union {"str", "IndexCommand", "CharacterModeCommand"}
  BY <1>1, <1>2, <1>6, ConvertFacts
<1>7. QED
  BY <1>1, <1>3, <1>4, <1>5, <1>6

LEMMA EmptySequence ==
    /\ Items(<<>>) = <<>> /\ Indexes(<<>>) = <<>>
    /\ SaidBy(<<>>) = [said |-> <<>>, mode |-> FALSE]
    /\ Built(<<>>) = [segments |-> <<>>, parts |-> <<>>, mode |-> FALSE]
<1> DEFINE i == [text |-> 1, index |-> <<1, 1>>, state |-> <<1, FALSE>>]
           c == [type |-> "break"]
           S == {i}
           C == {c}
           V == {1}
           X == {1}
           M == {FALSE}
<1>1. Source(S, V, X, M) /\ Plain(M) /\ i \in S
  BY DEF Source, Plain
<1>2. Item(C, V, X, M) /\ c \in C
  BY DEF Item
<1>3. ASSUME NEW P PROVE <<>> \in Seq(P)
  OBVIOUS
<1> HIDE DEF i, c, S, C, V, X, M
<1>4. <<>> \in Seq(S) /\ <<>> \in Seq(C)
  BY <1>3
<1>5. Items(<<>>) = <<>>
  BY <1>1, <1>4, ItemsFacts
<1>6. Indexes(<<>>) = <<>>
  BY <1>1, <1>4, IndexesFacts
<1>7. SaidBy(<<>>) = [said |-> <<>>, mode |-> FALSE]
  BY <1>1, <1>4, SaidFacts
<1>8. Built(<<>>) = [segments |-> <<>>, parts |-> <<>>, mode |-> FALSE]
  BY <1>1, <1>2, <1>4, BuiltFacts
<1>9. QED
  BY <1>5, <1>6, <1>7, <1>8

(* The builder of a sequence has been told what the sequence says. *)
InStep(s, V, X, M) ==
    /\ Built(Items(s)) \in BuilderOf(V, X, M)
    /\ SaidBy(s) \in SayState(V, X, M)
    /\ SaidBy(s).said = Told(Built(Items(s)))
    /\ SaidBy(s).mode = Built(Items(s)).mode
    /\ Indexes(s) = SegmentIndexes(Built(Items(s)).segments)

LEMMA InStepFromTheStart ==
    ASSUME NEW V, NEW X, NEW M, Plain(M) PROVE InStep(<<>>, V, X, M)
<1> DEFINE b == [segments |-> <<>>, parts |-> <<>>, mode |-> FALSE]
           a == [said |-> <<>>, mode |-> FALSE]
<1>1. Built(Items(<<>>)) = b /\ SaidBy(<<>>) = a /\ Indexes(<<>>) = <<>>
  BY EmptySequence
<1>2. b \in BuilderOf(V, X, M)
  <2>1. <<>> \in Seq(SegmentOf(V, X, M)) /\ <<>> \in Seq(V)
    OBVIOUS
  <2>2. QED
    BY <2>1 DEF BuilderOf, Plain
<1>3. a \in SayState(V, X, M)
  <2>1. <<>> \in Seq(Utterance(V, X, M))
    OBVIOUS
  <2>2. QED
    BY <2>1 DEF SayState, Plain
<1>4. b.parts = <<>> /\ b.segments = <<>> /\ b.mode = FALSE /\ a.said = <<>> /\ a.mode = FALSE
  OBVIOUS
<1> HIDE DEF a, b
<1>5. Told(b) = <<>>
  BY <1>2, <1>4, ToldWithoutParts, NothingSaid
<1>6. QED
  BY <1>1, <1>2, <1>3, <1>4, <1>5, NothingSaid DEF InStep

LEMMA InStepAfterAnItem ==
    ASSUME NEW S, NEW V, NEW X, NEW M, Source(S, V, X, M), \A i \in S : WellFormed(i),
           NEW s \in Seq(S), NEW i \in S, InStep(s, V, X, M)
    PROVE  InStep(Append(s, i), V, X, M)
<1> DEFINE C == Converted(S)
           b == Built(Items(s))
           a == SaidBy(s)
           d == Built(Items(Append(s, i)))
<1>1. Item(C, V, X, M) /\ Plain(M)
  BY ConvertedItems DEF Source
<1>2. /\ Items(s) \in Seq(C)
      /\ Items(Append(s, i)) = IF i.class \in Ignored THEN Items(s) ELSE Append(Items(s), ConvertItem(i))
  BY ItemsFacts
<1>3. SaidBy(Append(s, i)) = SayItem(a, i)
  BY SaidFacts
<1>4. Indexes(Append(s, i)) = IF i.class = "IndexCommand" THEN Append(Indexes(s), i.index[2])
            ELSE Indexes(s)
  BY IndexesFacts
<1>5. d = IF i.class \in Ignored THEN b ELSE BuildItem(b, ConvertItem(i))
  <2>1. CASE i.class \in Ignored
    BY <1>2, <2>1
  <2>2. CASE i.class \notin Ignored
    <3>1. ConvertItem(i) \in C
      BY <2>2 DEF Converted
    <3> HIDE DEF C
    <3>2. Built(Append(Items(s), ConvertItem(i))) = BuildItem(b, ConvertItem(i))
      BY <1>1, <1>2, <3>1, BuiltFacts
    <3>3. QED
      BY <1>2, <2>2, <3>2
  <2>3. QED
    BY <2>1, <2>2
<1>6. /\ b \in BuilderOf(V, X, M) /\ a \in SayState(V, X, M) /\ a.said = Told(b) /\ a.mode = b.mode
      /\ Indexes(s) = SegmentIndexes(b.segments)
  BY DEF InStep
<1>7. d \in BuilderOf(V, X, M)
  <2>1. CASE i.class \in Ignored
    BY <1>5, <1>6, <2>1
  <2>2. CASE i.class \notin Ignored
    <3>1. ConvertItem(i) \in C
      BY <2>2 DEF Converted
    <3> HIDE DEF b, C, d
    <3>2. BuildItem(b, ConvertItem(i)) \in BuilderOf(V, X, M)
      BY <1>1, <1>6, <3>1, BuildItemType
    <3>3. QED
      BY <1>5, <2>2, <3>2
  <2>3. QED
    BY <2>1, <2>2
<1>8. SayItem(a, i) \in SayState(V, X, M)
  BY <1>6, SayItemType
<1>9. WellFormed(i)
  OBVIOUS
<1> HIDE DEF a, b, d
<1>10. /\ SayItem(a, i).said = Told(d) /\ SayItem(a, i).mode = d.mode
       /\ SegmentIndexes(d.segments) =
            IF i.class = "IndexCommand" THEN Append(SegmentIndexes(b.segments), i.index[2])
            ELSE SegmentIndexes(b.segments)
  BY <1>5, <1>6, <1>9, ItemSays
<1>11. QED
  BY <1>3, <1>4, <1>6, <1>7, <1>8, <1>10 DEF InStep, a, b, d

Strings(s) == {i.text : i \in {j \in ToSet(s) : j.class = "str"}}

(* What is built of a well-formed sequence says the sequence, and answers for its
   indexes. *)
LEMMA BuiltSegmentsSay ==
    ASSUME NEW s, s \in Seq(ToSet(s)), \A k \in DOMAIN s : WellFormed(s[k])
    PROVE  /\ \E X, M : BuildSegments(Items(s)) \in Seq(SegmentOf(Strings(s), X, M))
           /\ Spoken(BuildSegments(Items(s))) = Said(s)
           /\ SegmentIndexes(BuildSegments(Items(s))) = Indexes(s)
<1> DEFINE S == ToSet(s)
           V == Strings(s)
           X == {i.index[2] : i \in S}
           M == {FALSE} \union {i.state[2] : i \in S}
           T == {t \in Seq(S) : InStep(t, V, X, M)}
<1>1. Source(S, V, X, M) /\ Plain(M)
  BY DEF Source, Plain, Strings
<1>2. \A i \in S : WellFormed(i)
  BY DEF ToSet
<1> HIDE DEF S, V, X, M
<1>3. <<>> \in T
  <2>1. <<>> \in Seq(S)
    OBVIOUS
  <2>2. QED
    BY <1>1, <2>1, InStepFromTheStart
<1>4. ASSUME NEW t \in Seq(S), NEW i \in S, t \in T PROVE Append(t, i) \in T
  <2>1. Append(t, i) \in Seq(S) /\ InStep(t, V, X, M)
    BY <1>4
  <2>2. QED
    BY <1>1, <1>2, <2>1, InStepAfterAnItem
<1> HIDE DEF T
<1>5. \A t \in Seq(S) : t \in T
  BY <1>3, <1>4, SequenceInduction
<1>6. InStep(s, V, X, M)
  BY <1>5 DEF T, S
<1>7. /\ Spoken(Flush(Built(Items(s))).segments) = Told(Built(Items(s)))
      /\ SegmentIndexes(Flush(Built(Items(s))).segments) = SegmentIndexes(Built(Items(s)).segments)
  BY <1>6, FlushSays DEF InStep
<1>8. Flush(Built(Items(s))).segments \in Seq(SegmentOf(V, X, M))
  <2>1. Flush(Built(Items(s))) \in BuilderOf(V, X, M)
    BY <1>6, FlushType DEF InStep
  <2>2. QED
    BY <2>1 DEF BuilderOf
<1>9. QED
  BY <1>6, <1>7, <1>8 DEF InStep, BuildSegments, Said, V

LEMMA IndexesType ==
    ASSUME NEW s, s \in Seq(ToSet(s))
    PROVE  \E X : Indexes(s) \in Seq(X)
<1> DEFINE S == ToSet(s)
           V == Strings(s)
           X == {i.index[2] : i \in S}
           M == {FALSE} \union {i.state[2] : i \in S}
<1>1. Source(S, V, X, M)
  BY DEF Source, Plain, Strings
<1>2. CASE s = <<>>
  <2>1. Indexes(s) = <<>> /\ <<>> \in Seq(X)
    BY <1>2, EmptySequence
  <2>2. QED
    BY <2>1
<1>3. CASE s # <<>>
  <2>1. s[1] \in S /\ s \in Seq(S)
    BY <1>3
  <2> HIDE DEF S, V, X, M
  <2>2. Indexes(s) \in Seq(X)
    BY <1>1, <2>1, IndexesFacts
  <2>3. QED
    BY <2>2
<1>4. QED
  BY <1>2, <1>3

(* A submitted request holds the segments of a well-formed sequence and nothing is
   answered yet; a rejected one holds none and everything is. *)
Answered ==
    /\ outcome \in {"submitted", "rejected"} => speech \in Speech
    /\ outcome = "submitted" =>
          /\ \A k \in DOMAIN speech : WellFormed(speech[k])
          /\ segments = BuildSegments(Items(speech)) /\ answered = <<>>
    /\ outcome = "rejected" => segments = <<>> /\ answered = Indexes(speech)

LEMMA AnsweredStep == Answered /\ [NextJobs]_jobVars => Answered'
<1> SUFFICES ASSUME Answered, [NextJobs]_jobVars PROVE Answered'
  OBVIOUS
<1>1. CASE UNCHANGED jobVars
  BY <1>1 DEF jobVars, Answered
<1>2. CASE ForgetSpeech
  BY <1>2 DEF ForgetSpeech, Answered
<1>3. ASSUME NEW s \in Speech, Speak(s) PROVE Answered'
  <2>1. speech' = s /\ s \in Speech
    BY <1>3 DEF Speak
  <2>2. CASE RejectConversion(s) \/ RejectSegments(s)
    <3>1. outcome' = "rejected" /\ segments' = <<>> /\ answered' = Indexes(s)
      BY <2>2 DEF RejectConversion, RejectSegments, NothingSubmitted, CompleteRejectedIndexes
    <3>2. QED
      BY <2>1, <3>1 DEF Answered
  <2>3. CASE RaiseExhausted(s)
    BY <2>3 DEF RaiseExhausted, Answered
  <2>4. CASE SubmitSpeech(s)
    <3>1. /\ \A k \in DOMAIN s : WellFormed(s[k])
          /\ segments' = BuildSegments(Items(s)) /\ outcome' = "submitted" /\ answered' = <<>>
      BY <2>4 DEF SubmitSpeech, Converts
    <3>2. QED
      BY <2>1, <3>1 DEF Answered
  <2>5. QED
    BY <1>3, <2>2, <2>3, <2>4 DEF Speak
<1>4. QED
  BY <1>1, <1>2, <1>3 DEF NextJobs

LEMMA AlwaysAnswered == SpecJobs => []Answered
<1>1. InitJobs => Answered
  BY DEF InitJobs, Answered
<1>2. QED
  BY <1>1, AnsweredStep, PTL DEF SpecJobs

(* The segments of a request say what NVDA's sequence said, every string in its
   character mode and every index after the same text, whatever the sequence. *)
THEOREM SpeechIsSaid == SpecJobs => []SegmentsSayTheSpeech
<1>1. Answered => SegmentsSayTheSpeech
  <2> SUFFICES ASSUME Answered, outcome = "submitted" PROVE Spoken(segments) = Said(speech)
    BY DEF SegmentsSayTheSpeech
  <2>1. /\ speech \in Seq(ToSet(speech)) /\ \A k \in DOMAIN speech : WellFormed(speech[k])
        /\ segments = BuildSegments(Items(speech))
    BY SpeechAssumption DEF Answered
  <2>2. QED
    BY <2>1, BuiltSegmentsSay
<1>2. QED
  BY <1>1, AlwaysAnswered, PTL

(* Unless speak raises, every index of NVDA's sequence is answered for once and in
   order: by the segments of the request, or at once at its rejection. *)
THEOREM EveryIndexIsAnswered == SpecJobs => []IndexesAreAnswered
<1>1. Answered => IndexesAreAnswered
  <2>1. ASSUME Answered, outcome = "submitted"
        PROVE  Indexes(speech) = SegmentIndexes(segments) \o answered
    <3>1. /\ speech \in Seq(ToSet(speech)) /\ \A k \in DOMAIN speech : WellFormed(speech[k])
          /\ segments = BuildSegments(Items(speech)) /\ answered = <<>>
      BY <2>1, SpeechAssumption DEF Answered
    <3>2. SegmentIndexes(segments) = Indexes(speech)
      BY <3>1, BuiltSegmentsSay
    <3>3. PICK X : Indexes(speech) \in Seq(X)
      BY <3>1, IndexesType
    <3>4. Indexes(speech) \o <<>> = Indexes(speech)
      BY <3>3, ConcatEmptySeq
    <3>5. QED
      BY <3>1, <3>2, <3>4
  <2>2. ASSUME Answered, outcome = "rejected"
        PROVE  Indexes(speech) = SegmentIndexes(segments) \o answered
    <3>1. speech \in Seq(ToSet(speech)) /\ segments = <<>> /\ answered = Indexes(speech)
      BY <2>2, SpeechAssumption DEF Answered
    <3>2. SegmentIndexes(segments) = <<>>
      BY <3>1, NothingSaid
    <3>3. PICK X : Indexes(speech) \in Seq(X)
      BY <3>1, IndexesType
    <3>4. <<>> \o Indexes(speech) = Indexes(speech)
      BY <3>3, ConcatEmptySeq
    <3>5. QED
      BY <3>1, <3>2, <3>4
  <2>3. QED
    BY <2>1, <2>2 DEF IndexesAreAnswered
<1>2. QED
  BY <1>1, AlwaysAnswered, PTL

-----------------------------------------------------------------------------
(* What trimming leaves of audio. *)

LEMMA MinOf ==
    ASSUME NEW T, T \subseteq Nat, NEW m \in T, \A x \in T : m <= x
    PROVE  Min(T) = m
<1>1. \A x \in T : (\A y \in T : x <= y) => x = m
  <2>1. ASSUME NEW x \in T, \A y \in T : x <= y PROVE x = m
    <3>1. x <= m /\ m <= x /\ x \in Nat /\ m \in Nat
      BY <2>1
    <3>2. QED
      BY <3>1
  <2>2. QED
    BY <2>1
<1>2. QED
  BY <1>1 DEF Min

LEMMA MinFacts ==
    ASSUME NEW T, T \subseteq Nat, T # {}
    PROVE  Min(T) \in T /\ \A x \in T : Min(T) <= x
<1>1. PICK m \in T : \A x \in T : m <= x
  BY Least
<1>2. QED
  BY <1>1, MinOf

LEMMA MinOfTwo ==
    ASSUME NEW a \in Nat, NEW b \in Nat
    PROVE  Min({a, b}) = IF a <= b THEN a ELSE b
<1>1. CASE a <= b
  BY <1>1, MinOf
<1>2. CASE ~(a <= b)
  BY <1>2, MinOf
<1>3. QED
  BY <1>1, <1>2

LEMMA MaxOf ==
    ASSUME NEW T, T \subseteq Int, NEW m \in T, \A x \in T : x <= m
    PROVE  Max(T) = m
<1>1. \A x \in T : (\A y \in T : x >= y) => x = m
  <2>1. ASSUME NEW x \in T, \A y \in T : x >= y PROVE x = m
    <3>1. x >= m /\ x <= m /\ x \in Int /\ m \in Int
      BY <2>1
    <3>2. QED
      BY <3>1
  <2>2. QED
    BY <2>1
<1>2. \A x \in T : m >= x
  OBVIOUS
<1>3. QED
  BY <1>1, <1>2 DEF Max

LEMMA MaxFacts ==
    ASSUME NEW N \in Nat, NEW T, T \subseteq 0 .. N, T # {}
    PROVE  Max(T) \in T /\ \A x \in T : x <= Max(T)
<1> DEFINE U == {N - x : x \in T}
<1>1. U \subseteq Nat /\ U # {}
  OBVIOUS
<1>2. PICK u \in U : \A x \in U : u <= x
  BY <1>1, Least
<1>3. PICK m \in T : u = N - m
  BY <1>2
<1>4. ASSUME NEW x \in T PROVE x <= m
  <2>1. N - m <= N - x
    BY <1>2, <1>3
  <2>2. QED
    BY <2>1
<1>5. T \subseteq Int
  OBVIOUS
<1> HIDE DEF U
<1>6. Max(T) = m
  BY <1>3, <1>4, <1>5, MaxOf
<1>7. QED
  BY <1>3, <1>4, <1>6

LEMMA MaxWithZero ==
    ASSUME NEW a \in Int
    PROVE  Max({0, a}) = IF a < 0 THEN 0 ELSE a
<1>1. CASE a < 0
  BY <1>1, MaxOf
<1>2. CASE ~(a < 0)
  BY <1>2, MaxOf
<1>3. QED
  BY <1>1, <1>2

(* A slice between indexes of the audio is what lies between them. *)
LEMMA SliceInside ==
    ASSUME NEW S, NEW s \in Seq(S), NEW from \in 0 .. Len(s), NEW to \in 0 .. Len(s)
    PROVE  Slice(s, from, to) = SubSeq(s, from + 1, to)
<1>1. Min({from, Len(s)}) = from /\ Min({to, Len(s)}) = to
  BY MinOfTwo
<1>2. ~(from < 0) /\ ~(to < 0)
  OBVIOUS
<1>3. QED
  BY <1>1, <1>2 DEF Slice

LEMMA SustainedIsASound ==
    ASSUME NEW S, NEW s \in Seq(S), NEW i \in Nat
    PROVE  Sustained(s, i) <=> i \in Sounds(s)
<1>1. sustainedFrames \in Nat \ {0}
  BY TrimAssumption
<1>2. i \in 0 .. Len(s) - sustainedFrames <=> i + sustainedFrames <= Len(s)
  BY <1>1
<1>3. ASSUME i + sustainedFrames <= Len(s)
      PROVE  Slice(s, i, i + sustainedFrames) = SubSeq(s, i + 1, i + sustainedFrames)
  <2> DEFINE to == i + sustainedFrames
  <2>1. i \in 0 .. Len(s) /\ to \in 0 .. Len(s)
    BY <1>1, <1>3
  <2> HIDE DEF to
  <2>2. Slice(s, i, to) = SubSeq(s, i + 1, to)
    BY <2>1, SliceInside
  <2>3. QED
    BY <2>2 DEF to
<1>4. QED
  BY <1>2, <1>3 DEF Sustained, Sounds

(* The bounds lie around every sound that is sustained.  Looking from the end, the
   last of them is found before an index beyond the start can be mistaken for one. *)
LEMMA BoundsAroundSounds ==
    ASSUME NEW S, NEW s \in Seq(S), Sounds(s) # {}
    PROVE  /\ Bounds(s)[1] \in 0 .. Min(Sounds(s))
           /\ Bounds(s)[2] \in Max(Sounds(s)) + sustainedFrames .. Len(s)
           /\ Min(Sounds(s)) \in Sounds(s) /\ Max(Sounds(s)) \in Sounds(s)
           /\ Min(Sounds(s)) <= Max(Sounds(s))
<1> DEFINE n == Len(s)
           T == Sounds(s)
           d == sustainedFrames
           A == {i \in 0 .. n - 1 : Sustained(s, i)}
           B == {i \in 0 .. n - 1 : Sustained(s, n - i - d)}
           m == Max(T)
<1>1. n \in Nat /\ d \in Nat \ {0} /\ preRoll \in Nat /\ postRoll \in Nat
  BY TrimAssumption
<1>2. T \subseteq 0 .. n - d /\ T \subseteq Nat
  BY <1>1 DEF Sounds
<1>3. n - d \in Nat /\ n > 0
  <2>1. PICK i : i \in T
    OBVIOUS
  <2>2. QED
    BY <1>1, <1>2, <2>1
<1>4. Min(T) \in T /\ m \in T /\ (\A x \in T : Min(T) <= x /\ x <= m)
  BY <1>2, <1>3, MinFacts, MaxFacts
<1>5. A = T
  <2>1. ASSUME NEW i \in 0 .. n - 1 PROVE Sustained(s, i) <=> i \in T
    BY SustainedIsASound
  <2>2. T \subseteq 0 .. n - 1
    BY <1>1, <1>2
  <2>3. QED
    BY <2>1, <2>2
<1>6. n - d - m \in B
  <2>1. n - d - m \in 0 .. n - 1 /\ m \in Nat /\ n - (n - d - m) - d = m
    BY <1>1, <1>2, <1>4
  <2>2. Sustained(s, m)
    BY <1>4, <2>1, SustainedIsASound
  <2> HIDE DEF T, m, n, d
  <2>3. QED
    BY <2>1, <2>2
<1>7. ASSUME NEW i \in B PROVE n - d - m <= i
  <2>1. SUFFICES ASSUME i < n - d - m PROVE FALSE
    BY <1>1, <1>2, <1>4
  <2>2. n - i - d \in Nat /\ n - i - d > m
    BY <1>1, <1>2, <1>4, <2>1
  <2>3. Sustained(s, n - i - d)
    BY <1>7
  <2>4. n - i - d \in T
    BY <2>2, <2>3, SustainedIsASound
  <2>5. n - i - d <= m
    BY <1>4, <2>4
  <2>6. QED
    BY <1>2, <1>4, <2>2, <2>5
<1>8. FirstOf(A) = Min(T)
  BY <1>5 DEF FirstOf
<1>9. FirstOf(B) = n - d - m
  <2>1. B \subseteq Nat /\ B # {}
    BY <1>6
  <2> HIDE DEF B, n, d, m
  <2>2. Min(B) = n - d - m
    BY <1>6, <1>7, <2>1, MinOf
  <2>3. QED
    BY <2>1, <2>2 DEF FirstOf
<1>10. Bounds(s) = <<Max({0, Min(T) - preRoll}), Min({n, n - (n - d - m) + postRoll})>>
  BY <1>8, <1>9 DEF Bounds
<1>11. /\ Min(T) \in Nat /\ m \in Nat /\ m + d <= n /\ Min(T) <= m
  BY <1>1, <1>2, <1>4
<1> HIDE DEF T, m, A, B
<1>12. Max({0, Min(T) - preRoll}) \in 0 .. Min(T)
  BY <1>1, <1>11, MaxWithZero
<1>13. Min({n, n - (n - d - m) + postRoll}) \in m + d .. n
  <2>1. n - (n - d - m) + postRoll = m + d + postRoll /\ m + d + postRoll \in Nat
    BY <1>1, <1>11
  <2>2. QED
    BY <1>1, <1>11, <2>1, MinOfTwo
<1>14. QED
  BY <1>4, <1>10, <1>11, <1>12, <1>13 DEF T, m

(* What is left of audio lies around every sound that is sustained. *)
LEMMA TrimKeepsSounds ==
    ASSUME NEW S, NEW s \in Seq(S), Sounds(s) # {}
    PROVE  \E from \in 0 .. Min(Sounds(s)) : \E to \in Max(Sounds(s)) + sustainedFrames .. Len(s) :
              Trim(s) = SubSeq(s, from + 1, to)
<1> DEFINE a == Bounds(s)[1]
           b == Bounds(s)[2]
<1>1. /\ a \in 0 .. Min(Sounds(s)) /\ b \in Max(Sounds(s)) + sustainedFrames .. Len(s)
      /\ Min(Sounds(s)) \in Sounds(s) /\ Max(Sounds(s)) \in Sounds(s)
  BY BoundsAroundSounds
<1>2. Trim(s) = s \/ Trim(s) = SubSeq(s, a + 1, b)
  BY DEF Trim
<1>3. CASE Trim(s) = SubSeq(s, a + 1, b)
  BY <1>1, <1>3
<1>4. CASE Trim(s) = s
  <2>1. s = SubSeq(s, 0 + 1, Len(s))
    OBVIOUS
  <2>2. Sounds(s) \subseteq 0 .. Len(s) - sustainedFrames
    BY DEF Sounds
  <2>3. 0 \in 0 .. Min(Sounds(s)) /\ Len(s) \in Max(Sounds(s)) + sustainedFrames .. Len(s)
    BY <1>1, <2>2, TrimAssumption
  <2>4. QED
    BY <1>4, <2>1, <2>3
<1>5. QED
  BY <1>2, <1>3, <1>4

-----------------------------------------------------------------------------
(* Requests and their answers. *)

(* The length of a text. *)
LEMMA TextLengthFacts ==
    ASSUME NEW S, \A d \in S : d[3] \in Nat, NEW s \in Seq(S), NEW e \in S
    PROVE  /\ TextLength(<<>>) = 0 /\ TextLength(s) \in Nat
           /\ TextLength(Append(s, e)) = TextLength(s) + e[3]
<1> DEFINE A == Nat
           E == S
           a == 0
           st == [d \in E |-> [x \in A |-> x + d[3]]]
<1>1. a \in A /\ st \in StepsOf(E, A)
  BY DEF StepsOf
<1>2. \A d \in E, x \in A : st[d][x] = x + d[3]
  OBVIOUS
<1> HIDE DEF A, E, a, st
<1>3. ASSUME NEW t \in Seq(E) PROVE IsTraversal(A, a, st, t, TextLength(t))
  <2> DEFINE Rec(g) == g = [n \in 0 .. Len(t) |-> IF n = 0 THEN 0 ELSE g[n - 1] + t[n][3]]
             f == CHOOSE g : Rec(g)
  <2>1. PICK h : h \in Traversals(A, a, st, t)
    BY <1>1, TraversalExists
  <2>2. /\ h = [n \in 0 .. Len(t) |-> h[n]] /\ h[0] = a
        /\ \A n \in 1 .. Len(t) : h[n] = st[t[n]][h[n - 1]] /\ h[n - 1] \in A
    BY <2>1 DEF Traversals
  <2>3. ASSUME NEW n \in 1 .. Len(t) PROVE h[n] = h[n - 1] + t[n][3]
    <3>1. t[n] \in E
      OBVIOUS
    <3>2. h[n - 1] \in A /\ h[n] = st[t[n]][h[n - 1]]
      BY <2>2
    <3>3. QED
      BY <1>2, <3>1, <3>2
  <2>4. h = [n \in 0 .. Len(t) |-> IF n = 0 THEN 0 ELSE h[n - 1] + t[n][3]]
    <3>1. ASSUME NEW n \in 0 .. Len(t)
          PROVE  h[n] = IF n = 0 THEN 0 ELSE h[n - 1] + t[n][3]
      <4>1. n = 0 \/ n \in 1 .. Len(t)
        OBVIOUS
      <4>2. QED
        BY <2>2, <2>3, <4>1 DEF a
    <3>2. QED
      BY <2>2, <3>1
  <2>5. Rec(f)
    <3>1. Rec(h)
      BY <2>4
    <3> HIDE DEF Rec
    <3>2. QED
      BY <3>1
  <2>6. TextLength(t) = f[Len(t)]
    BY DEF TextLength
  <2> HIDE DEF f
  <2>7. f = [n \in 0 .. Len(t) |-> f[n]] /\ f[0] = a
    BY <2>5 DEF a
  <2>8. ASSUME NEW n \in 1 .. Len(t), f[n - 1] \in A PROVE f[n] = st[t[n]][f[n - 1]]
    <3>1. n \in 0 .. Len(t) /\ n # 0
      OBVIOUS
    <3>2. f[n] = f[n - 1] + t[n][3]
      BY <2>5, <3>1
    <3> HIDE DEF Rec
    <3>3. t[n] \in E
      OBVIOUS
    <3>4. QED
      BY <1>2, <2>8, <3>2, <3>3
  <2>9. f \in Traversals(A, a, st, t)
    BY <1>1, <2>7, <2>8, TraversalIs
  <2>10. QED
    BY <2>6, <2>9 DEF IsTraversal
<1>4. TextLength(<<>>) = a
  <2>1. <<>> \in Seq(E)
    OBVIOUS
  <2>2. QED
    BY <1>3, <2>1, TraversalOfEmpty
<1>5. TextLength(s) \in A /\ TextLength(Append(s, e)) = st[e][TextLength(s)]
  <2>1. s \in Seq(E) /\ Append(s, e) \in Seq(E) /\ e \in E
    BY DEF E
  <2>2. IsTraversal(A, a, st, s, TextLength(s)) /\ IsTraversal(A, a, st, Append(s, e), TextLength(Append(s, e)))
    BY <1>3, <2>1
  <2>3. QED
    BY <2>1, <2>2, TraversalOfAppend
<1>6. QED
  BY <1>2, <1>4, <1>5 DEF A, E, a

(* The bytes of a text. *)
LEMMA TextBytesFacts ==
    ASSUME NEW S, \A d \in S : d[3] \in Nat, NEW s \in Seq(S), NEW e \in S
    PROVE  /\ TextBytes(<<>>) = 0 /\ TextBytes(s) \in Nat
           /\ TextBytes(Append(s, e)) = TextBytes(s) + StringBytes(e)
<1> DEFINE A == Nat
           E == S
           a == 0
           st == [d \in E |-> [x \in A |-> x + StringBytes(d)]]
<1>1. a \in A /\ st \in StepsOf(E, A)
  BY DEF StepsOf, StringBytes
<1>2. \A d \in E, x \in A : st[d][x] = x + StringBytes(d)
  OBVIOUS
<1> HIDE DEF A, E, a, st
<1>3. ASSUME NEW t \in Seq(E) PROVE IsTraversal(A, a, st, t, TextBytes(t))
  <2> DEFINE Rec(g) == g = [n \in 0 .. Len(t) |-> IF n = 0 THEN 0
                                                  ELSE g[n - 1] + StringBytes(t[n])]
             f == CHOOSE g : Rec(g)
  <2>1. PICK h : h \in Traversals(A, a, st, t)
    BY <1>1, TraversalExists
  <2>2. /\ h = [n \in 0 .. Len(t) |-> h[n]] /\ h[0] = a
        /\ \A n \in 1 .. Len(t) : h[n] = st[t[n]][h[n - 1]] /\ h[n - 1] \in A
    BY <2>1 DEF Traversals
  <2>3. ASSUME NEW n \in 1 .. Len(t) PROVE h[n] = h[n - 1] + StringBytes(t[n])
    <3>1. t[n] \in E
      OBVIOUS
    <3>2. h[n - 1] \in A /\ h[n] = st[t[n]][h[n - 1]]
      BY <2>2
    <3>3. QED
      BY <1>2, <3>1, <3>2
  <2>4. h = [n \in 0 .. Len(t) |-> IF n = 0 THEN 0 ELSE h[n - 1] + StringBytes(t[n])]
    <3>1. ASSUME NEW n \in 0 .. Len(t)
          PROVE  h[n] = IF n = 0 THEN 0 ELSE h[n - 1] + StringBytes(t[n])
      <4>1. n = 0 \/ n \in 1 .. Len(t)
        OBVIOUS
      <4>2. QED
        BY <2>2, <2>3, <4>1 DEF a
    <3>2. QED
      BY <2>2, <3>1
  <2>5. Rec(f)
    <3>1. Rec(h)
      BY <2>4
    <3> HIDE DEF Rec
    <3>2. QED
      BY <3>1
  <2>6. TextBytes(t) = f[Len(t)]
    BY DEF TextBytes
  <2> HIDE DEF f
  <2>7. f = [n \in 0 .. Len(t) |-> f[n]] /\ f[0] = a
    BY <2>5 DEF a
  <2>8. ASSUME NEW n \in 1 .. Len(t), f[n - 1] \in A PROVE f[n] = st[t[n]][f[n - 1]]
    <3>1. n \in 0 .. Len(t) /\ n # 0
      OBVIOUS
    <3>2. f[n] = f[n - 1] + StringBytes(t[n])
      BY <2>5, <3>1
    <3> HIDE DEF Rec
    <3>3. t[n] \in E
      OBVIOUS
    <3>4. QED
      BY <1>2, <2>8, <3>2, <3>3
  <2>9. f \in Traversals(A, a, st, t)
    BY <1>1, <2>7, <2>8, TraversalIs
  <2>10. QED
    BY <2>6, <2>9 DEF IsTraversal
<1>4. TextBytes(<<>>) = a
  <2>1. <<>> \in Seq(E)
    OBVIOUS
  <2>2. QED
    BY <1>3, <2>1, TraversalOfEmpty
<1>5. TextBytes(s) \in A /\ TextBytes(Append(s, e)) = st[e][TextBytes(s)]
  <2>1. s \in Seq(E) /\ Append(s, e) \in Seq(E) /\ e \in E
    BY DEF E
  <2>2. IsTraversal(A, a, st, s, TextBytes(s)) /\ IsTraversal(A, a, st, Append(s, e), TextBytes(Append(s, e)))
    BY <1>3, <2>1
  <2>3. QED
    BY <2>1, <2>2, TraversalOfAppend
<1>6. QED
  BY <1>2, <1>4, <1>5 DEF A, E, a

LEMMA AudibleLength ==
    ASSUME NEW V, \A t \in V : t[3] \in Nat, NEW text \in Seq(Audible(V)), text # <<>>
    PROVE  TextLength(text) \in Nat \ {0}
<1> DEFINE S == Audible(V)
           front == SubSeq(text, 1, Len(text) - 1)
           last == text[Len(text)]
<1>1. \A d \in S : d[3] \in Nat /\ d[3] > 0
  BY DEF Audible
<1> HIDE DEF S
<1>2. text \in Seq(S) /\ text # <<>>
  BY DEF S
<1>3. Len(text) \in 1 .. Len(text)
  BY <1>2
<1>4. front \in Seq(S) /\ last \in S /\ text = Append(front, last)
  BY <1>2, <1>3
<1> HIDE DEF front, last
<1>5. TextLength(front) \in Nat /\ TextLength(Append(front, last)) = TextLength(front) + last[3]
  BY <1>1, <1>4, TextLengthFacts
<1>6. QED
  BY <1>1, <1>4, <1>5

(* The request for a segment, to either bridge: what the bridges and the worker ask
   about its identifiers holds but for the number of the segment. *)
OfOneShot(r) == DOMAIN r = {"text", "generationId", "jobId"}
OfPersistent(r) ==
    /\ DOMAIN r = {"text", "characterMode", "indexesAfter", "generationId", "jobId", "segmentNumber"}
    /\ \E X : \E l \in Seq(X) : r.indexesAfter = List(l)
    /\ \E k \in Nat \ {0} : r.segmentNumber = Num(k)
IsRequest(r) ==
    /\ \E V : (\A d \in V : d[3] \in Nat) /\ \E t \in Seq(V), n \in Nat \ {0} : r.text = Str(t, n)
    /\ \E id \in 1 .. MaxIdentifier : r.generationId = Num(id) /\ r.jobId = Num(id)
    /\ OfOneShot(r) \/ OfPersistent(r)

LEMMA RequestsAre ==
    ASSUME NEW V, \A d \in V : d[3] \in Nat, NEW X, NEW g, g.text \in Seq(V), g.indexesAfter \in Seq(X),
           NEW length \in Nat \ {0}, NEW id \in 1 .. MaxIdentifier, NEW k \in Nat \ {0}
    PROVE  /\ IsRequest(PersistentRequest(g, length, id, k))
           /\ IsRequest(OneShotRequest(g, length, id))
<1>1. OfPersistent(PersistentRequest(g, length, id, k))
  <2> DEFINE l == [i \in DOMAIN g.indexesAfter |-> Num(g.indexesAfter[i])]
             r == PersistentRequest(g, length, id, k)
  <2>1. l \in Seq({Num(x) : x \in X})
    OBVIOUS
  <2>2. r.indexesAfter = List(l) /\ r.segmentNumber = Num(k)
    BY DEF PersistentRequest
  <2>3. DOMAIN r = {"text", "characterMode", "indexesAfter", "generationId", "jobId", "segmentNumber"}
    BY DEF PersistentRequest
  <2> HIDE DEF l, r
  <2>4. QED
    BY <2>1, <2>2, <2>3 DEF OfPersistent, r
<1>2. OfOneShot(OneShotRequest(g, length, id))
  BY DEF OfOneShot, OneShotRequest
<1>3. /\ PersistentRequest(g, length, id, k).text = Str(g.text, length)
      /\ PersistentRequest(g, length, id, k).generationId = Num(id)
      /\ PersistentRequest(g, length, id, k).jobId = Num(id)
  BY DEF PersistentRequest
<1>4. /\ OneShotRequest(g, length, id).text = Str(g.text, length)
      /\ OneShotRequest(g, length, id).generationId = Num(id)
      /\ OneShotRequest(g, length, id).jobId = Num(id)
  BY DEF OneShotRequest
<1>5. QED
  BY <1>1, <1>2, <1>3, <1>4 DEF IsRequest

(* What of a request is beyond the worker. *)
Refused(r) ==
    \/ r.text[3] > WorkerLimits.text \/ RequestBytes(r) > WorkerLimits.request
    \/ \E k \in DOMAIN r.text[2] : r.text[2][k] = LoneSurrogate
    \/ \E k \in 1 .. IndexCount(r) : r.indexesAfter[2][k][2] \notin 0 .. WorkerLimits.id
    \/ IndexCount(r) > WorkerLimits.header
    \/ ~IsOneShot(r) /\ r.segmentNumber[2] > WorkerLimits.id

LEMMA RequestIsProper ==
    ASSUME NEW r, IsRequest(r), ~Refused(r)
    PROVE  IsText(r.text) /\ \A v \in Identifiers(r) : IsIdentifier(v)
<1>1. IsText(r.text)
  <2>1. PICK t, n : n \in Nat \ {0} /\ r.text = Str(t, n)
    BY DEF IsRequest
  <2>2. ~(n > WorkerLimits.text) /\ WorkerLimits.text \in Nat
    BY <2>1, WorkerLimitsAssumption DEF Refused, Str
  <2>3. QED
    BY <2>1, <2>2 DEF IsText, IsA, Str
<1>2. PICK id \in 1 .. MaxIdentifier : r.generationId = Num(id) /\ r.jobId = Num(id)
  BY DEF IsRequest
<1>3. IsIdentifier(Num(id))
  <2>1. id \in 1 .. WorkerLimits.id
    BY IdentifiersFit, IdentifierAssumption, WorkerLimitsAssumption
  <2>2. QED
    BY <2>1 DEF IsIdentifier, IsA, Num
<1>4. "segmentNumber" \in DOMAIN r => IsIdentifier(r.segmentNumber)
  <2>1. SUFFICES ASSUME "segmentNumber" \in DOMAIN r PROVE IsIdentifier(r.segmentNumber)
    OBVIOUS
  <2>2. PICK k \in Nat \ {0} : r.segmentNumber = Num(k)
    BY <2>1 DEF IsRequest, OfOneShot, OfPersistent
  <2>3. ~(k > WorkerLimits.id) /\ WorkerLimits.id \in Nat
    BY <2>1, <2>2, WorkerLimitsAssumption DEF Refused, IsOneShot, Num
  <2>4. QED
    BY <2>2, <2>3 DEF IsIdentifier, IsA, Num
<1>5. QED
  BY <1>1, <1>2, <1>3, <1>4 DEF Identifiers

LEMMA RequestBytesType ==
    ASSUME NEW r, IsRequest(r)
    PROVE  RequestBytes(r) \in Nat
<1>1. TextBytes(r.text[2]) \in Nat
  <2>1. PICK V : (\A d \in V : d[3] \in Nat) /\ \E t \in Seq(V), n \in Nat \ {0} : r.text = Str(t, n)
    BY DEF IsRequest
  <2>2. PICK t \in Seq(V) : r.text[2] = t
    BY <2>1 DEF Str
  <2>3. \A d \in {Word("a")} : d[3] \in Nat
    BY DEF Word, Str
  <2>4. CASE t = <<>>
    <3>1. <<>> \in Seq({Word("a")}) /\ Word("a") \in {Word("a")}
      OBVIOUS
    <3>2. TextBytes(<<>>) = 0
      BY <2>3, <3>1, TextBytesFacts
    <3>3. QED
      BY <2>2, <2>4, <3>2
  <2>5. CASE t # <<>>
    <3>1. t[1] \in V
      BY <2>5
    <3>2. QED
      BY <2>1, <2>2, <3>1, TextBytesFacts
  <2>6. QED
    BY <2>4, <2>5
<1>2. IndexCount(r) \in Nat
  <2>1. CASE "indexesAfter" \in DOMAIN r
    <3>1. PICK X : \E l \in Seq(X) : r.indexesAfter = List(l)
      BY <2>1 DEF IsRequest, OfOneShot, OfPersistent
    <3>2. PICK l \in Seq(X) : r.indexesAfter = List(l)
      BY <3>1
    <3>3. QED
      BY <2>1, <3>2 DEF IndexCount, List
  <2>2. CASE "indexesAfter" \notin DOMAIN r
    BY <2>2 DEF IndexCount
  <2>3. QED
    BY <2>1, <2>2
<1>3. QED
  BY <1>1, <1>2 DEF RequestBytes

(* A request that is not sent is beyond the worker. *)
LEMMA AskRefuses ==
    ASSUME NEW r, IsRequest(r), ~Refused(r)
    PROVE  Ask(r) = <<"ok", r>>
<1>1. IsText(r.text) /\ \A v \in Identifiers(r) : IsIdentifier(v)
  BY RequestIsProper
<1>2. /\ ~(RequestBytes(r) > WorkerLimits.request)
      /\ ~\E k \in DOMAIN r.text[2] : r.text[2][k] = LoneSurrogate
  BY DEF Refused
<1>3. QED
  BY <1>1, <1>2 DEF Ask

(* So is one that is not answered, unless its audio is. *)
LEMMA AnswerRefuses ==
    ASSUME NEW r, IsRequest(r), Ask(r)[1] = "ok", ~Refused(r), NEW S, NEW a \in Seq(S), NEW rate,
           a # <<>>, ~(2 * Len(a) > WorkerLimits.pcm)
    PROVE  Answer(r, a, rate) = <<"ok", <<"json", Dict(AnswerHeader(r, a, rate))>>>>
<1>1. Serves(r)
  <2>1. IsText(r.text) /\ \A v \in Identifiers(r) : IsIdentifier(v)
    BY RequestIsProper
  <2>2. RequestBytes(r) <= WorkerLimits.request
    BY RequestBytesType, WorkerLimitsAssumption DEF Refused
  <2>3. \A k \in 1 .. IndexCount(r) : r.indexesAfter[2][k][2] \in 0 .. WorkerLimits.id
    BY DEF Refused
  <2>4. QED
    BY <2>1, <2>2, <2>3 DEF Serves
<1>2. ~(IndexCount(r) > WorkerLimits.header)
  BY DEF Refused
<1>3. QED
  BY <1>1, <1>2, Zenon DEF Answer

LEMMA AnswerIs ==
    ASSUME NEW r, NEW a, NEW rate
    PROVE  \/ Answer(r, a, rate)[1] = "error"
           \/ Answer(r, a, rate) = <<"ok", <<"json", Dict(AnswerHeader(r, a, rate))>>>>
BY Zenon DEF Answer

LEMMA SameFacts ==
    /\ \A v : Same(v, v)
    /\ \A k : ~Same(None, Num(k))
    /\ \A l : ~Same(None, List(l))
<1>1. ASSUME NEW v PROVE Same(v, v)
  BY DEF Same
<1>2. AsNumber(None) = None
  BY DEF AsNumber, None, Bool, Float
<1>3. ASSUME NEW k PROVE ~Same(None, Num(k))
  <2>1. AsNumber(Num(k)) = Num(k)
    BY DEF AsNumber, Num, Bool, Float
  <2>2. None # Num(k) /\ ~IsA("list", None)
    BY DEF None, Num, IsA
  <2>3. QED
    BY <1>2, <2>1, <2>2 DEF Same
<1>4. ASSUME NEW l PROVE ~Same(None, List(l))
  <2>1. AsNumber(List(l)) = List(l)
    BY DEF AsNumber, List, Bool, Float
  <2>2. None # List(l) /\ ~IsA("list", None)
    BY DEF None, List, IsA
  <2>3. QED
    BY <1>2, <2>1, <2>2 DEF Same
<1>5. QED
  BY <1>1, <1>3, <1>4

(* A result that is taken for the answer to a request is one: its fields are the
   request's, it can be played, and no audio is missing unless less was announced. *)
LEMMA TakenIsAnAnswer ==
    ASSUME NEW r, IsRequest(r), NEW f, NEW S, NEW a \in Seq(S), Take(r, f, a)[1] = "ok"
    PROVE  /\ f[2][2].sampleRate[2] \in PlayableRates
           /\ \A n \in DOMAIN r \ {"text", "characterMode"} : Same(f[2][2][n], r[n])
           /\ Take(r, f, a)[2].pcm \in Seq(S)
           /\ Take(r, f, a)[2].pcm # a => f[2][2].pcmBytes[2] < 2 * Len(a)
<1> DEFINE h == f[2][2]
           p == Field(h, "pcmBytes")
<1>1. PICK id \in 1 .. MaxIdentifier : r.generationId = Num(id) /\ r.jobId = Num(id)
  BY DEF IsRequest
<1>2. Playable(h) => h.sampleRate[2] \in PlayableRates
  BY DEF Playable
<1>3. CASE OfOneShot(r)
  <2>1. IsOneShot(r)
    BY <1>3 DEF OfOneShot, IsOneShot
  <2>2. Take(r, f, a)[1] = "ok" => Take(r, f, a) = TakeOneShot(r, h, a)
    BY <2>1 DEF Take
  <2> HIDE DEF h
  <2>3. /\ h.generationId = r.generationId /\ h.jobId = r.jobId /\ Playable(h)
        /\ TakeOneShot(r, h, a) = PcmResult(r, h, a)
    BY <2>2 DEF TakeOneShot
  <2>4. Take(r, f, a)[2].pcm = a
    BY <2>2, <2>3 DEF PcmResult
  <2>5. \A n \in DOMAIN r \ {"text", "characterMode"} : n \in {"generationId", "jobId"}
    BY <1>3 DEF OfOneShot
  <2>6. QED
    BY <1>2, <2>3, <2>4, <2>5, SameFacts DEF h
<1>4. CASE OfPersistent(r)
  <2>1. ~IsOneShot(r)
    BY <1>4 DEF OfPersistent, IsOneShot
  <2>2. Take(r, f, a)[1] = "ok" => Take(r, f, a) = TakePersistent(r, h, a)
    BY <2>1 DEF Take
  <2> HIDE DEF h
  <2>3. /\ IsA("int", p) /\ p[2] \in 1 .. WorkerLimits.pcm /\ p[2] % 2 = 0
        /\ ~(p[2] > 2 * Len(a))
        /\ \A n \in {"generationId", "jobId", "segmentNumber"} : Same(Field(h, n), r[n])
        /\ Same(Field(h, "indexesAfter"), r.indexesAfter)
        /\ Playable(h)
        /\ TakePersistent(r, h, a) = PcmResult(r, h, SubSeq(a, 1, p[2] \div 2))
    BY <2>2 DEF TakePersistent
  <2>4. \A n \in {"generationId", "jobId", "segmentNumber"} : ~Same(None, r[n])
    BY <1>1, <1>4, SameFacts DEF OfPersistent
  <2>5. ~Same(None, r.indexesAfter)
    BY <1>4, SameFacts DEF OfPersistent
  <2>6. \A n \in {"generationId", "jobId", "segmentNumber", "indexesAfter"} : Same(h[n], r[n])
    BY <2>3, <2>4, <2>5 DEF Field
  <2>7. p = h.pcmBytes
    BY <2>3 DEF Field, IsA, None
  <2>8. Take(r, f, a)[2].pcm = SubSeq(a, 1, p[2] \div 2)
    BY <2>2, <2>3 DEF PcmResult
  <2>9. /\ p[2] \div 2 \in 0 .. Len(a)
        /\ p[2] \div 2 # Len(a) => p[2] < 2 * Len(a)
    BY <2>3, WorkerLimitsAssumption
  <2>10. /\ SubSeq(a, 1, p[2] \div 2) \in Seq(S)
         /\ p[2] \div 2 = Len(a) => SubSeq(a, 1, p[2] \div 2) = a
    BY <2>9
  <2>11. \A n \in DOMAIN r \ {"text", "characterMode"} :
            n \in {"generationId", "jobId", "segmentNumber", "indexesAfter"}
    BY <1>4 DEF OfPersistent
  <2> HIDE DEF p
  <2>12. QED
    BY <1>2, <2>3, <2>6, <2>7, <2>8, <2>9, <2>10, <2>11 DEF h
<1>5. QED
  BY <1>3, <1>4 DEF IsRequest

LEMMA Doubled ==
    ASSUME NEW n \in Nat, n > 0, NEW m \in Nat, ~(2 * n > m)
    PROVE  2 * n \in 1 .. m /\ (2 * n) % 2 = 0 /\ (2 * n) \div 2 = n /\ ~(2 * n > 2 * n)
OBVIOUS

(* The worker's own answer is taken, and its audio whole. *)
LEMMA AnswerIsTaken ==
    ASSUME NEW r, IsRequest(r), NEW S, NEW a \in Seq(S), NEW rate, rate \in PlayableRates,
           NEW f, f = <<"json", Dict(AnswerHeader(r, a, rate))>>,
           a # <<>>, ~(2 * Len(a) > WorkerLimits.pcm)
    PROVE  Take(r, f, a)[1] = "ok" /\ Take(r, f, a)[2].pcm = a
<1> DEFINE h == AnswerHeader(r, a, rate)
<1>1. Take(r, f, a) = IF IsOneShot(r) THEN TakeOneShot(r, h, a) ELSE TakePersistent(r, h, a)
  BY DEF Take, Dict, IsA
<1>2. PICK id \in 1 .. MaxIdentifier : r.generationId = Num(id) /\ r.jobId = Num(id)
  BY DEF IsRequest
<1>3. CASE OfOneShot(r)
  <2>1. IsOneShot(r)
    BY <1>3 DEF OfOneShot, IsOneShot
  <2>2. /\ DOMAIN h = {"channels", "generationId", "jobId", "sampleRate", "sampleWidth"}
        /\ h.channels = Num(1) /\ h.sampleWidth = Num(2) /\ h.sampleRate = Num(rate)
        /\ h.generationId = r.generationId /\ h.jobId = r.jobId
    BY <2>1 DEF AnswerHeader
  <2> HIDE DEF h
  <2>3. Playable(h)
    BY <2>2 DEF Playable, Field, Num, IsA
  <2>4. \A n \in DOMAIN h : IsA("int", h[n])
    BY <1>2, <2>2 DEF IsA, Num
  <2>5. TakeOneShot(r, h, a) = PcmResult(r, h, a)
    BY <2>2, <2>3, <2>4 DEF TakeOneShot
  <2>6. QED
    BY <1>1, <2>1, <2>5 DEF PcmResult, h
<1>4. CASE OfPersistent(r)
  <2>1. ~IsOneShot(r)
    BY <1>4 DEF OfPersistent, IsOneShot
  <2>2. /\ DOMAIN h = {"channels", "sampleWidth", "sampleRate", "generationId", "jobId", "pcmBytes",
                       "segmentNumber", "indexesAfter"}
        /\ h.channels = Num(1) /\ h.sampleWidth = Num(2) /\ h.sampleRate = Num(rate)
        /\ h.generationId = r.generationId /\ h.jobId = r.jobId
        /\ h.segmentNumber = r.segmentNumber /\ h.indexesAfter = r.indexesAfter
        /\ h.pcmBytes = Num(2 * Len(a))
    BY <2>1 DEF AnswerHeader
  <2> HIDE DEF h
  <2>3. Playable(h)
    BY <2>2 DEF Playable, Field, Num, IsA
  <2>4. /\ \A n \in {"generationId", "jobId", "segmentNumber"} : Same(Field(h, n), r[n])
        /\ Same(Field(h, "indexesAfter"), r.indexesAfter)
    BY <2>2, SameFacts DEF Field
  <2>5. Field(h, "pcmBytes") = Num(2 * Len(a))
    BY <2>2 DEF Field
  <2>6. /\ 2 * Len(a) \in 1 .. WorkerLimits.pcm /\ (2 * Len(a)) % 2 = 0 /\ (2 * Len(a)) \div 2 = Len(a)
        /\ ~(2 * Len(a) > 2 * Len(a)) /\ SubSeq(a, 1, Len(a)) = a
    <3> DEFINE n == Len(a)
               m == WorkerLimits.pcm
    <3>1. n \in Nat /\ n > 0 /\ m \in Nat /\ ~(2 * n > m)
      BY WorkerLimitsAssumption
    <3>2. SubSeq(a, 1, Len(a)) = a
      OBVIOUS
    <3> HIDE DEF n, m
    <3>3. 2 * n \in 1 .. m /\ (2 * n) % 2 = 0 /\ (2 * n) \div 2 = n /\ ~(2 * n > 2 * n)
      BY ONLY <3>1, Doubled
    <3>4. QED
      BY ONLY <3>2, <3>3 DEF n, m
  <2>7. IsA("int", Num(2 * Len(a))) /\ Num(2 * Len(a))[2] = 2 * Len(a)
    BY DEF IsA, Num
  <2>8. TakePersistent(r, h, a) = PcmResult(r, h, a)
    BY <2>3, <2>4, <2>5, <2>6, <2>7 DEF TakePersistent
  <2>9. QED
    BY <1>1, <2>1, <2>8 DEF PcmResult, h
<1>5. QED
  BY <1>3, <1>4 DEF IsRequest

-----------------------------------------------------------------------------
(* The audio path. *)

LEMMA SegmentsStepIsAJobsStep == [NextSegments]_vars => [NextJobs]_jobVars
<1> SUFFICES ASSUME [NextSegments]_vars PROVE [NextJobs]_jobVars
  OBVIOUS
<1>1. CASE SpeakSequence
  BY <1>1 DEF SpeakSequence, NextJobs
<1>2. CASE Forget
  BY <1>2 DEF Forget, NextJobs
<1>3. CASE SendSegment \/ ReceiveAudio \/ CacheAudio \/ Garble \/ Exchange \/ UNCHANGED vars
  BY <1>3 DEF SendSegment, ReceiveAudio, CacheAudio, Garble, Exchange, vars
<1>4. QED
  BY <1>1, <1>2, <1>3 DEF NextSegments

(* What happens to the segments of a request is of no consequence to how sequences
   are converted: what holds of the conversion alone holds here. *)
THEOREM AudioPathConverts == SpecSegments => SpecJobs
<1>1. Init => InitJobs
  BY DEF Init
<1>2. QED
  BY <1>1, SegmentsStepIsAJobsStep, PTL DEF SpecSegments, SpecJobs

(* The job of a request that is submitted has an identifier in range. *)
JobIsNumbered == outcome = "submitted" => job.generationId[2] \in 1 .. MaxIdentifier

LEMMA JobIsNumberedStep == Numbered /\ JobIsNumbered /\ [NextJobs]_jobVars => JobIsNumbered'
<1> SUFFICES ASSUME Numbered, JobIsNumbered, [NextJobs]_jobVars PROVE JobIsNumbered'
  OBVIOUS
<1>1. CASE UNCHANGED jobVars
  BY <1>1 DEF jobVars, JobIsNumbered
<1>2. CASE ForgetSpeech
  BY <1>2 DEF ForgetSpeech, JobIsNumbered
<1>3. ASSUME NEW s, RejectConversion(s) \/ RaiseExhausted(s) \/ RejectSegments(s) PROVE JobIsNumbered'
  BY <1>3 DEF RejectConversion, RaiseExhausted, RejectSegments, JobIsNumbered
<1>4. ASSUME NEW s, SubmitSpeech(s) PROVE JobIsNumbered'
  <2>1. nextId \in 1 .. MaxIdentifier /\ job' = NewJob(s)
    BY <1>4, IdentifierAssumption DEF SubmitSpeech, Converts, Exhausted, Numbered
  <2>2. job'.generationId = Num(nextId)
    BY <2>1 DEF NewJob
  <2>3. QED
    BY <2>1, <2>2 DEF JobIsNumbered, Num
<1>5. QED
  BY <1>1, <1>2, <1>3, <1>4 DEF NextJobs, Speak

(* What the bridge has of a request and its answer at each stage. *)
Asked ==
    /\ IsRequest(message)
    /\ audio \in Seq({"quiet", "loud"})
    /\ ~damaged => \E rate : frame = Answer(message, audio, rate) /\ frame[1] = "ok"
Unsent == ~damaged /\ frame = Nothing /\ Ask(message)[1] # "ok" /\ received = Ask(message)
Unanswered ==
    /\ ~damaged /\ received = <<"error", "workerCrash">>
    /\ audio \in Seq({"quiet", "loud"}) /\ Ask(message)[1] = "ok"
    /\ \E rate : frame = Answer(message, audio, rate) /\ frame[1] = "error"
Transferring ==
    /\ stage = "answering" => Asked
    /\ stage = "heard" => /\ IsRequest(message)
                          /\ Unsent \/ Unanswered \/ (Asked /\ received = Take(message, frame[2], audio))
    /\ stage = "cached" => \E pcm \in Seq({"quiet", "loud"}) : received[2].pcm = pcm /\ audio = Trim(pcm)

(* A segment with text becomes a request. *)
LEMMA SegmentsAreRequests ==
    ASSUME Answered, JobIsNumbered, outcome = "submitted",
           NEW k \in DOMAIN segments, segments[k].text # <<>>, NEW r \in SegmentRequest(k)
    PROVE  IsRequest(r)
<1> DEFINE V == Strings(speech)
           g == segments[k]
           length == TextLength(g.text)
           id == job.generationId[2]
<1>1. /\ speech \in Seq(ToSet(speech)) /\ \A i \in DOMAIN speech : WellFormed(speech[i])
      /\ \A i \in DOMAIN speech : speech[i].class = "str" => speech[i].text[3] \in Nat
      /\ segments = BuildSegments(Items(speech))
  BY SpeechAssumption DEF Answered, IsScalar, IsA, None
<1>2. PICK X, M : segments \in Seq(SegmentOf(V, X, M))
  BY <1>1, BuiltSegmentsSay
<1>3. \A t \in V : t[3] \in Nat
  BY <1>1 DEF Strings, ToSet
<1>4. k \in Nat \ {0} /\ g \in SegmentOf(V, X, M)
  BY <1>2
<1>5. g.text \in Seq(Audible(V)) /\ g.indexesAfter \in Seq(X) /\ \A d \in Audible(V) : d[3] \in Nat
  BY <1>3, <1>4 DEF SegmentOf, Audible
<1> HIDE DEF V
<1>6. length \in Nat \ {0}
  BY <1>3, <1>5, AudibleLength
<1>7. id \in 1 .. MaxIdentifier
  BY DEF JobIsNumbered
<1>8. r \in {PersistentRequest(g, length, id, k), OneShotRequest(g, length, id)}
  BY DEF SegmentRequest
<1> HIDE DEF g, length, id
<1>9. QED
  BY <1>4, <1>5, <1>6, <1>7, <1>8, RequestsAre

LEMMA SendSegmentStep ==
    ASSUME Answered, JobIsNumbered, ~damaged, SendSegment PROVE Transferring'
<1>1. IsRequest(message')
  <2>1. PICK k \in DOMAIN segments : segments[k].text # <<>> /\ message' \in SegmentRequest(k)
    BY DEF SendSegment
  <2>2. QED
    BY <2>1, SegmentsAreRequests DEF SendSegment
<1>2. ~damaged'
  BY DEF SendSegment
<1>3. CASE Ask(message')[1] = "ok"
  <2>1. PICK rate : frame' = Answer(message', audio', rate)
    BY <1>3 DEF SendSegment
  <2>2. audio' \in Seq({"quiet", "loud"})
    <3>1. audio' \in Recordings \union {<<"loud">>}
      BY <1>3 DEF SendSegment
    <3>2. <<"loud">> \in Seq({"quiet", "loud"})
      OBVIOUS
    <3>3. QED
      BY <3>1, <3>2, RecordingsAssumption
  <2>3. frame' # Nothing
    <3>1. frame'[1] \in {"error", "ok"}
      BY <2>1, AnswerIs
    <3>2. QED
      BY <3>1 DEF Nothing
  <2>4. CASE frame'[1] = "ok" /\ stage' = "answering"
    BY <1>1, <1>2, <2>1, <2>2, <2>4 DEF Transferring, Asked
  <2>5. CASE frame'[1] = "error" /\ stage' = "heard" /\ received' = <<"error", "workerCrash">>
    <3>1. Unanswered'
      BY <1>2, <1>3, <2>1, <2>2, <2>5 DEF Unanswered
    <3>2. QED
      BY <1>1, <2>5, <3>1 DEF Transferring
  <2>6. QED
    BY <2>3, <2>4, <2>5 DEF SendSegment
<1>4. CASE Ask(message')[1] # "ok"
  <2>1. frame' = Nothing
    BY <1>4 DEF SendSegment
  <2>2. stage' = "heard" /\ received' = Ask(message')
    BY <2>1 DEF SendSegment, Nothing
  <2>3. Unsent'
    BY <1>2, <1>4, <2>1, <2>2 DEF Unsent
  <2>4. QED
    BY <1>1, <2>2, <2>3 DEF Transferring
<1>5. QED
  BY <1>3, <1>4

(* Nothing is damaged before it is sent. *)
Fresh == stage \in {"idle", "spoken"} => ~damaged

LEMMA TransferStep ==
    Answered /\ JobIsNumbered /\ Fresh /\ Transferring /\ [NextSegments]_vars => Fresh' /\ Transferring'
<1> SUFFICES ASSUME Answered, JobIsNumbered, Fresh, Transferring, [NextSegments]_vars
             PROVE  Fresh' /\ Transferring'
  OBVIOUS
<1>1. CASE UNCHANGED vars
  BY <1>1 DEF vars, transferVars, Fresh, Transferring, Asked, Unsent, Unanswered
<1>2. CASE SpeakSequence
  BY <1>2 DEF SpeakSequence, Fresh, Transferring
<1>3. CASE Forget
  BY <1>3 DEF Forget, Fresh, Transferring
<1>4. CASE SendSegment
  <2>1. ~damaged
    BY <1>4 DEF SendSegment, Fresh
  <2>2. Fresh'
    BY <1>4, <2>1 DEF SendSegment, Fresh
  <2>3. QED
    BY <1>4, <2>1, <2>2, SendSegmentStep
<1>5. CASE ReceiveAudio
  <2>1. Asked'
    BY <1>5 DEF ReceiveAudio, Transferring, Asked
  <2>2. received' = Take(message', frame'[2], audio') /\ stage' = "heard"
    BY <1>5 DEF ReceiveAudio
  <2>3. QED
    BY <2>1, <2>2 DEF Fresh, Transferring, Asked
<1>6. CASE CacheAudio
  <2>1. /\ stage = "heard" /\ received[1] = "ok" /\ stage' = "cached"
        /\ audio' = Trim(received[2].pcm) /\ received' = received
    BY <1>6 DEF CacheAudio
  <2>2. Asked /\ received = Take(message, frame[2], audio)
    BY <2>1 DEF Transferring, Unsent, Unanswered
  <2>3. received[2].pcm \in Seq({"quiet", "loud"})
    BY <2>1, <2>2, TakenIsAnAnswer DEF Asked
  <2>4. QED
    BY <2>1, <2>3 DEF Fresh, Transferring
<1>7. CASE Garble
  <2>1. stage \in {"receiving", "answering"} /\ damaged' /\ UNCHANGED <<stage, message, audio>>
    BY <1>7 DEF Garble
  <2>2. QED
    BY <2>1 DEF Fresh, Transferring, Asked
<1>8. CASE Exchange
  BY <1>8 DEF Exchange, Fresh, Transferring
<1>9. QED
  BY <1>1, <1>2, <1>3, <1>4, <1>5, <1>6, <1>7, <1>8 DEF NextSegments

LEMMA AlwaysTransferring == SpecSegments => [](Fresh /\ Transferring)
<1>1. Init => Answered /\ Numbered /\ JobIsNumbered /\ Fresh /\ Transferring
  BY NumberedInit DEF Init, InitJobs, Answered, JobIsNumbered, Fresh, Transferring
<1>2. QED
  BY <1>1, SegmentsStepIsAJobsStep, AnsweredStep, NumberedStep, JobIsNumberedStep, TransferStep, PTL
     DEF SpecSegments

LEMMA HeardWhole ==
    ASSUME IsRequest(message), ~damaged, ~BeyondTheWorker,
           Unsent \/ Unanswered \/ (Asked /\ received = Take(message, frame[2], audio))
    PROVE  received[1] = "ok" /\ received[2].pcm = audio
<1>1. /\ ~Refused(message)
      /\ frame = Nothing \/ (audio # <<>> /\ ~(2 * Len(audio) > WorkerLimits.pcm))
      /\ frame[1] = "ok" => frame[2][2][2].sampleRate[2] \in PlayableRates
  BY DEF BeyondTheWorker, Refused
<1>2. Ask(message)[1] = "ok"
  BY <1>1, AskRefuses
<1>3. ASSUME frame[1] \in {"ok", "error"} PROVE audio # <<>> /\ ~(2 * Len(audio) > WorkerLimits.pcm)
  BY <1>1, <1>3 DEF Nothing
<1>4. CASE Unanswered
  <2>1. PICK rate : frame = Answer(message, audio, rate) /\ frame[1] = "error"
    BY <1>4 DEF Unanswered
  <2>2. audio # <<>> /\ ~(2 * Len(audio) > WorkerLimits.pcm) /\ audio \in Seq({"quiet", "loud"})
    BY <1>3, <1>4, <2>1 DEF Unanswered
  <2>3. frame = <<"ok", <<"json", Dict(AnswerHeader(message, audio, rate))>>>>
    BY <1>1, <1>2, <2>1, <2>2, AnswerRefuses
  <2>4. QED
    BY <2>1, <2>3
<1>5. CASE Asked /\ received = Take(message, frame[2], audio)
  <2>1. PICK rate : frame = Answer(message, audio, rate) /\ frame[1] = "ok"
    BY <1>5 DEF Asked
  <2>2. audio # <<>> /\ ~(2 * Len(audio) > WorkerLimits.pcm) /\ audio \in Seq({"quiet", "loud"})
    BY <1>3, <1>5, <2>1 DEF Asked
  <2>3. frame[2] = <<"json", Dict(AnswerHeader(message, audio, rate))>>
    BY <2>1, AnswerIs
  <2>4. rate \in PlayableRates
    <3>1. frame[2][2][2] = AnswerHeader(message, audio, rate)
      BY <2>3 DEF Dict
    <3>2. AnswerHeader(message, audio, rate).sampleRate = Num(rate)
      BY DEF AnswerHeader
    <3>3. QED
      BY <1>1, <2>1, <3>1, <3>2 DEF Num
  <2>5. QED
    BY <1>5, <2>2, <2>3, <2>4, AnswerIsTaken
<1>6. QED
  BY <1>2, <1>4, <1>5 DEF Unsent

(* But for what is beyond the worker, the audio of a segment arrives whole from
   either worker; an answer that was damaged, in whatever way, or is another's is
   refused, unless its audio is announced shorter than it is. *)
THEOREM SegmentAudioIsHeard == SpecSegments => []SegmentsAreHeard
<1>1. Transferring => SegmentsAreHeard
  <2> SUFFICES ASSUME Transferring, stage = "heard"
               PROVE  /\ ~damaged => BeyondTheWorker \/ (received[1] = "ok" /\ received[2].pcm = audio)
                      /\ received[1] = "ok" =>
                           LET header == frame[2][2][2]
                           IN /\ header.sampleRate[2] \in PlayableRates
                              /\ \A n \in DOMAIN message \ {"text", "characterMode"} :
                                        Same(header[n], message[n])
                              /\ received[2].pcm # audio => header.pcmBytes[2] < 2 * Len(audio)
    BY DEF SegmentsAreHeard
  <2>1. IsRequest(message) /\ (Unsent \/ Unanswered \/ (Asked /\ received = Take(message, frame[2], audio)))
    BY DEF Transferring
  <2>2. ~damaged => BeyondTheWorker \/ (received[1] = "ok" /\ received[2].pcm = audio)
    BY <2>1, HeardWhole
  <2>3. ASSUME received[1] = "ok" PROVE Asked /\ received = Take(message, frame[2], audio)
    BY <2>1, <2>3 DEF Unsent, Unanswered
  <2>4. ASSUME received[1] = "ok"
        PROVE  /\ frame[2][2][2].sampleRate[2] \in PlayableRates
               /\ \A n \in DOMAIN message \ {"text", "characterMode"} :
                         Same(frame[2][2][2][n], message[n])
               /\ received[2].pcm # audio => frame[2][2][2].pcmBytes[2] < 2 * Len(audio)
    <3>1. /\ audio \in Seq({"quiet", "loud"}) /\ received = Take(message, frame[2], audio)
          /\ Take(message, frame[2], audio)[1] = "ok"
      BY <2>3, <2>4 DEF Asked
    <3>2. QED
      BY <2>1, <3>1, TakenIsAnAnswer
  <2>5. QED
    BY <2>2, <2>4
<1>2. QED
  BY <1>1, AlwaysTransferring, PTL

(* Trimming takes nothing of a sound that is sustained, whatever the audio. *)
THEOREM SustainedSoundsStay == SpecSegments => []SustainedSpeechIsKept
<1>1. Transferring => SustainedSpeechIsKept
  <2> SUFFICES ASSUME Transferring, stage = "cached", Sounds(received[2].pcm) # {}
               PROVE  \E from \in 0 .. Min(Sounds(received[2].pcm)) :
                        \E to \in Max(Sounds(received[2].pcm)) + sustainedFrames .. Len(received[2].pcm) :
                           audio = SubSeq(received[2].pcm, from + 1, to)
    BY DEF SustainedSpeechIsKept
  <2>1. PICK pcm \in Seq({"quiet", "loud"}) : received[2].pcm = pcm /\ audio = Trim(pcm)
    BY DEF Transferring
  <2>2. QED
    BY <2>1, TrimKeepsSounds
<1>2. QED
  BY <1>1, AlwaysTransferring, PTL

-----------------------------------------------------------------------------
(* The checks of the codec. *)

(* What fails first is one of the checks that fail; nothing fails if all are passed. *)
LEMMA FirstFailureIs ==
    ASSUME NEW n \in Nat, NEW s, DOMAIN s = 1 .. n
    PROVE  /\ FirstFailure(s) = "ok" <=> \A k \in 1 .. n : s[k] = "ok"
           /\ FirstFailure(s) # "ok" => \E k \in 1 .. n : s[k] # "ok" /\ FirstFailure(s) = s[k]
<1>1. CASE \A k \in 1 .. n : s[k] = "ok"
  BY <1>1 DEF FirstFailure
<1>2. CASE \E k \in 1 .. n : s[k] # "ok"
  <2> DEFINE T == {k \in 1 .. n : s[k] # "ok"}
             First(k) == s[k] # "ok" /\ \A j \in 1 .. k - 1 : s[j] = "ok"
  <2>0. T \subseteq Nat /\ T # {}
    BY <1>2
  <2> HIDE DEF T
  <2>1. PICK k \in T : \A j \in T : k <= j
    BY ONLY <2>0, Least
  <2>2. First(k)
    BY <2>1 DEF T
  <2>3. \E j \in DOMAIN s : First(j)
    BY <2>1, <2>2 DEF T
  <2> DEFINE c == CHOOSE j \in DOMAIN s : First(j)
  <2>4. c \in DOMAIN s /\ First(c)
    BY <2>3
  <2>5. FirstFailure(s) = s[c]
    BY <1>2 DEF FirstFailure
  <2> HIDE DEF c
  <2>6. QED
    BY <1>2, <2>4, <2>5
<1>3. QED
  BY <1>1, <1>2

LEMMA FirstOfTwo ==
    ASSUME NEW a, NEW b
    PROVE  /\ FirstFailure(<<a, b>>) = "ok" <=> a = "ok" /\ b = "ok"
           /\ FirstFailure(<<a, b>>) \in {"ok", a, b}
<1> DEFINE s == <<a, b>>
<1>1. DOMAIN s = 1 .. 2 /\ s[1] = a /\ s[2] = b
  OBVIOUS
<1> HIDE DEF s
<1>2. /\ FirstFailure(s) = "ok" <=> \A k \in 1 .. 2 : s[k] = "ok"
      /\ FirstFailure(s) # "ok" => \E k \in 1 .. 2 : s[k] # "ok" /\ FirstFailure(s) = s[k]
  BY ONLY <1>1, FirstFailureIs
<1>3. (\A k \in 1 .. 2 : s[k] = "ok") <=> a = "ok" /\ b = "ok"
  BY <1>1
<1>4. \A k \in 1 .. 2 : s[k] \in {"ok", a, b}
  BY <1>1
<1>5. FirstFailure(s) = "ok" <=> a = "ok" /\ b = "ok"
  BY ONLY <1>2, <1>3
<1>6. FirstFailure(s) \in {"ok", a, b}
  BY ONLY <1>2, <1>4
<1>7. QED
  BY ONLY <1>5, <1>6 DEF s

LEMMA FirstOfThree ==
    ASSUME NEW a, NEW b, NEW c
    PROVE  /\ FirstFailure(<<a, b, c>>) = "ok" <=> a = "ok" /\ b = "ok" /\ c = "ok"
           /\ FirstFailure(<<a, b, c>>) \in {"ok", a, b, c}
<1> DEFINE s == <<a, b, c>>
<1>1. DOMAIN s = 1 .. 3 /\ s[1] = a /\ s[2] = b /\ s[3] = c
  OBVIOUS
<1> HIDE DEF s
<1>2. /\ FirstFailure(s) = "ok" <=> \A k \in 1 .. 3 : s[k] = "ok"
      /\ FirstFailure(s) # "ok" => \E k \in 1 .. 3 : s[k] # "ok" /\ FirstFailure(s) = s[k]
  BY ONLY <1>1, FirstFailureIs
<1>3. (\A k \in 1 .. 3 : s[k] = "ok") <=> a = "ok" /\ b = "ok" /\ c = "ok"
  BY <1>1
<1>4. \A k \in 1 .. 3 : s[k] \in {"ok", a, b, c}
  BY <1>1
<1>5. FirstFailure(s) = "ok" <=> a = "ok" /\ b = "ok" /\ c = "ok"
  BY ONLY <1>2, <1>3
<1>6. FirstFailure(s) \in {"ok", a, b, c}
  BY ONLY <1>2, <1>4
<1>7. QED
  BY ONLY <1>5, <1>6 DEF s

LEMMA FirstOfFour ==
    ASSUME NEW a, NEW b, NEW c, NEW d
    PROVE  /\ FirstFailure(<<a, b, c, d>>) = "ok" <=> a = "ok" /\ b = "ok" /\ c = "ok" /\ d = "ok"
           /\ FirstFailure(<<a, b, c, d>>) \in {"ok", a, b, c, d}
<1> DEFINE s == <<a, b, c, d>>
<1>1. DOMAIN s = 1 .. 4 /\ s[1] = a /\ s[2] = b /\ s[3] = c /\ s[4] = d
  OBVIOUS
<1> HIDE DEF s
<1>2. /\ FirstFailure(s) = "ok" <=> \A k \in 1 .. 4 : s[k] = "ok"
      /\ FirstFailure(s) # "ok" => \E k \in 1 .. 4 : s[k] # "ok" /\ FirstFailure(s) = s[k]
  BY ONLY <1>1, FirstFailureIs
<1>3. (\A k \in 1 .. 4 : s[k] = "ok") <=> a = "ok" /\ b = "ok" /\ c = "ok" /\ d = "ok"
  BY <1>1
<1>4. \A k \in 1 .. 4 : s[k] \in {"ok", a, b, c, d}
  BY <1>1
<1>5. FirstFailure(s) = "ok" <=> a = "ok" /\ b = "ok" /\ c = "ok" /\ d = "ok"
  BY ONLY <1>2, <1>3
<1>6. FirstFailure(s) \in {"ok", a, b, c, d}
  BY ONLY <1>2, <1>4
<1>7. QED
  BY ONLY <1>5, <1>6 DEF s

LEMMA FirstOfSix ==
    ASSUME NEW a, NEW b, NEW c, NEW d, NEW e, NEW f
    PROVE  /\ FirstFailure(<<a, b, c, d, e, f>>) = "ok"
                <=> a = "ok" /\ b = "ok" /\ c = "ok" /\ d = "ok" /\ e = "ok" /\ f = "ok"
           /\ FirstFailure(<<a, b, c, d, e, f>>) \in {"ok", a, b, c, d, e, f}
<1> DEFINE s == <<a, b, c, d, e, f>>
<1>1. DOMAIN s = 1 .. 6 /\ s[1] = a /\ s[2] = b /\ s[3] = c /\ s[4] = d /\ s[5] = e /\ s[6] = f
  OBVIOUS
<1> HIDE DEF s
<1>2. /\ FirstFailure(s) = "ok" <=> \A k \in 1 .. 6 : s[k] = "ok"
      /\ FirstFailure(s) # "ok" => \E k \in 1 .. 6 : s[k] # "ok" /\ FirstFailure(s) = s[k]
  BY ONLY <1>1, FirstFailureIs
<1>3. (\A k \in 1 .. 6 : s[k] = "ok") <=> a = "ok" /\ b = "ok" /\ c = "ok" /\ d = "ok" /\ e = "ok" /\ f = "ok"
  BY <1>1
<1>4. \A k \in 1 .. 6 : s[k] \in {"ok", a, b, c, d, e, f}
  BY <1>1
<1>5. FirstFailure(s) = "ok" <=> a = "ok" /\ b = "ok" /\ c = "ok" /\ d = "ok" /\ e = "ok" /\ f = "ok"
  BY ONLY <1>2, <1>3
<1>6. FirstFailure(s) \in {"ok", a, b, c, d, e, f}
  BY ONLY <1>2, <1>4
<1>7. QED
  BY ONLY <1>5, <1>6 DEF s

-----------------------------------------------------------------------------
(* The layers of a document. *)

Below(L) == UNION {Children(c) : c \in L}
IsLayers(v, n, f) ==
    /\ f = [k \in 0 .. n |-> f[k]] /\ f[0] = {v}
    /\ \A k \in 1 .. n : f[k] = Below(f[k - 1])

LEMMA LayersExist ==
    ASSUME NEW v, NEW N \in Nat PROVE \E f : IsLayers(v, N, f)
<1> DEFINE S == {n \in 0 .. N : \E f : IsLayers(v, n, f)}
<1>1. 0 \in S
  <2>1. IsLayers(v, 0, [k \in 0 .. 0 |-> {v}])
    BY DEF IsLayers
  <2>2. QED
    BY <2>1
<1>2. ASSUME NEW n \in 1 .. N, n - 1 \in S PROVE n \in S
  <2>1. PICK f : IsLayers(v, n - 1, f)
    BY <1>2
  <2> DEFINE h == [k \in 0 .. n |-> IF k = n THEN Below(f[n - 1]) ELSE f[k]]
  <2>2. f[0] = {v} /\ \A k \in 1 .. n - 1 : f[k] = Below(f[k - 1])
    BY <2>1 DEF IsLayers
  <2>3. h = [k \in 0 .. n |-> h[k]] /\ h[n] = Below(f[n - 1]) /\ \A k \in 0 .. n - 1 : h[k] = f[k]
    OBVIOUS
  <2> HIDE DEF h
  <2>4. h[0] = {v}
    <3>1. 0 \in 0 .. n - 1
      OBVIOUS
    <3>2. QED
      BY <2>2, <2>3, <3>1
  <2>5. ASSUME NEW k \in 1 .. n PROVE h[k] = Below(h[k - 1])
    <3>1. k - 1 \in 0 .. n - 1 /\ (k = n \/ (k \in 1 .. n - 1 /\ k \in 0 .. n - 1))
      OBVIOUS
    <3>2. QED
      BY <2>2, <2>3, <3>1
  <2>6. IsLayers(v, n, h)
    BY <2>3, <2>4, <2>5 DEF IsLayers
  <2>7. QED
    BY <2>6
<1> HIDE DEF S
<1>3. \A n \in 0 .. N : n \in S
  BY <1>1, <1>2, UpTo
<1>4. QED
  BY <1>3 DEF S

LEMMA LayersAgree ==
    ASSUME NEW v, NEW M \in Nat, NEW N \in Nat, N <= M,
           NEW f, NEW g, IsLayers(v, M, f), IsLayers(v, N, g)
    PROVE  \A n \in 0 .. N : f[n] = g[n]
<1> DEFINE S == {n \in 0 .. N : f[n] = g[n]}
<1>0. \A n \in 1 .. N : n \in 1 .. M
  OBVIOUS
<1>1. /\ f[0] = {v} /\ g[0] = {v}
      /\ \A n \in 1 .. N : f[n] = Below(f[n - 1]) /\ g[n] = Below(g[n - 1])
  BY <1>0 DEF IsLayers
<1>2. 0 \in S
  BY <1>1
<1>3. ASSUME NEW n \in 1 .. N, n - 1 \in S PROVE n \in S
  BY <1>1, <1>3
<1> HIDE DEF S
<1>4. \A n \in 0 .. N : n \in S
  BY <1>2, <1>3, UpTo
<1>5. QED
  BY <1>4 DEF S

LEMMA LayerIs ==
    ASSUME NEW v, NEW n \in Nat, NEW f, IsLayers(v, n, f)
    PROVE  Layer(v, n) = f[n]
<1> DEFINE Rec(g) == g = [k \in 0 .. n |-> IF k = 0 THEN {v} ELSE UNION {Children(c) : c \in g[k - 1]}]
           g == CHOOSE h : Rec(h)
<1>1. Rec(f)
  <2>1. ASSUME NEW k \in 0 .. n
        PROVE  f[k] = IF k = 0 THEN {v} ELSE UNION {Children(c) : c \in f[k - 1]}
    <3>1. k = 0 \/ k \in 1 .. n
      OBVIOUS
    <3>2. QED
      BY <3>1 DEF IsLayers, Below
  <2>2. f = [k \in 0 .. n |-> f[k]]
    BY DEF IsLayers
  <2>3. QED
    BY <2>1, <2>2
<1>2. Rec(g)
  <2> HIDE DEF Rec
  <2>1. QED
    BY <1>1
<1>3. Layer(v, n) = g[n]
  BY DEF Layer
<1> HIDE DEF g
<1>4. IsLayers(v, n, g)
  <2>1. g = [k \in 0 .. n |-> g[k]] /\ g[0] = {v}
    BY <1>2
  <2>2. ASSUME NEW k \in 1 .. n PROVE g[k] = Below(g[k - 1])
    <3>1. k \in 0 .. n /\ k # 0
      OBVIOUS
    <3>2. QED
      BY <1>2, <3>1 DEF Below
  <2>3. QED
    BY <2>1, <2>2 DEF IsLayers
<1> HIDE DEF Rec
<1>5. \A k \in 0 .. n : f[k] = g[k]
  BY ONLY <1>4, IsLayers(v, n, f), n \in Nat, LayersAgree
<1>6. QED
  BY <1>3, <1>5

(* What the recursion says of a layer. *)
LEMMA LayerFacts ==
    ASSUME NEW v
    PROVE  Layer(v, 0) = {v} /\ \A n \in Nat : Layer(v, n + 1) = Below(Layer(v, n))
<1>1. Layer(v, 0) = {v}
  <2>1. PICK f : IsLayers(v, 0, f)
    BY LayersExist
  <2>2. Layer(v, 0) = f[0]
    BY <2>1, LayerIs
  <2>3. QED
    BY <2>1, <2>2 DEF IsLayers
<1>2. ASSUME NEW n \in Nat PROVE Layer(v, n + 1) = Below(Layer(v, n))
  <2>1. PICK f : IsLayers(v, n + 1, f)
    BY LayersExist
  <2>2. PICK g : IsLayers(v, n, g)
    BY LayersExist
  <2>3. Layer(v, n + 1) = f[n + 1] /\ Layer(v, n) = g[n]
    BY <2>1, <2>2, LayerIs
  <2>4. n + 1 \in Nat /\ n <= n + 1 /\ n \in 0 .. n /\ n + 1 \in 1 .. n + 1 /\ n + 1 - 1 = n
    OBVIOUS
  <2>5. f[n] = g[n]
    BY <2>1, <2>2, <2>4, LayersAgree
  <2>6. f[n + 1] = Below(f[n])
    <3>1. \A k \in 1 .. n + 1 : f[k] = Below(f[k - 1])
      BY <2>1 DEF IsLayers
    <3>2. QED
      BY ONLY <2>4, <3>1
  <2>7. QED
    BY <2>3, <2>5, <2>6
<1>3. QED
  BY <1>1, <1>2

-----------------------------------------------------------------------------
(* Schemas. *)

IsSchema(s) == Len(s) \in Nat /\ DOMAIN s = 1 .. Len(s)

(* The checks of a schema's fields, and which of them fails. *)
LEMMA FieldsFacts ==
    ASSUME NEW s, IsSchema(s), NEW f
    PROVE  /\ RequireFields(f, s) = "ok" <=>
                \A k \in 1 .. Len(s) : RequireField(s[k][2], f[s[k][1]]) = "ok"
           /\ RequireFields(f, s) # "ok" =>
                \E k \in 1 .. Len(s) : /\ RequireField(s[k][2], f[s[k][1]]) # "ok"
                                       /\ RequireFields(f, s) = RequireField(s[k][2], f[s[k][1]])
<1> DEFINE N == Len(s)
           c == [k \in 1 .. N |-> RequireField(s[k][2], f[s[k][1]])]
<1>1. N \in Nat /\ DOMAIN c = 1 .. N /\ RequireFields(f, s) = FirstFailure(c)
  BY DEF IsSchema, RequireFields
<1>2. \A k \in 1 .. N : c[k] = RequireField(s[k][2], f[s[k][1]])
  OBVIOUS
<1> HIDE DEF N, c
<1>3. /\ FirstFailure(c) = "ok" <=> \A k \in 1 .. N : c[k] = "ok"
      /\ FirstFailure(c) # "ok" => \E k \in 1 .. N : c[k] # "ok" /\ FirstFailure(c) = c[k]
  BY ONLY <1>1, FirstFailureIs
<1>4. QED
  BY <1>1, <1>2, <1>3 DEF N

(* They look at nothing else. *)
LEMMA FieldsOnly ==
    ASSUME NEW s, NEW f, NEW g, \A k \in 1 .. Len(s) : f[s[k][1]] = g[s[k][1]]
    PROVE  RequireFields(f, s) = RequireFields(g, s)
BY DEF RequireFields

(* The schemas of the items. *)
LEMMA ItemSchemas ==
    /\ DOMAIN ItemSchema = {"text", "index", "characterMode", "language", "break", "phoneme",
                            "rate", "pitch", "volume"}
    /\ ItemSchema["text"] = <<<<"text", "text">>>>
    /\ ItemSchema["index"] = <<<<"index", "signed">>>>
    /\ ItemSchema["characterMode"] = <<<<"state", "boolean">>>>
    /\ ItemSchema["language"] = <<<<"language", "language">>>>
    /\ ItemSchema["break"] = <<<<"durationMs", "natural">>>>
    /\ ItemSchema["phoneme"] = <<<<"ipa", "ipa">>, <<"fallbackText", "fallback">>>>
    /\ \A t \in {"rate", "pitch", "volume"} : ItemSchema[t] = ProsodySchema
BY DEF ItemSchema

LEMMA OneField ==
    ASSUME NEW s, NEW n, NEW d, s = <<<<n, d>>>>
    PROVE  IsSchema(s) /\ Len(s) = 1 /\ s[1][1] = n /\ s[1][2] = d /\ Names(s) = {n}
<1>1. Len(s) = 1 /\ DOMAIN s = 1 .. 1 /\ s[1][1] = n /\ s[1][2] = d
  OBVIOUS
<1>2. IsSchema(s) /\ Names(s) = {n}
  BY ONLY <1>1 DEF IsSchema, Names
<1>3. QED
  BY <1>1, <1>2

LEMMA TwoFields ==
    ASSUME NEW s, NEW n, NEW d, NEW m, NEW e, s = <<<<n, d>>, <<m, e>>>>
    PROVE  /\ IsSchema(s) /\ Len(s) = 2 /\ s[1][1] = n /\ s[1][2] = d
           /\ s[2][1] = m /\ s[2][2] = e /\ Names(s) = {n, m}
<1>1. /\ Len(s) = 2 /\ DOMAIN s = 1 .. 2 /\ s[1][1] = n /\ s[1][2] = d
      /\ s[2][1] = m /\ s[2][2] = e
  OBVIOUS
<1>2. IsSchema(s) /\ Names(s) = {n, m}
  BY ONLY <1>1 DEF IsSchema, Names
<1>3. QED
  BY <1>1, <1>2

(* An item has its type apart from the fields of its schema. *)
LEMMA ItemSchemaFacts ==
    ASSUME NEW t \in DOMAIN ItemSchema
    PROVE  /\ IsSchema(ItemSchema[t])
           /\ \A k \in 1 .. Len(ItemSchema[t]) :
                 ItemSchema[t][k][1] \in Names(ItemSchema[t]) /\ ItemSchema[t][k][1] \notin {"type", "isDefault"}
           /\ \A n \in Names(ItemSchema[t]) : \E k \in 1 .. Len(ItemSchema[t]) : n = ItemSchema[t][k][1]
<1> DEFINE Apart(s) == IsSchema(s) /\ "type" \notin Names(s) /\ "isDefault" \notin Names(s)
<1>1. \A s : s = <<<<"text", "text">>>> => Apart(s)
  BY OneField
<1>2. \A s : s = <<<<"index", "signed">>>> => Apart(s)
  BY OneField
<1>3. \A s : s = <<<<"state", "boolean">>>> => Apart(s)
  BY OneField
<1>4. \A s : s = <<<<"language", "language">>>> => Apart(s)
  BY OneField
<1>5. \A s : s = <<<<"durationMs", "natural">>>> => Apart(s)
  BY OneField
<1>6. \A s : s = <<<<"ipa", "ipa">>, <<"fallbackText", "fallback">>>> => Apart(s)
  BY TwoFields
<1>7. Apart(ProsodySchema)
  BY TwoFields DEF ProsodySchema
<1> HIDE DEF Apart
<1>8. Apart(ItemSchema[t])
  BY <1>1, <1>2, <1>3, <1>4, <1>5, <1>6, <1>7, ItemSchemas
<1>9. QED
  BY <1>8 DEF Names, Apart

(* The fields of a job and of an envelope. *)
LEMMA JobSchemaFacts ==
    /\ IsSchema(JobSchema) /\ Len(JobSchema) = 4
    /\ JobSchema[1] = <<"jobId", "id">> /\ JobSchema[2] = <<"generationId", "id">>
    /\ JobSchema[3] = <<"requestNumber", "id">> /\ JobSchema[4] = <<"voiceId", "voice">>
    /\ JobFields = {"jobId", "generationId", "requestNumber", "voiceId", "rate", "items"}
<1>1. /\ Len(JobSchema) = 4 /\ DOMAIN JobSchema = 1 .. 4
      /\ JobSchema[1] = <<"jobId", "id">> /\ JobSchema[2] = <<"generationId", "id">>
      /\ JobSchema[3] = <<"requestNumber", "id">> /\ JobSchema[4] = <<"voiceId", "voice">>
  BY DEF JobSchema
<1>2. Names(JobSchema) = {"jobId", "generationId", "requestNumber", "voiceId"}
  BY <1>1 DEF Names
<1>3. QED
  BY <1>1, <1>2 DEF IsSchema, JobFields

LEMMA EnvelopeFacts ==
    /\ IsSchema(EnvelopeIds) /\ Len(EnvelopeIds) = 3
    /\ EnvelopeIds[1] = <<"sessionId", "id">> /\ EnvelopeIds[2] = <<"sequenceNumber", "id">>
    /\ EnvelopeIds[3] = <<"requestId", "id">>
BY DEF IsSchema, EnvelopeIds, Ids
-----------------------------------------------------------------------------
(* Documents that are nested no deeper than so many containers, and hold no x. *)

Flat(x, v) == ~IsContainer(v) /\ v # x
Flat1(x, v) == v # x /\ \A c \in Children(v) : Flat(x, c)
Flat2(x, v) == v # x /\ \A c \in Children(v) : Flat1(x, c)
Flat3(x, v) == v # x /\ \A c \in Children(v) : Flat2(x, c)
Flat4(x, v) == v # x /\ \A c \in Children(v) : Flat3(x, c)
Flat5(x, v) == v # x /\ \A c \in Children(v) : Flat4(x, c)

LEMMA FlatHasNoChildren == ASSUME NEW v, ~IsContainer(v) PROVE Children(v) = {}
BY DEF IsContainer, Children, IsA

LEMMA ChildrenAre ==
    ASSUME NEW v, IsContainer(v)
    PROVE  Children(v) = {v[2][n] : n \in DOMAIN v[2]}
<1>1. CASE IsA("dict", v)
  <2>1. v[1] = "dict"
    BY <1>1 DEF IsA
  <2>2. QED
    BY <2>1 DEF Children, IsA
<1>2. CASE ~IsA("dict", v)
  <2>1. IsA("list", v)
    BY <1>2 DEF IsContainer, IsA
  <2>2. Children(v) = Range(v[2])
    BY <1>2, <2>1 DEF Children
  <2>3. QED
    BY <2>2 DEF Range
<1>3. QED
  BY <1>1, <1>2

LEMMA IsAChild ==
    ASSUME NEW v, IsContainer(v), NEW n \in DOMAIN v[2]
    PROVE  v[2][n] \in Children(v)
BY ChildrenAre

LEMMA FlatIsFlatter ==
    ASSUME NEW x, NEW v
    PROVE  /\ Flat(x, v) => Flat1(x, v) /\ Flat2(x, v) /\ Flat3(x, v) /\ Flat4(x, v)
           /\ Flat1(x, v) => Flat2(x, v)
BY FlatHasNoChildren DEF Flat, Flat1, Flat2, Flat3, Flat4

LEMMA ChildrenOfBelow ==
    ASSUME NEW v, NEW n \in Nat, NEW d \in Layer(v, n + 1)
    PROVE  \E c \in Layer(v, n) : d \in Children(c)
BY LayerFacts DEF Below

(* Such a document passes the decoder's first checks. *)
LEMMA FlatDocument ==
    ASSUME NEW x, NEW v, Flat5(x, v)
    PROVE  x \notin Inside(v) /\ ~TooDeep(v)
<1>1. /\ 1 = 0 + 1 /\ 2 = 1 + 1 /\ 3 = 2 + 1 /\ 4 = 3 + 1 /\ 5 = 4 + 1
      /\ {0, 1, 2, 3, 4, 5} \subseteq Nat
  OBVIOUS
<1>2. \A c \in Layer(v, 0) : Flat5(x, c)
  BY LayerFacts
<1>3. \A c \in Layer(v, 1) : Flat4(x, c)
  BY <1>1, <1>2, ChildrenOfBelow DEF Flat5
<1>4. \A c \in Layer(v, 2) : Flat3(x, c)
  BY <1>1, <1>3, ChildrenOfBelow DEF Flat4
<1>5. \A c \in Layer(v, 3) : Flat2(x, c)
  BY <1>1, <1>4, ChildrenOfBelow DEF Flat3
<1>6. \A c \in Layer(v, 4) : Flat1(x, c)
  BY <1>1, <1>5, ChildrenOfBelow DEF Flat2
<1>7. \A c \in Layer(v, 5) : Flat(x, c)
  BY <1>1, <1>6, ChildrenOfBelow DEF Flat1
<1>8. ASSUME NEW n \in Nat, n >= 5 PROVE \A c \in Layer(v, n) : Flat(x, c)
  <2> DEFINE N == n - 5
             S == {m \in 0 .. N : \A c \in Layer(v, m + 5) : Flat(x, c)}
  <2>1. N \in Nat /\ N + 5 = n
    BY <1>8
  <2>2. 0 \in S
    <3>1. 0 \in 0 .. N /\ 0 + 5 = 5
      BY <2>1
    <3>2. QED
      BY <3>1, <1>7
  <2>3. ASSUME NEW m \in 1 .. N, m - 1 \in S PROVE m \in S
    <3>1. m - 1 + 5 \in Nat /\ m + 5 = (m - 1 + 5) + 1
      BY <2>1
    <3>2. ASSUME NEW d \in Layer(v, m + 5) PROVE FALSE
      <4>1. PICK c \in Layer(v, m - 1 + 5) : d \in Children(c)
        BY <3>1, ChildrenOfBelow
      <4>2. ~IsContainer(c)
        BY <2>3 DEF Flat
      <4>3. QED
        BY <4>1, <4>2, FlatHasNoChildren
    <3>3. m \in 0 .. N
      BY <2>1
    <3>4. QED
      BY <3>2, <3>3
  <2> HIDE DEF N, S
  <2>4. \A m \in 0 .. N : m \in S
    BY <2>1, <2>2, <2>3, UpTo
  <2>5. N \in S
    BY <2>1, <2>4
  <2>6. QED
    BY <2>1, <2>5 DEF S
<1>9. ASSUME NEW n \in Nat PROVE x \notin Layer(v, n)
  <2>1. n \in {0, 1, 2, 3, 4} \/ n >= 5
    OBVIOUS
  <2>2. QED
    BY <1>2, <1>3, <1>4, <1>5, <1>6, <1>8, <2>1 DEF Flat, Flat1, Flat2, Flat3, Flat4, Flat5
<1>10. Limits["depth"] \in Nat /\ Limits["depth"] >= 5
  BY CodecAssumption
<1>11. ~TooDeep(v)
  BY <1>8, <1>10 DEF TooDeep, Flat
<1>12. \A n \in 0 .. Limits["depth"] : n \in Nat
  BY <1>10
<1>13. x \notin Inside(v)
  BY <1>9, <1>12 DEF Inside
<1>14. QED
  BY <1>11, <1>13

(* A value that is let through has no parts, and no field holds an infinite one. *)
Infinite == Float("infinite")
Kinds == {"id", "natural", "signed", "boolean", "text", "ipa", "voice", "error",
          "fallback", "language", "multiplier"}

LEMMA CheckedIsFlat ==
    ASSUME NEW kind \in Kinds, NEW v, RequireField(kind, v) = "ok"
    PROVE  Flat(Infinite, v)
<1>1. CASE kind \in {"id", "natural", "signed"}
  BY <1>1 DEF RequireField, Typed, Require, IsA, Flat, IsContainer, Infinite, Float
<1>2. CASE kind = "boolean"
  BY <1>2 DEF RequireField, Typed, Require, IsA, Flat, IsContainer, Infinite, Float
<1>3. CASE kind \in {"text", "ipa", "voice", "error"}
  BY <1>3 DEF RequireField, RequireString, IsA, Flat, IsContainer, Infinite, Float
<1>4. CASE kind \in {"fallback", "language"}
  BY <1>4 DEF RequireField, RequireStringOrNone, RequireString, None, IsA, Flat, IsContainer, Infinite, Float
<1>5. CASE kind = "multiplier"
  BY <1>5 DEF RequireField, RequireMultiplier, IsA, Flat, IsContainer, Infinite, Float
<1>6. QED
  BY <1>1, <1>2, <1>3, <1>4, <1>5 DEF Kinds

LEMMA ItemKinds ==
    ASSUME NEW t \in DOMAIN ItemSchema, NEW k \in 1 .. Len(ItemSchema[t])
    PROVE  ItemSchema[t][k][2] \in Kinds
<1> DEFINE Known(s) == \A j \in 1 .. Len(s) : s[j][2] \in Kinds
<1>1. \A s, n, d : s = <<<<n, d>>>> /\ d \in Kinds => Known(s)
  <2>1. ASSUME NEW s, NEW n, NEW d \in Kinds, s = <<<<n, d>>>> PROVE Known(s)
    <3>1. Len(s) = 1 /\ s[1][2] = d
      BY <2>1, OneField
    <3>2. QED
      BY <3>1
  <2>2. QED
    BY <2>1
<1>2. \A s, n, d, m, e : s = <<<<n, d>>, <<m, e>>>> /\ d \in Kinds /\ e \in Kinds => Known(s)
  <2>1. ASSUME NEW s, NEW n, NEW d \in Kinds, NEW m, NEW e \in Kinds, s = <<<<n, d>>, <<m, e>>>>
        PROVE  Known(s)
    <3>1. Len(s) = 2 /\ s[1][2] = d /\ s[2][2] = e
      BY <2>1, TwoFields
    <3>2. QED
      BY <3>1
  <2>2. QED
    BY <2>1
<1> HIDE DEF Known
<1>3. {"text", "signed", "boolean", "language", "natural", "ipa", "fallback", "multiplier"} \subseteq Kinds
  BY DEF Kinds
<1>4. Known(ProsodySchema)
  BY <1>2, <1>3 DEF ProsodySchema
<1>5. Known(ItemSchema["phoneme"])
  BY <1>2, <1>3, ItemSchemas
<1>6. Known(ItemSchema["text"]) /\ Known(ItemSchema["index"]) /\ Known(ItemSchema["characterMode"])
  BY <1>1, <1>3, ItemSchemas
<1>7. Known(ItemSchema["language"]) /\ Known(ItemSchema["break"])
  BY <1>1, <1>3, ItemSchemas
<1>8. Known(ItemSchema[t])
  BY <1>4, <1>5, <1>6, <1>7, ItemSchemas
<1>9. QED
  BY <1>8 DEF Known
-----------------------------------------------------------------------------
(* Items. *)

LEMMA ProsodyFields ==
    ASSUME NEW t, IsProsody(t)
    PROVE  /\ t \in DOMAIN ItemSchema /\ ItemSchema[t] = ProsodySchema
           /\ ItemFields(t) = {"type", "offset", "multiplier", "isDefault"}
<1>1. t \in DOMAIN ItemSchema /\ ItemSchema[t] = ProsodySchema
  BY ItemSchemas DEF IsProsody
<1>2. Names(ProsodySchema) = {"offset", "multiplier"}
  BY TwoFields DEF ProsodySchema
<1>3. QED
  BY <1>1, <1>2 DEF ItemFields

LEMMA DefaultIsBoolean ==
    ASSUME NEW i, ProsodyDefault(i) = "ok" PROVE RequireField("boolean", i.isDefault) = "ok"
<1>1. \A b : Bool(b)[1] = "bool"
  BY DEF Bool
<1>2. i.isDefault[1] = "bool"
  BY <1>1, Zenon DEF ProsodyDefault, Require
<1>3. QED
  BY <1>2 DEF RequireField, Typed, Require, IsA

(* Of an item and its fields on the wire, the encoder and the decoder ask the same. *)
LEMMA ItemChecks ==
    ASSUME NEW t \in DOMAIN ItemSchema, NEW i, i.type = t,
           NEW f, DOMAIN f = ItemFields(t), f.type = Word(t),
           \A n \in ItemFields(t) \ {"type"} : f[n] = i[n]
    PROVE  CheckItem(i) = "ok" <=> CheckWireItem(Dict(f)) = "ok"
<1> DEFINE w == Dict(f)
           s == ItemSchema[t]
<1>1. IsA("dict", w) /\ w[2] = f /\ IsA("str", f.type) /\ f.type[2] = t
  BY DEF Dict, Word, Str, IsA
<1>2. "type" \in DOMAIN f /\ Names(s) \subseteq ItemFields(t)
  BY DEF ItemFields
<1>3. RequireExactFields(w, ItemFields(t)) = "ok"
  BY <1>1 DEF RequireExactFields, Require
<1>4. RequireFields(f, s) = RequireFields(i, s)
  BY <1>2, ItemSchemaFacts, FieldsOnly
<1>5. CASE ~IsProsody(t)
  <2>1. CheckItem(i) = RequireFields(i, s)
    BY <1>5, Zenon DEF CheckItem
  <2>2. CheckWireItem(w) = RequireFields(f, s)
    <3> HIDE DEF w
    <3>1. QED
      BY <1>1, <1>2, <1>3, <1>5 DEF CheckWireItem
  <2>3. QED
    BY <1>4, <2>1, <2>2
<1>6. CASE IsProsody(t)
  <2>1. f.offset = i.offset /\ f.multiplier = i.multiplier /\ f.isDefault = i.isDefault
    BY <1>6, ProsodyFields
  <2>2. ProsodyConflict(f) = ProsodyConflict(i) /\ ProsodyDefault(f) = ProsodyDefault(i)
    BY <2>1, Zenon DEF ProsodyConflict, ProsodyDefault
  <2>3. CheckItem(i) = FirstFailure(<<RequireFields(i, s), ProsodyConflict(i), ProsodyDefault(i)>>)
    BY <1>6, Zenon DEF CheckItem
  <2>4. CheckWireItem(w) = FirstFailure(<<RequireFields(f, s), RequireField("boolean", f.isDefault),
                                          ProsodyConflict(f), ProsodyDefault(f)>>)
    <3> HIDE DEF w
    <3>1. QED
      BY <1>1, <1>2, <1>3, <1>6 DEF CheckWireItem
  <2>5. CheckItem(i) = "ok" <=>
          RequireFields(i, s) = "ok" /\ ProsodyConflict(i) = "ok" /\ ProsodyDefault(i) = "ok"
    BY <2>3, FirstOfThree
  <2>6. CheckWireItem(w) = "ok" <=>
          /\ RequireFields(f, s) = "ok" /\ RequireField("boolean", f.isDefault) = "ok"
          /\ ProsodyConflict(f) = "ok" /\ ProsodyDefault(f) = "ok"
    BY <2>4, FirstOfFour
  <2>7. ProsodyDefault(f) = "ok" => RequireField("boolean", f.isDefault) = "ok"
    BY DefaultIsBoolean
  <2>8. QED
    BY <1>4, <2>2, <2>5, <2>6, <2>7
<1>7. QED
  BY <1>5, <1>6

LEMMA ItemIsDecoded ==
    ASSUME NEW i, IsItemObject(i), CheckItem(i) = "ok"
    PROVE  CheckWireItem(ItemToWire(i)) = "ok" /\ WireToItem(ItemToWire(i)) = i
<1> DEFINE f == [i EXCEPT !.type = Word(@)]
           t == i.type
<1>1. t \in DOMAIN ItemSchema /\ DOMAIN i = ItemFields(t) /\ i = [n \in ItemFields(t) |-> i[n]]
  BY DEF IsItemObject, HasFields
<1>2. "type" \in ItemFields(t)
  BY DEF ItemFields
<1>3. /\ DOMAIN f = ItemFields(t) /\ f.type = Word(t) /\ f = [n \in ItemFields(t) |-> f[n]]
      /\ \A n \in ItemFields(t) \ {"type"} : f[n] = i[n]
  BY <1>1, <1>2
<1>4. ItemToWire(i) = Dict(f) /\ Dict(f)[2] = f
  BY DEF ItemToWire, Dict
<1>5. WireToItem(Dict(f)) = [f EXCEPT !.type = @[2]]
  BY <1>4 DEF WireToItem
<1> HIDE DEF f
<1>6. CheckWireItem(Dict(f)) = "ok"
  BY <1>1, <1>3, ItemChecks
<1>7. [f EXCEPT !.type = @[2]] = i
  <2> DEFINE g == [f EXCEPT !.type = @[2]]
  <2>1. f.type[2] = t
    BY <1>3 DEF Word, Str
  <2>2. g = [n \in ItemFields(t) |-> IF n = "type" THEN t ELSE f[n]]
    BY <1>2, <1>3, <2>1
  <2>3. \A n \in ItemFields(t) : (IF n = "type" THEN t ELSE f[n]) = i[n]
    BY <1>3
  <2>4. QED
    BY <1>1, <2>2, <2>3
<1>8. QED
  BY <1>4, <1>5, <1>6, <1>7

(* An item that passes its checks has flat values. *)
LEMMA ItemIsFlat ==
    ASSUME NEW i, IsItemObject(i), CheckItem(i) = "ok"
    PROVE  \A n \in DOMAIN i \ {"type"} : Flat(Infinite, i[n])
<1> DEFINE t == i.type
           s == ItemSchema[t]
<1> SUFFICES ASSUME NEW n \in DOMAIN i \ {"type"} PROVE Flat(Infinite, i[n])
  OBVIOUS
<1>1. t \in DOMAIN ItemSchema /\ n \in ItemFields(t) \ {"type"}
  BY DEF IsItemObject, HasFields
<1>2. /\ IsProsody(t) => RequireFields(i, s) = "ok" /\ RequireField("boolean", i.isDefault) = "ok"
      /\ ~IsProsody(t) => RequireFields(i, s) = "ok"
  <2>1. CASE IsProsody(t)
    <3>1. CheckItem(i) = FirstFailure(<<RequireFields(i, s), ProsodyConflict(i), ProsodyDefault(i)>>)
      BY <2>1, Zenon DEF CheckItem
    <3>2. RequireFields(i, s) = "ok" /\ ProsodyDefault(i) = "ok"
      BY <3>1, FirstOfThree
    <3>3. QED
      BY <3>2, DefaultIsBoolean
  <2>2. CASE ~IsProsody(t)
    <3>1. CheckItem(i) = RequireFields(i, s)
      BY <2>2, Zenon DEF CheckItem
    <3>2. QED
      BY <2>2, <3>1
  <2>3. QED
    BY <2>1, <2>2
<1>3. CASE n \in Names(s)
  <2>1. PICK k \in 1 .. Len(s) : n = s[k][1]
    BY <1>1, <1>3, ItemSchemaFacts
  <2>2. IsSchema(s) /\ s[k][2] \in Kinds
    BY <1>1, ItemSchemaFacts, ItemKinds
  <2>3. RequireFields(i, s) = "ok"
    BY <1>2
  <2> HIDE DEF s
  <2>4. RequireField(s[k][2], i[n]) = "ok"
    BY <2>1, <2>2, <2>3, FieldsFacts
  <2>5. QED
    BY <2>2, <2>4, CheckedIsFlat
<1>4. CASE n \notin Names(s)
  <2>1. n = "isDefault" /\ IsProsody(t)
    BY <1>1, <1>4 DEF ItemFields
  <2>2. "boolean" \in Kinds
    BY DEF Kinds
  <2>3. QED
    BY <1>2, <2>1, <2>2, CheckedIsFlat
<1>5. QED
  BY <1>3, <1>4

(* The item that is decoded is encoded to what it was decoded from. *)
LEMMA ItemIsEncoded ==
    ASSUME NEW v, CheckWireItem(v) = "ok", IsJson(v), \A c \in Children(v) : IsJson(c)
    PROVE  /\ CheckItem(WireToItem(v)) = "ok" /\ ItemToWire(WireToItem(v)) = v
           /\ IsItemObject(WireToItem(v))
<1> DEFINE f == v[2]
           t == f.type[2]
           i == [f EXCEPT !.type = @[2]]
<1>1. /\ IsA("dict", v) /\ "type" \in DOMAIN f /\ IsA("str", f.type) /\ t \in DOMAIN ItemSchema
      /\ RequireExactFields(v, ItemFields(t)) = "ok"
  BY DEF CheckWireItem
<1>2. DOMAIN f = ItemFields(t)
  BY <1>1 DEF RequireExactFields, Require
<1>3. v = Dict(f) /\ f = [n \in DOMAIN f |-> f[n]]
  BY <1>1 DEF IsJson, HasFields, IsScalar, None, IsA, Num, Float, Bool, Str, List
<1>4. f.type \in Children(v)
  BY <1>1, IsAChild DEF IsContainer, IsA
<1>5. f.type = Word(t)
  BY <1>1, <1>4 DEF IsJson, Keywords, IsA
<1>6. WireToItem(v) = i
  BY DEF WireToItem
<1> HIDE DEF f, t
<1>7. /\ i.type = t /\ DOMAIN i = ItemFields(t)
      /\ i = [n \in ItemFields(t) |-> IF n = "type" THEN t ELSE f[n]]
  BY <1>1, <1>2, <1>3 DEF t
<1>8. [i EXCEPT !.type = Word(@)] = f
  BY <1>1, <1>2, <1>3, <1>5, <1>7
<1>9. \A n \in ItemFields(t) \ {"type"} : f[n] = i[n]
  BY <1>7
<1> HIDE DEF i
<1>10. CheckItem(i) = "ok"
  BY <1>1, <1>2, <1>3, <1>5, <1>7, <1>9, ItemChecks
<1>11. IsItemObject(i)
  BY <1>1, <1>7 DEF IsItemObject, HasFields
<1>12. ItemToWire(i) = v
  BY <1>3, <1>8 DEF ItemToWire
<1>13. QED
  BY <1>6, <1>10, <1>11, <1>12
-----------------------------------------------------------------------------
(* Jobs. *)

(* All that is asked of a job. *)
LEMMA JobChecks ==
    ASSUME NEW j
    PROVE  LET a == RequireFields(j, JobSchema)
               b == Require(j.voiceId # Str("empty", 0), "invalidFieldValue")
               c == Typed("int", j.rate, j.rate[2] \in 0 .. Limits["rate"])
               d == Require(Len(j.items) <= Limits["items"], "jobSizeLimitExceeded")
               e == FirstFailure([k \in 1 .. Len(j.items) |-> CheckItem(j.items[k])])
               f == Require(TotalText(j.items) <= Limits["total"], "jobSizeLimitExceeded")
           IN /\ CheckJob(j) = "ok" <=>
                    a = "ok" /\ b = "ok" /\ c = "ok" /\ d = "ok" /\ e = "ok" /\ f = "ok"
              /\ CheckJob(j) \in {"ok", a, b, c, d, e, f}
<1> DEFINE a == RequireFields(j, JobSchema)
           b == Require(j.voiceId # Str("empty", 0), "invalidFieldValue")
           c == Typed("int", j.rate, j.rate[2] \in 0 .. Limits["rate"])
           d == Require(Len(j.items) <= Limits["items"], "jobSizeLimitExceeded")
           e == FirstFailure([k \in 1 .. Len(j.items) |-> CheckItem(j.items[k])])
           f == Require(TotalText(j.items) <= Limits["total"], "jobSizeLimitExceeded")
<1>1. CheckJob(j) = FirstFailure(<<a, b, c, d, e, f>>)
  BY Zenon DEF CheckJob
<1> HIDE DEF a, b, c, d, e, f
<1>2. /\ CheckJob(j) = "ok" <=>
            a = "ok" /\ b = "ok" /\ c = "ok" /\ d = "ok" /\ e = "ok" /\ f = "ok"
      /\ CheckJob(j) \in {"ok", a, b, c, d, e, f}
  BY ONLY <1>1, FirstOfSix
<1>3. QED
  BY <1>2, Zenon DEF a, b, c, d, e, f

(* The items of a job are a sequence, each of them checked. *)
LEMMA ItemsAreChecked ==
    ASSUME NEW S, NEW s \in Seq(S)
    PROVE  LET e == FirstFailure([k \in 1 .. Len(s) |-> CheckItem(s[k])])
           IN /\ Len(s) \in Nat /\ DOMAIN s = 1 .. Len(s) /\ s = [k \in 1 .. Len(s) |-> s[k]]
              /\ e = "ok" <=> \A k \in 1 .. Len(s) : CheckItem(s[k]) = "ok"
              /\ e # "ok" => \E k \in 1 .. Len(s) : CheckItem(s[k]) # "ok" /\ e = CheckItem(s[k])
<1> DEFINE N == Len(s)
           c == [k \in 1 .. N |-> CheckItem(s[k])]
<1>1. N \in Nat /\ DOMAIN s = 1 .. N /\ s = [k \in 1 .. N |-> s[k]]
  OBVIOUS
<1>2. DOMAIN c = 1 .. N /\ \A k \in 1 .. N : c[k] = CheckItem(s[k])
  OBVIOUS
<1> HIDE DEF N, c
<1>3. /\ FirstFailure(c) = "ok" <=> \A k \in 1 .. N : c[k] = "ok"
      /\ FirstFailure(c) # "ok" => \E k \in 1 .. N : c[k] # "ok" /\ FirstFailure(c) = c[k]
  BY ONLY <1>1, <1>2, FirstFailureIs
<1>4. /\ FirstFailure(c) = "ok" <=> \A k \in 1 .. N : CheckItem(s[k]) = "ok"
      /\ FirstFailure(c) # "ok" =>
            \E k \in 1 .. N : CheckItem(s[k]) # "ok" /\ FirstFailure(c) = CheckItem(s[k])
  BY ONLY <1>2, <1>3
<1>5. QED
  BY <1>1, <1>4 DEF N, c

(* A job that passes its checks. *)
LEMMA JobIsChecked ==
    ASSUME NEW j, IsJobObject(j), CheckJob(j) = "ok"
    PROVE  /\ DOMAIN j = JobFields /\ j = [n \in JobFields |-> j[n]]
           /\ RequireFields(j, JobSchema) = "ok" /\ RequireField("natural", j.rate) = "ok"
           /\ Len(j.items) \in Nat /\ Len(j.items) <= Limits["items"]
           /\ DOMAIN j.items = 1 .. Len(j.items) /\ j.items = [k \in 1 .. Len(j.items) |-> j.items[k]]
           /\ \A k \in 1 .. Len(j.items) : IsItemObject(j.items[k]) /\ CheckItem(j.items[k]) = "ok"
<1>1. DOMAIN j = JobFields /\ j = [n \in JobFields |-> j[n]]
  BY DEF IsJobObject, HasFields
<1>2. j.items \in Seq(Range(j.items)) /\ \A k \in DOMAIN j.items : IsItemObject(j.items[k])
  BY DEF IsJobObject
<1>3. /\ RequireFields(j, JobSchema) = "ok"
      /\ Typed("int", j.rate, j.rate[2] \in 0 .. Limits["rate"]) = "ok"
      /\ Require(Len(j.items) <= Limits["items"], "jobSizeLimitExceeded") = "ok"
      /\ FirstFailure([k \in 1 .. Len(j.items) |-> CheckItem(j.items[k])]) = "ok"
  BY JobChecks, Zenon
<1>4. /\ Len(j.items) \in Nat /\ DOMAIN j.items = 1 .. Len(j.items)
      /\ j.items = [k \in 1 .. Len(j.items) |-> j.items[k]]
      /\ \A k \in 1 .. Len(j.items) : CheckItem(j.items[k]) = "ok"
  BY ONLY <1>2, <1>3, ItemsAreChecked
<1>5. Len(j.items) <= Limits["items"]
  BY <1>3 DEF Require
<1>6. j.rate[1] = "int" /\ j.rate[2] \in 0 .. Limits["rate"]
  BY <1>3 DEF Typed, Require, IsA
<1>7. Limits["rate"] \in Nat /\ Limits["rate"] <= MaxId /\ MaxId \in Nat
  BY CodecAssumption
<1>8. j.rate[2] \in 0 .. MaxId
  BY <1>6, <1>7
<1>9. RequireField("natural", j.rate) = "ok"
  BY <1>6, <1>8 DEF RequireField, Typed, Require, IsA
<1>10. QED
  BY <1>1, <1>2, <1>3, <1>4, <1>5, <1>9

LEMMA JobIsDecoded ==
    ASSUME NEW j, IsJobObject(j), CheckJob(j) = "ok"
    PROVE  CheckWireJob(JobToWire(j)) = "ok" /\ WireToJob(JobToWire(j)) = j
<1> DEFINE s == j.items
           N == Len(s)
           ws == [k \in 1 .. N |-> ItemToWire(s[k])]
           f == [j EXCEPT !.items = List(ws)]
           w == Dict(f)
<1>1. /\ DOMAIN j = JobFields /\ j = [n \in JobFields |-> j[n]]
      /\ RequireFields(j, JobSchema) = "ok" /\ RequireField("natural", j.rate) = "ok"
      /\ N \in Nat /\ N <= Limits["items"]
      /\ s = [k \in 1 .. N |-> s[k]]
      /\ \A k \in 1 .. N : IsItemObject(s[k]) /\ CheckItem(s[k]) = "ok"
  BY JobIsChecked
<1>2. JobToWire(j) = w
  BY DEF JobToWire
<1>3. Len(ws) = N /\ \A k \in 1 .. N : ws[k] = ItemToWire(s[k])
  BY <1>1
<1>4. \A k \in 1 .. N : CheckWireItem(ws[k]) = "ok" /\ WireToItem(ws[k]) = s[k]
  BY <1>1, <1>3, ItemIsDecoded
<1> HIDE DEF ws
<1>5. {"items", "rate"} \subseteq JobFields
  BY DEF JobFields
<1>6. /\ DOMAIN f = JobFields /\ f = [n \in JobFields |-> f[n]] /\ f.items = List(ws)
      /\ \A n \in JobFields \ {"items"} : f[n] = j[n]
  BY <1>1, <1>5
<1> HIDE DEF f
<1>7. IsA("dict", w) /\ w[2] = f
  BY DEF Dict, IsA
<1>8. IsA("list", f.items) /\ f.items[2] = ws
  BY <1>6 DEF List, IsA
<1>9. WireToJob(w) = j
  <2>1. WireToJob(w) = [f EXCEPT !.items = [k \in 1 .. N |-> WireToItem(ws[k])]]
    BY <1>3, <1>7, <1>8 DEF WireToJob
  <2>2. [k \in 1 .. N |-> WireToItem(ws[k])] = s
    BY <1>1, <1>4
  <2>3. WireToJob(w) = [f EXCEPT !.items = s]
    BY <2>1, <2>2
  <2>4. [f EXCEPT !.items = s] = [n \in JobFields |-> IF n = "items" THEN s ELSE f[n]]
    BY <1>5, <1>6
  <2>5. \A n \in JobFields : (IF n = "items" THEN s ELSE f[n]) = j[n]
    BY <1>6
  <2>6. QED
    BY <1>1, <2>3, <2>4, <2>5
<1>10. RequireExactFields(w, JobFields) = "ok"
  BY <1>6, <1>7 DEF RequireExactFields, Require
<1>11. Require(Len(ws) <= Limits["items"], "jobSizeLimitExceeded") = "ok"
  BY <1>1, <1>3 DEF Require
<1>12. FirstFailure([k \in 1 .. N |-> CheckWireItem(ws[k])]) = "ok"
  BY <1>4 DEF FirstFailure
<1>13. RequireFields(f, JobSchema) = "ok"
  <2>1. \A k \in 1 .. Len(JobSchema) : f[JobSchema[k][1]] = j[JobSchema[k][1]]
    <3>1. /\ f.jobId = j.jobId /\ f.generationId = j.generationId
          /\ f.requestNumber = j.requestNumber /\ f.voiceId = j.voiceId
      BY <1>6, JobSchemaFacts
    <3>2. QED
      BY <3>1, JobSchemaFacts
  <2>2. QED
    BY <1>1, <2>1, FieldsOnly
<1>14. RequireField("natural", f.rate) = "ok"
  BY <1>1, <1>5, <1>6
<1>15. FirstFailure(<<FirstFailure([k \in 1 .. N |-> CheckWireItem(ws[k])]),
                      RequireFields(f, JobSchema), RequireField("natural", f.rate)>>) = "ok"
  BY <1>12, <1>13, <1>14, FirstOfThree
<1> HIDE DEF w
<1>16. CheckWireJob(w) = CheckJob(WireToJob(w))
  BY <1>3, <1>7, <1>8, <1>10, <1>11, <1>15 DEF CheckWireJob
<1>17. QED
  BY <1>2, <1>9, <1>16

LEMMA FieldsAreFlat ==
    ASSUME NEW s, IsSchema(s), \A k \in 1 .. Len(s) : s[k][2] \in Kinds,
           NEW f, RequireFields(f, s) = "ok"
    PROVE  \A k \in 1 .. Len(s) : Flat(Infinite, f[s[k][1]])
BY FieldsFacts, CheckedIsFlat

LEMMA IdentifiersAreFlat ==
    ASSUME NEW j, RequireFields(j, JobSchema) = "ok", RequireField("natural", j.rate) = "ok"
    PROVE  \A n \in JobFields \ {"items"} : Flat(Infinite, j[n])
<1>1. {"id", "voice", "natural"} \subseteq Kinds
  BY DEF Kinds
<1>2. \A k \in 1 .. Len(JobSchema) : JobSchema[k][2] \in Kinds
  BY <1>1, JobSchemaFacts
<1>3. \A k \in 1 .. Len(JobSchema) : Flat(Infinite, j[JobSchema[k][1]])
  BY <1>2, JobSchemaFacts, FieldsAreFlat
<1>4. Flat(Infinite, j.rate)
  BY <1>1, CheckedIsFlat
<1>5. QED
  BY <1>3, <1>4, JobSchemaFacts
IsAtom(x) == ~IsContainer(x) /\ \A t \in Keywords : x # Word(t)

LEMMA JobIsFlat ==
    ASSUME NEW x, IsAtom(x), NEW j, IsJobObject(j),
           \A n \in JobFields \ {"items"} : Flat(x, j[n]),
           \A k \in DOMAIN j.items : \A n \in DOMAIN j.items[k] \ {"type"} : Flat(x, j.items[k][n])
    PROVE  Flat3(x, JobToWire(j))
<1> DEFINE s == j.items
           N == Len(s)
           ws == [k \in 1 .. N |-> ItemToWire(s[k])]
           f == [j EXCEPT !.items = List(ws)]
           w == Dict(f)
<1>1. /\ DOMAIN j = JobFields /\ j = [n \in JobFields |-> j[n]] /\ "items" \in JobFields
      /\ N \in Nat /\ DOMAIN s = 1 .. N /\ \A k \in 1 .. N : IsItemObject(s[k])
  BY DEF IsJobObject, HasFields, JobFields
<1>2. \A c : c[1] \in {"dict", "list"} => c # x
  BY DEF IsAtom, IsContainer
<1>3. ASSUME NEW k \in 1 .. N PROVE Flat1(x, ws[k])
  <2> DEFINE i == s[k]
             g == [i EXCEPT !.type = Word(@)]
  <2>1. ws[k] = Dict(g)
    BY DEF ItemToWire
  <2>2. IsItemObject(i) /\ \A n \in DOMAIN i \ {"type"} : Flat(x, i[n])
    BY <1>1
  <2> HIDE DEF i
  <2>3. DOMAIN g = DOMAIN i /\ g.type = Word(i.type) /\ \A n \in DOMAIN i \ {"type"} : g[n] = i[n]
    BY <2>2 DEF IsItemObject, HasFields, ItemFields
  <2>4. Flat(x, Word(i.type))
    BY <2>2 DEF IsAtom, IsItemObject, Keywords, Flat, IsContainer, Word, Str
  <2> HIDE DEF g
  <2>5. \A n \in DOMAIN g : Flat(x, g[n])
    BY <2>2, <2>3, <2>4
  <2>6. Dict(g)[1] = "dict" /\ Dict(g)[2] = g
    BY DEF Dict
  <2>7. \A c \in Children(Dict(g)) : Flat(x, c)
    BY <2>5, <2>6, ChildrenAre DEF IsContainer
  <2>8. Dict(g) # x
    BY <1>2, <2>6
  <2>9. QED
    BY <2>1, <2>7, <2>8 DEF Flat1
<1>4. DOMAIN ws = 1 .. N
  OBVIOUS
<1> HIDE DEF ws
<1>5. Flat2(x, List(ws))
  <2>1. List(ws)[1] = "list" /\ List(ws)[2] = ws
    BY DEF List
  <2>2. \A c \in Children(List(ws)) : Flat1(x, c)
    BY <1>3, <1>4, <2>1, ChildrenAre DEF IsContainer
  <2>3. List(ws) # x
    BY <1>2, <2>1
  <2>4. QED
    BY <2>2, <2>3 DEF Flat2
<1>6. DOMAIN f = JobFields /\ f.items = List(ws) /\ \A n \in JobFields \ {"items"} : f[n] = j[n]
  BY <1>1
<1> HIDE DEF f
<1>7. \A n \in DOMAIN f : Flat2(x, f[n])
  BY <1>5, <1>6, FlatIsFlatter
<1>8. w[1] = "dict" /\ w[2] = f
  BY DEF Dict
<1> HIDE DEF w
<1>9. \A c \in Children(w) : Flat2(x, c)
  BY <1>7, <1>8, ChildrenAre DEF IsContainer
<1>10. w # x
  BY <1>2, <1>8
<1>11. Flat3(x, w)
  BY <1>9, <1>10 DEF Flat3
<1>12. QED
  BY <1>11 DEF JobToWire, w, f, ws

(* What is read from a frame is JSON, however deep the message goes. *)
Json1(v) == IsJson(v) /\ \A c \in Children(v) : IsJson(c)
Json2(v) == IsJson(v) /\ \A c \in Children(v) : Json1(c)
Json3(v) == IsJson(v) /\ \A c \in Children(v) : Json2(c)
Json4(v) == IsJson(v) /\ \A c \in Children(v) : Json3(c)
Json5(v) == IsJson(v) /\ \A c \in Children(v) : Json4(c)

LEMMA JsonDict ==
    ASSUME NEW v, IsJson(v), IsA("dict", v)
    PROVE  v = Dict(v[2]) /\ v[2] = [n \in DOMAIN v[2] |-> v[2][n]] /\ IsContainer(v)
BY DEF IsJson, HasFields, IsScalar, None, IsA, Num, Float, Bool, Str, List, IsContainer

LEMMA JsonList ==
    ASSUME NEW v, IsJson(v), IsA("list", v)
    PROVE  /\ v = List(v[2]) /\ IsContainer(v) /\ v[2] \in Seq(Range(v[2]))
           /\ Len(v[2]) \in Nat /\ DOMAIN v[2] = 1 .. Len(v[2])
           /\ v[2] = [k \in 1 .. Len(v[2]) |-> v[2][k]]
<1>1. v = List(v[2]) /\ v[2] \in Seq(Range(v[2])) /\ IsContainer(v)
  BY DEF IsJson, HasFields, IsScalar, None, IsA, Num, Float, Bool, Str, Dict, IsContainer
<1> DEFINE s == v[2]
           S == Range(s)
<1>2. s \in Seq(S)
  BY <1>1
<1> HIDE DEF s, S
<1>3. Len(s) \in Nat /\ DOMAIN s = 1 .. Len(s) /\ s = [k \in 1 .. Len(s) |-> s[k]]
  BY <1>2
<1>4. QED
  BY <1>1, <1>3 DEF s

LEMMA JobIsEncoded ==
    ASSUME NEW w, CheckWireJob(w) = "ok", Json3(w)
    PROVE  CheckJob(WireToJob(w)) = "ok" /\ JobToWire(WireToJob(w)) = w
<1> DEFINE f == w[2]
           s == f.items[2]
           N == Len(s)
           is == [k \in 1 .. N |-> WireToItem(s[k])]
           j == [f EXCEPT !.items = is]
           a == FirstFailure([k \in 1 .. N |-> CheckWireItem(s[k])])
           b == RequireFields(f, JobSchema)
           c == RequireField("natural", f.rate)
<1>1. /\ RequireExactFields(w, JobFields) = "ok" /\ IsA("list", f.items)
      /\ FirstFailure(<<a, b, c>>) = "ok" /\ CheckJob(WireToJob(w)) = "ok"
  <2> HIDE DEF a, b, c
  <2>1. /\ RequireExactFields(w, JobFields) = "ok" /\ IsA("list", f.items)
        /\ FirstFailure(<<a, b, c>>) = "ok" /\ CheckJob(WireToJob(w)) = "ok"
    BY DEF CheckWireJob, Require, a, b, c
  <2>2. QED
    BY <2>1
<1>2. IsA("dict", w) /\ DOMAIN f = JobFields /\ "items" \in JobFields
  BY <1>1 DEF RequireExactFields, Require, JobFields
<1>3. w = Dict(f) /\ f = [n \in JobFields |-> f[n]] /\ IsContainer(w)
  BY <1>2, JsonDict DEF Json3
<1>4. Json2(f.items)
  BY <1>2, <1>3, IsAChild DEF Json3
<1>5. /\ f.items = List(s) /\ IsContainer(f.items) /\ N \in Nat /\ DOMAIN s = 1 .. N
      /\ s = [k \in 1 .. N |-> s[k]]
  BY <1>1, <1>4, JsonList DEF Json2
<1>6. a = "ok"
  <2> HIDE DEF a, b, c
  <2>1. QED
    BY <1>1, FirstOfThree
<1>7. ASSUME NEW k \in 1 .. N PROVE ItemToWire(is[k]) = s[k]
  <2>1. CheckWireItem(s[k]) = "ok"
    <3> DEFINE d == [l \in 1 .. N |-> CheckWireItem(s[l])]
    <3>1. DOMAIN d = 1 .. N /\ d[k] = CheckWireItem(s[k]) /\ FirstFailure(d) = "ok"
      BY <1>6
    <3> HIDE DEF d
    <3>2. d[k] = "ok"
      BY ONLY <1>5, <3>1, FirstFailureIs, k \in 1 .. N
    <3>3. QED
      BY <3>1, <3>2
  <2>2. s[k] \in Children(f.items)
    BY <1>5, IsAChild
  <2>3. IsJson(s[k]) /\ \A d \in Children(s[k]) : IsJson(d)
    BY <1>4, <2>2 DEF Json2, Json1
  <2>4. is[k] = WireToItem(s[k])
    OBVIOUS
  <2>5. QED
    BY <2>1, <2>3, <2>4, ItemIsEncoded
<1>8. WireToJob(w) = j
  BY DEF WireToJob
<1>9. Len(is) = N
  BY <1>5
<1> HIDE DEF is
<1>10. j.items = is
  BY <1>2
<1>11. [k \in 1 .. N |-> ItemToWire(is[k])] = s
  BY <1>5, <1>7
<1>12. JobToWire(j) = Dict([j EXCEPT !.items = List(s)])
  BY <1>9, <1>10, <1>11 DEF JobToWire
<1>13. [j EXCEPT !.items = List(s)] = f
  <2>1. \A y : [[f EXCEPT !.items = is] EXCEPT !.items = y]
                 = [n \in JobFields |-> IF n = "items" THEN y ELSE f[n]]
    BY <1>2, <1>3
  <2>2. \A n \in JobFields : (IF n = "items" THEN List(s) ELSE f[n]) = f[n]
    BY <1>5
  <2>3. QED
    BY <1>3, <2>1, <2>2
<1>14. QED
  BY <1>1, <1>3, <1>8, <1>12, <1>13
(* A sequence that starts with s and goes on with t is s \o t. *)
LEMMA ConcatIs ==
    ASSUME NEW S, NEW s \in Seq(S), NEW t \in Seq(S), NEW u \in Seq(S), Len(u) = Len(s) + Len(t),
           \A i \in 1 .. Len(s) : u[i] = s[i], \A i \in 1 .. Len(t) : u[Len(s) + i] = t[i]
    PROVE  s \o t = u
<1>1. s \o t \in Seq(S) /\ Len(s \o t) = Len(u) /\ Len(s) \in Nat /\ Len(t) \in Nat
  OBVIOUS
<1>2. ASSUME NEW i \in 1 .. Len(u) PROVE (s \o t)[i] = u[i]
  <2>1. CASE i <= Len(s)
    BY <2>1
  <2>2. CASE i > Len(s)
    <3>1. i - Len(s) \in 1 .. Len(t) /\ Len(s) + (i - Len(s)) = i
      BY <1>1, <2>2
    <3>2. (s \o t)[i] = t[i - Len(s)]
      BY <1>1, <2>2
    <3>3. u[i] = t[i - Len(s)]
      BY <3>1
    <3>4. QED
      BY <3>2, <3>3
  <2>3. QED
    BY <1>1, <2>1, <2>2
<1>3. QED
  BY <1>1, <1>2

LEMMA Concats ==
    /\ \A a, b : <<a>> \o <<b>> = <<a, b>>
    /\ \A a, b, c : <<a, b>> \o <<c>> = <<a, b, c>>
    /\ \A a, b, c, d : <<a>> \o <<b, c, d>> = <<a, b, c, d>>
<1>1. ASSUME NEW a, NEW b PROVE <<a>> \o <<b>> = <<a, b>>
  <2> DEFINE S == {a, b}
             s == <<a>>
             t == <<b>>
             u == <<a, b>>
  <2>1. s \in Seq(S) /\ t \in Seq(S) /\ u \in Seq(S)
    OBVIOUS
  <2>2. Len(s) = 1 /\ Len(t) = 1 /\ Len(u) = 2 /\ s[1] = u[1] /\ t[1] = u[2]
    OBVIOUS
  <2> HIDE DEF s, t, u, S
  <2>3. Len(u) = Len(s) + Len(t) /\ \A i \in 1 .. Len(s) : u[i] = s[i]
    BY <2>2
  <2>4. \A i \in 1 .. Len(t) : u[Len(s) + i] = t[i]
    BY <2>2
  <2>5. s \o t = u
    BY ONLY <2>1, <2>3, <2>4, ConcatIs
  <2>6. QED
    BY <2>5 DEF s, t, u
<1>2. ASSUME NEW a, NEW b, NEW c PROVE <<a, b>> \o <<c>> = <<a, b, c>>
  <2> DEFINE S == {a, b, c}
             s == <<a, b>>
             t == <<c>>
             u == <<a, b, c>>
  <2>1. s \in Seq(S) /\ t \in Seq(S) /\ u \in Seq(S)
    OBVIOUS
  <2>2. Len(s) = 2 /\ Len(t) = 1 /\ Len(u) = 3 /\ s[1] = u[1] /\ s[2] = u[2] /\ t[1] = u[3]
    OBVIOUS
  <2> HIDE DEF s, t, u, S
  <2>3. Len(u) = Len(s) + Len(t) /\ \A i \in 1 .. Len(s) : u[i] = s[i]
    BY <2>2
  <2>4. \A i \in 1 .. Len(t) : u[Len(s) + i] = t[i]
    BY <2>2
  <2>5. s \o t = u
    BY ONLY <2>1, <2>3, <2>4, ConcatIs
  <2>6. QED
    BY <2>5 DEF s, t, u
<1>3. ASSUME NEW a, NEW b, NEW c, NEW d PROVE <<a>> \o <<b, c, d>> = <<a, b, c, d>>
  <2> DEFINE S == {a, b, c, d}
             s == <<a>>
             t == <<b, c, d>>
             u == <<a, b, c, d>>
  <2>1. s \in Seq(S) /\ t \in Seq(S) /\ u \in Seq(S)
    OBVIOUS
  <2>2. /\ Len(s) = 1 /\ Len(t) = 3 /\ Len(u) = 4 /\ s[1] = u[1]
        /\ t[1] = u[2] /\ t[2] = u[3] /\ t[3] = u[4]
    OBVIOUS
  <2> HIDE DEF s, t, u, S
  <2>3. Len(u) = Len(s) + Len(t) /\ \A i \in 1 .. Len(s) : u[i] = s[i]
    BY <2>2
  <2>4. \A i \in 1 .. Len(t) : u[Len(s) + i] = t[i]
    BY <2>2
  <2>5. s \o t = u
    BY ONLY <2>1, <2>3, <2>4, ConcatIs
  <2>6. QED
    BY <2>5 DEF s, t, u
<1>4. QED
  BY <1>1, <1>2, <1>3

-----------------------------------------------------------------------------
(* The parts of a message. *)

Composite == {"job", "capabilities", "error"}
Part(name, kind) ==
    \/ name \in Composite /\ kind = name
    \/ name \notin Composite /\ kind \in {"id", "boolean", "status"}

OfParts(s) ==
    /\ IsSchema(s)
    /\ \A k \in 1 .. Len(s) : Part(s[k][1], s[k][2])
    /\ "job" \in Names(s) => {"generationId", "jobId"} \subseteq Names(s)

LEMMA IdsAre ==
    /\ \A a : Ids(<<a>>) = <<<<a, "id">>>>
    /\ \A a, b : Ids(<<a, b>>) = <<<<a, "id">>, <<b, "id">>>>
    /\ \A a, b, c : Ids(<<a, b, c>>) = <<<<a, "id">>, <<b, "id">>, <<c, "id">>>>
BY DEF Ids

LEMMA PayloadsAre ==
    /\ DOMAIN Payload = {"helloRequest", "shutdownRequest", "shutdownResponse", "helloResponse",
            "submitJobRequest", "jobAcceptedResponse", "cancelGenerationRequest",
            "cancelGenerationResponse", "fakeResultRequest", "fakeResultResponse", "errorResponse"}
    /\ \A t \in {"helloRequest", "shutdownRequest", "shutdownResponse"} : Payload[t] = <<>>
    /\ Payload["helloResponse"] = <<<<"capabilities", "capabilities">>>>
    /\ Payload["submitJobRequest"] = <<<<"generationId", "id">>, <<"jobId", "id">>, <<"job", "job">>>>
    /\ Payload["jobAcceptedResponse"] = <<<<"generationId", "id">>, <<"jobId", "id">>>>
    /\ Payload["cancelGenerationRequest"] = <<<<"generationId", "id">>>>
    /\ Payload["cancelGenerationResponse"] = <<<<"generationId", "id">>, <<"changedState", "boolean">>>>
    /\ Payload["fakeResultRequest"] = <<<<"generationId", "id">>, <<"jobId", "id">>, <<"resultId", "id">>>>
    /\ Payload["fakeResultResponse"] =
            <<<<"status", "status">>, <<"generationId", "id">>, <<"jobId", "id">>, <<"resultId", "id">>>>
    /\ Payload["errorResponse"] = <<<<"error", "error">>>>
<1>1. DOMAIN Payload = {"helloRequest", "shutdownRequest", "shutdownResponse", "helloResponse",
            "submitJobRequest", "jobAcceptedResponse", "cancelGenerationRequest",
            "cancelGenerationResponse", "fakeResultRequest", "fakeResultResponse", "errorResponse"}
  BY DEF Payload
<1>2. \A t \in {"helloRequest", "shutdownRequest", "shutdownResponse"} : Payload[t] = <<>>
  BY DEF Payload
<1>3. /\ Payload["helloResponse"] = <<<<"capabilities", "capabilities">>>>
      /\ Payload["errorResponse"] = <<<<"error", "error">>>>
  BY DEF Payload
<1>4. Payload["submitJobRequest"] = Ids(<<"generationId", "jobId">>) \o <<<<"job", "job">>>>
  BY DEF Payload
<1>5. Payload["jobAcceptedResponse"] = Ids(<<"generationId", "jobId">>)
  BY DEF Payload
<1>6. Payload["cancelGenerationRequest"] = Ids(<<"generationId">>)
  BY DEF Payload
<1>7. Payload["cancelGenerationResponse"] = Ids(<<"generationId">>) \o <<<<"changedState", "boolean">>>>
  BY DEF Payload
<1>8. Payload["fakeResultRequest"] = Ids(<<"generationId", "jobId", "resultId">>)
  BY DEF Payload
<1>9. Payload["fakeResultResponse"] = <<<<"status", "status">>>>
            \o Ids(<<"generationId", "jobId", "resultId">>)
  BY DEF Payload
<1>10. ASSUME NEW x, NEW y, NEW z PROVE Ids(<<x, y>>) \o <<z>> = <<<<x, "id">>, <<y, "id">>, z>>
  <2>1. Ids(<<x, y>>) \o <<z>> = <<<<x, "id">>, <<y, "id">>>> \o <<z>>
    BY IdsAre, Zenon
  <2>2. <<<<x, "id">>, <<y, "id">>>> \o <<z>> = <<<<x, "id">>, <<y, "id">>, z>>
    BY Concats, Zenon
  <2>3. QED
    BY <2>1, <2>2, Zenon
<1>11. ASSUME NEW x, NEW z PROVE Ids(<<x>>) \o <<z>> = <<<<x, "id">>, z>>
  <2>1. Ids(<<x>>) \o <<z>> = <<<<x, "id">>>> \o <<z>>
    BY IdsAre, Zenon
  <2>2. <<<<x, "id">>>> \o <<z>> = <<<<x, "id">>, z>>
    BY Concats, Zenon
  <2>3. QED
    BY <2>1, <2>2, Zenon
<1>12. ASSUME NEW w, NEW x, NEW y, NEW z
       PROVE  <<z>> \o Ids(<<w, x, y>>) = <<z, <<w, "id">>, <<x, "id">>, <<y, "id">>>>
  <2> DEFINE a == <<w, "id">>
             b == <<x, "id">>
             c == <<y, "id">>
  <2>1. Ids(<<w, x, y>>) = <<a, b, c>>
    BY IdsAre, Zenon
  <2> HIDE DEF a, b, c
  <2>2. <<z>> \o <<a, b, c>> = <<z, a, b, c>>
    BY Concats, Zenon
  <2>3. QED
    BY <2>1, <2>2 DEF a, b, c
<1>13. Payload["submitJobRequest"] = <<<<"generationId", "id">>, <<"jobId", "id">>, <<"job", "job">>>>
  BY ONLY <1>4, <1>10
<1>14. Payload["cancelGenerationResponse"] = <<<<"generationId", "id">>, <<"changedState", "boolean">>>>
  BY ONLY <1>7, <1>11
<1>15. Payload["fakeResultResponse"] =
            <<<<"status", "status">>, <<"generationId", "id">>, <<"jobId", "id">>, <<"resultId", "id">>>>
  BY ONLY <1>9, <1>12
<1>16. /\ Payload["jobAcceptedResponse"] = <<<<"generationId", "id">>, <<"jobId", "id">>>>
       /\ Payload["cancelGenerationRequest"] = <<<<"generationId", "id">>>>
       /\ Payload["fakeResultRequest"] = <<<<"generationId", "id">>, <<"jobId", "id">>, <<"resultId", "id">>>>
  BY ONLY <1>5, <1>6, <1>8, IdsAre
<1>17. QED
  BY <1>1, <1>2, <1>3, <1>13, <1>14, <1>15, <1>16

LEMMA PayloadFacts ==
    ASSUME NEW t \in DOMAIN Payload PROVE OfParts(Payload[t])
<1>1. \A n \in {"generationId", "jobId", "resultId"} : Part(n, "id")
  BY DEF Part, Composite
<1>2. Part("status", "status") /\ Part("changedState", "boolean")
  BY DEF Part, Composite
<1>3. Part("capabilities", "capabilities") /\ Part("error", "error") /\ Part("job", "job")
  BY DEF Part, Composite
<1>4. \A s : s = <<>> => OfParts(s)
  BY DEF OfParts, IsSchema, Names
<1>5. \A s, n, d : s = <<<<n, d>>>> /\ n # "job" /\ Part(n, d) => OfParts(s)
  <2>1. ASSUME NEW s, NEW n, NEW d, s = <<<<n, d>>>>, n # "job", Part(n, d) PROVE OfParts(s)
    <3>1. IsSchema(s) /\ Len(s) = 1 /\ s[1][1] = n /\ s[1][2] = d /\ Names(s) = {n}
      BY <2>1, OneField
    <3>2. QED
      BY <2>1, <3>1 DEF OfParts
  <2>2. QED
    BY <2>1
<1>6. \A s, n, d, m, e : s = <<<<n, d>>, <<m, e>>>> /\ n # "job" /\ Part(n, d) /\ m # "job" /\ Part(m, e)
                           => OfParts(s)
  <2>1. ASSUME NEW s, NEW n, NEW d, NEW m, NEW e, s = <<<<n, d>>, <<m, e>>>>,
               n # "job", Part(n, d), m # "job", Part(m, e)
        PROVE  OfParts(s)
    <3>1. /\ IsSchema(s) /\ Len(s) = 2 /\ s[1][1] = n /\ s[1][2] = d
          /\ s[2][1] = m /\ s[2][2] = e /\ Names(s) = {n, m}
      BY <2>1, TwoFields
    <3>2. QED
      BY <2>1, <3>1 DEF OfParts
  <2>2. QED
    BY <2>1
<1>7. \A s, n, d, m, e, l, c :
         /\ s = <<<<n, d>>, <<m, e>>, <<l, c>>>> /\ Part(n, d) /\ Part(m, e) /\ Part(l, c)
         /\ {n, m, l} = {"generationId", "jobId", "job"} \/ "job" \notin {n, m, l}
         => OfParts(s)
  <2>1. ASSUME NEW s, NEW n, NEW d, NEW m, NEW e, NEW l, NEW c, s = <<<<n, d>>, <<m, e>>, <<l, c>>>>,
               Part(n, d), Part(m, e), Part(l, c),
               {n, m, l} = {"generationId", "jobId", "job"} \/ "job" \notin {n, m, l}
        PROVE  OfParts(s)
    <3>1. /\ Len(s) = 3 /\ DOMAIN s = 1 .. 3 /\ s[1][1] = n /\ s[1][2] = d
          /\ s[2][1] = m /\ s[2][2] = e /\ s[3][1] = l /\ s[3][2] = c
      BY <2>1
    <3>2. Names(s) = {n, m, l}
      BY ONLY <3>1 DEF Names
    <3>3. IsSchema(s) /\ \A k \in 1 .. Len(s) : Part(s[k][1], s[k][2])
      BY <2>1, <3>1 DEF IsSchema
    <3>4. QED
      BY <2>1, <3>2, <3>3 DEF OfParts
  <2>2. QED
    BY <2>1
<1>8. OfParts(Payload["fakeResultResponse"])
  <2> DEFINE s == Payload["fakeResultResponse"]
  <2>1. /\ Len(s) = 4 /\ DOMAIN s = 1 .. 4 /\ s[1] = <<"status", "status">>
        /\ s[2] = <<"generationId", "id">>
        /\ s[3] = <<"jobId", "id">> /\ s[4] = <<"resultId", "id">>
    BY PayloadsAre
  <2> HIDE DEF s
  <2>2. \A k \in 1 .. Len(s) : Part(s[k][1], s[k][2]) /\ s[k][1] # "job"
    BY <1>1, <1>2, <2>1
  <2>3. OfParts(s)
    BY <2>1, <2>2 DEF OfParts, IsSchema, Names
  <2>4. QED
    BY <2>3 DEF s
<1>9. OfParts(Payload["submitJobRequest"])
  <2>1. {"generationId", "jobId", "job"} = {"generationId", "jobId", "job"}
    OBVIOUS
  <2>2. QED
    BY ONLY <1>1, <1>3, <1>7, <2>1, PayloadsAre
<1>10. OfParts(Payload["fakeResultRequest"])
  <2>1. "job" \notin {"generationId", "jobId", "resultId"}
    OBVIOUS
  <2>2. QED
    BY ONLY <1>1, <1>7, <2>1, PayloadsAre
<1>11. /\ OfParts(Payload["jobAcceptedResponse"]) /\ OfParts(Payload["cancelGenerationResponse"])
  BY <1>1, <1>2, <1>6, PayloadsAre
<1>12. /\ OfParts(Payload["helloResponse"]) /\ OfParts(Payload["cancelGenerationRequest"])
       /\ OfParts(Payload["errorResponse"])
  BY <1>1, <1>3, <1>5, PayloadsAre
<1>13. \A u \in {"helloRequest", "shutdownRequest", "shutdownResponse"} : OfParts(Payload[u])
  BY <1>4, PayloadsAre
<1>14. QED
  BY <1>8, <1>9, <1>10, <1>11, <1>12, <1>13, PayloadsAre

LEMMA PartCases ==
    ASSUME NEW name, NEW kind, Part(name, kind)
    PROVE  \/ name = "job" /\ kind = "job"
           \/ name = "capabilities" /\ kind = "capabilities"
           \/ name = "error" /\ kind = "error"
           \/ name \notin Composite /\ kind = "status"
           \/ name \notin Composite /\ kind \in {"id", "boolean"} /\ kind \in Kinds
BY DEF Part, Composite, Kinds

LEMMA SimplePart ==
    ASSUME NEW name, name \notin Composite, NEW v
    PROVE  PartToWire(name, v) = v /\ WireToPart(name, v) = v
BY DEF PartToWire, WireToPart, Composite

LEMMA SimpleKind ==
    ASSUME NEW kind \in {"id", "boolean"}, NEW v
    PROVE  CheckPart(kind, v) = RequireField(kind, v) /\ CheckWirePart(kind, v) = RequireField(kind, v)
BY DEF CheckPart, CheckWirePart

(* Python's equality with a string is equality. *)
LEMMA AbilitiesAre ==
    /\ Abilities.protocolVersion = Num(1) /\ Abilities.workerIdentity = Word("fakeWorker")
    /\ {"protocolVersion", "workerIdentity"} \subseteq DOMAIN Abilities
    /\ DOMAIN Abilities = Flags \union {"protocolVersion", "workerIdentity"}
BY DEF Abilities, Flags

LEMMA CapabilitiesAre ==
    ASSUME NEW f, CheckCapabilities(f) = "ok"
    PROVE  /\ f.workerIdentity = Word("fakeWorker")
           /\ IsA("int", f.protocolVersion) => f.protocolVersion = Num(1)
           /\ \A n \in Flags : IsA("bool", f[n])
<1> DEFINE a == Require(\A n \in DOMAIN Abilities : PythonEqual(f[n], Abilities[n]), "invalidFieldValue")
           b == Require(\A n \in Flags : IsA("bool", f[n]), "invalidFieldType")
<1>1. CheckCapabilities(f) = FirstFailure(<<a, b>>)
  BY Zenon DEF CheckCapabilities
<1>2. a = "ok" /\ b = "ok"
  <2> HIDE DEF a, b
  <2>1. QED
    BY <1>1, FirstOfTwo
<1>3. \A n \in Flags : IsA("bool", f[n])
  BY <1>2 DEF Require
<1>4. \A n \in DOMAIN Abilities : PythonEqual(f[n], Abilities[n])
  BY <1>2 DEF Require
<1>5. PythonEqual(f.workerIdentity, Word("fakeWorker")) /\ PythonEqual(f.protocolVersion, Num(1))
  BY <1>4, AbilitiesAre
<1>6. \A v : Number(v) \in {Num(1), Num(0), v}
  BY DEF Number
<1>7. Word("fakeWorker")[1] = "str" /\ Num(1)[1] = "int" /\ Num(0)[1] = "int" /\ Num(1) # Num(0)
  BY DEF Word, Str, Num
<1>8. \A b1 : Bool(b1)[1] = "bool"
  BY DEF Bool
<1>9. Float("one")[1] = "float"
  BY DEF Float
<1>10. \A v : v[1] \notin {"bool", "float"} => Number(v) = v
  <2>1. ASSUME NEW v, v[1] \notin {"bool", "float"} PROVE Number(v) = v
    <3>1. v # Bool(TRUE) /\ v # Bool(FALSE) /\ v # Float("one")
      BY <1>8, <1>9, <2>1, Zenon
    <3>2. QED
      BY <3>1, Zenon DEF Number
  <2>2. QED
    BY <2>1
<1>11. Number(Word("fakeWorker")) = Word("fakeWorker") /\ Number(Num(1)) = Num(1)
  BY <1>7, <1>10
<1>12. f.workerIdentity = Word("fakeWorker")
  BY <1>5, <1>6, <1>7, <1>11 DEF PythonEqual
<1>13. IsA("int", f.protocolVersion) => f.protocolVersion = Num(1)
  BY <1>5, <1>10, <1>11 DEF PythonEqual, IsA
<1>14. QED
  BY <1>3, <1>12, <1>13

LEMMA CapabilitiesAreDecoded ==
    ASSUME NEW f, HasFields(f, DOMAIN Abilities), IsA("int", f.protocolVersion), CheckCapabilities(f) = "ok"
    PROVE  CheckWireCapabilities(Dict(f)) = "ok"
<1> DEFINE w == Dict(f)
<1>1. IsA("dict", w) /\ w[2] = f /\ DOMAIN f = DOMAIN Abilities
  BY DEF Dict, IsA, HasFields
<1>2. RequireExactFields(w, DOMAIN Abilities) = "ok"
  BY <1>1 DEF RequireExactFields, Require
<1>3. f.workerIdentity = Word("fakeWorker") /\ f.protocolVersion = Num(1) /\ \A n \in Flags :
          IsA("bool", f[n])
  BY CapabilitiesAre
<1>4. 1 \in 1 .. MaxId /\ 1 <= Limits["error"]
  BY CodecAssumption
<1>5. RequireField("id", f.protocolVersion) = "ok"
  BY <1>3, <1>4 DEF RequireField, Typed, Require, IsA, Num
<1>6. RequireString(f.workerIdentity, Limits["error"]) = "ok"
  BY <1>3, <1>4 DEF RequireString, Require, IsA, Word, Str
<1>7. Require(\A n \in Flags : IsA("bool", f[n]), "invalidFieldType") = "ok"
  BY <1>3 DEF Require
<1> DEFINE c == Require(\A n \in Flags : IsA("bool", f[n]), "invalidFieldType")
<1>8. CheckWireCapabilities(w) =
        FirstFailure(<<RequireField("id", f.protocolVersion), RequireString(f.workerIdentity, Limits["error"]),
                       c, CheckCapabilities(f)>>)
  <2> HIDE DEF w
  <2>1. QED
    BY <1>1, <1>2, Zenon DEF CheckWireCapabilities
<1> HIDE DEF c
<1>9. c = "ok"
  BY <1>7, Zenon DEF c
<1>10. QED
  BY <1>5, <1>6, <1>8, <1>9, FirstOfFour

LEMMA CapabilitiesAreEncoded ==
    ASSUME NEW w, CheckWireCapabilities(w) = "ok"
    PROVE  CheckCapabilities(w[2]) = "ok" /\ IsA("dict", w)
<1> DEFINE f == w[2]
           c == Require(\A n \in Flags : IsA("bool", f[n]), "invalidFieldType")
           a == RequireField("id", f.protocolVersion)
           b == RequireString(f.workerIdentity, Limits["error"])
           d == CheckCapabilities(f)
           e == RequireExactFields(w, DOMAIN Abilities)
<1>1. CheckWireCapabilities(w) = IF e # "ok" THEN e ELSE FirstFailure(<<a, b, c, d>>)
  BY Zenon DEF CheckWireCapabilities
<1> HIDE DEF a, b, c, d, e
<1>2. e = "ok" /\ FirstFailure(<<a, b, c, d>>) = "ok"
  BY <1>1
<1>3. d = "ok"
  BY <1>2, FirstOfFour
<1>4. QED
  BY <1>2, <1>3 DEF d, e, RequireExactFields, Require

LEMMA ErrorChecks ==
    ASSUME NEW f
    PROVE  CheckPart("error", Object(f)) = "ok"
             <=> f.code[2] \in ErrorCodes /\ RequireField("error", f.message) = "ok"
<1> DEFINE a == Require(f.code[2] \in ErrorCodes, "invalidFieldType")
           b == Require(RequireField("error", f.message) = "ok", "invalidFieldValue")
<1>1. CheckPart("error", Object(f)) = FirstFailure(<<a, b>>)
  BY DEF CheckPart, Object
<1>2. FirstFailure(<<a, b>>) = "ok" <=> a = "ok" /\ b = "ok"
  <2> HIDE DEF a, b
  <2>1. QED
    BY FirstOfTwo
<1>3. a = "ok" <=> f.code[2] \in ErrorCodes
  BY DEF Require
<1>4. b = "ok" <=> RequireField("error", f.message) = "ok"
  BY DEF Require
<1> HIDE DEF a, b
<1>5. QED
  BY ONLY <1>1, <1>2, <1>3, <1>4

LEMMA WireErrorChecks ==
    ASSUME NEW w
    PROVE  CheckWireError(w) = "ok"
             <=> /\ IsA("dict", w) /\ DOMAIN w[2] = {"code", "message"}
                 /\ IsA("str", w[2].code) /\ w[2].code[2] \in ErrorCodes
                 /\ RequireField("error", w[2].message) = "ok"
<1> DEFINE a == OneOf(w[2].code, ErrorCodes)
           b == RequireField("error", w[2].message)
           e == RequireExactFields(w, {"code", "message"})
<1>1. CheckWireError(w) = IF e # "ok" THEN e ELSE FirstFailure(<<a, b>>)
  BY Zenon DEF CheckWireError
<1>2. e = "ok" <=> IsA("dict", w) /\ DOMAIN w[2] = {"code", "message"}
  BY DEF RequireExactFields, Require
<1>3. a = "ok" <=> IsA("str", w[2].code) /\ w[2].code[2] \in ErrorCodes
  BY DEF OneOf, Require
<1> HIDE DEF a, e
<1>4. FirstFailure(<<a, b>>) = "ok" <=> a = "ok" /\ b = "ok"
  <2> HIDE DEF b
  <2>1. QED
    BY FirstOfTwo
<1>5. QED
  BY <1>1, <1>2, <1>3, <1>4

LEMMA PartIsDecoded ==
    ASSUME NEW name, NEW kind, Part(name, kind), NEW v, IsPartObject(kind, v), CheckPart(kind, v) = "ok"
    PROVE  /\ CheckWirePart(kind, PartToWire(name, v)) = "ok"
           /\ WireToPart(name, PartToWire(name, v)) = v
<1>1. CASE name = "job" /\ kind = "job"
  <2> DEFINE j == v[2]
             w == JobToWire(j)
  <2>1. v = Object(j) /\ IsJobObject(j) /\ CheckJob(j) = "ok"
    BY <1>1 DEF IsPartObject, CheckPart
  <2>2. CheckWireJob(w) = "ok" /\ WireToJob(w) = j
    BY <2>1, JobIsDecoded
  <2>3. PartToWire(name, v) = w /\ CheckWirePart(kind, w) = CheckWireJob(w)
        /\ WireToPart(name, w) = Object(WireToJob(w))
    BY <1>1 DEF PartToWire, CheckWirePart, WireToPart
  <2>4. QED
    BY <2>1, <2>2, <2>3
<1>2. CASE name = "capabilities" /\ kind = "capabilities"
  <2> DEFINE f == v[2]
             w == Dict(f)
  <2>1. /\ v = Object(f) /\ HasFields(f, DOMAIN Abilities) /\ IsA("int", f.protocolVersion)
        /\ CheckCapabilities(f) = "ok"
    BY <1>2 DEF IsPartObject, CheckPart
  <2>2. CheckWireCapabilities(w) = "ok"
    BY <2>1, CapabilitiesAreDecoded
  <2>3. PartToWire(name, v) = w /\ CheckWirePart(kind, w) = CheckWireCapabilities(w)
        /\ WireToPart(name, w) = Object(f)
    BY <1>2 DEF PartToWire, CheckWirePart, WireToPart, Dict
  <2>4. QED
    BY <2>1, <2>2, <2>3
<1>3. CASE name = "error" /\ kind = "error"
  <2> DEFINE f == v[2]
             w == Dict(f)
  <2>1. v = Object(f) /\ HasFields(f, {"code", "message"}) /\ IsA("str", f.code)
    BY <1>3 DEF IsPartObject
  <2>2. f.code[2] \in ErrorCodes /\ RequireField("error", f.message) = "ok"
    BY <1>3, <2>1, ErrorChecks
  <2>3. IsA("dict", w) /\ w[2] = f /\ DOMAIN f = {"code", "message"}
    BY <2>1 DEF IsA, Dict, HasFields
  <2>4. CheckWireError(w) = "ok"
    BY <2>1, <2>2, <2>3, WireErrorChecks
  <2>5. PartToWire(name, v) = w /\ CheckWirePart(kind, w) = CheckWireError(w)
        /\ WireToPart(name, w) = Object(f)
    BY <1>3 DEF PartToWire, CheckWirePart, WireToPart, Dict
  <2>6. QED
    BY <2>1, <2>4, <2>5
<1>4. CASE name \notin Composite /\ kind = "status"
  <2>1. IsA("str", v) /\ v[2] \in ResultStatuses
    BY <1>4 DEF IsPartObject, CheckPart, Require
  <2>2. CheckWirePart(kind, v) = "ok"
    BY <1>4, <2>1 DEF CheckWirePart, OneOf, Require
  <2>3. QED
    BY <1>4, <2>2, SimplePart
<1>5. CASE name \notin Composite /\ kind \in {"id", "boolean"}
  BY <1>5, SimplePart, SimpleKind
<1>6. QED
  BY <1>1, <1>2, <1>3, <1>4, <1>5, PartCases

LEMMA PartIsEncoded ==
    ASSUME NEW name, NEW kind, Part(name, kind), NEW w, CheckWirePart(kind, w) = "ok", Json3(w)
    PROVE  /\ CheckPart(kind, WireToPart(name, w)) = "ok"
           /\ PartToWire(name, WireToPart(name, w)) = w
<1>0. \A f : Object(f)[2] = f
  BY DEF Object
<1>1. CASE name = "job" /\ kind = "job"
  <2> DEFINE j == WireToJob(w)
  <2>1. CheckWireJob(w) = "ok"
    BY <1>1 DEF CheckWirePart
  <2>2. CheckJob(j) = "ok" /\ JobToWire(j) = w
    BY <2>1, JobIsEncoded
  <2>3. WireToPart(name, w) = Object(j)
    BY <1>1 DEF WireToPart
  <2> HIDE DEF j
  <2>4. CheckPart(kind, Object(j)) = CheckJob(j) /\ PartToWire(name, Object(j)) = JobToWire(j)
    BY <1>0, <1>1 DEF CheckPart, PartToWire
  <2>5. QED
    BY <2>2, <2>3, <2>4
<1>2. CASE name = "capabilities" /\ kind = "capabilities"
  <2> DEFINE f == w[2]
  <2>1. CheckWireCapabilities(w) = "ok"
    BY <1>2 DEF CheckWirePart
  <2>2. CheckCapabilities(f) = "ok" /\ IsA("dict", w)
    BY <2>1, CapabilitiesAreEncoded
  <2>3. WireToPart(name, w) = Object(f) /\ w = Dict(f)
    BY <1>2, <2>2, JsonDict DEF WireToPart, Json3
  <2> HIDE DEF f
  <2>4. CheckPart(kind, Object(f)) = CheckCapabilities(f) /\ PartToWire(name, Object(f)) = Dict(f)
    BY <1>0, <1>2 DEF CheckPart, PartToWire
  <2>5. QED
    BY <2>2, <2>3, <2>4
<1>3. CASE name = "error" /\ kind = "error"
  <2> DEFINE f == w[2]
  <2>1. CheckWireError(w) = "ok"
    BY <1>3 DEF CheckWirePart
  <2>2. /\ IsA("dict", w) /\ f.code[2] \in ErrorCodes /\ RequireField("error", f.message) = "ok"
    BY <2>1, WireErrorChecks
  <2>3. WireToPart(name, w) = Object(f) /\ w = Dict(f)
    BY <1>3, <2>2, JsonDict DEF WireToPart, Json3
  <2> HIDE DEF f
  <2>4. CheckPart(kind, Object(f)) = "ok" /\ PartToWire(name, Object(f)) = Dict(f)
    BY <1>0, <1>3, <2>2, ErrorChecks DEF PartToWire
  <2>5. QED
    BY <2>3, <2>4
<1>4. CASE name \notin Composite /\ kind = "status"
  <2>1. w[2] \in ResultStatuses
    BY <1>4 DEF CheckWirePart, OneOf, Require
  <2>2. CheckPart(kind, w) = "ok"
    BY <1>4, <2>1 DEF CheckPart, Require
  <2>3. QED
    BY <1>4, <2>2, SimplePart
<1>5. CASE name \notin Composite /\ kind \in {"id", "boolean"}
  BY <1>5, SimplePart, SimpleKind
<1>6. QED
  BY <1>1, <1>2, <1>3, <1>4, <1>5, PartCases

(* A part of simple values is one container. *)
LEMMA DictIsFlat ==
    ASSUME NEW x, IsAtom(x), NEW f, \A n \in DOMAIN f : Flat(x, f[n])
    PROVE  Flat3(x, Dict(f))
<1> DEFINE w == Dict(f)
<1>1. w[1] = "dict" /\ w[2] = f
  BY DEF Dict
<1> HIDE DEF w
<1>2. IsContainer(w) /\ w # x
  BY <1>1 DEF IsContainer, IsAtom
<1>3. \A c \in Children(w) : Flat(x, c)
  BY <1>1, <1>2, ChildrenAre
<1>4. Flat3(x, w)
  BY <1>2, <1>3, FlatIsFlatter DEF Flat3
<1>5. QED
  BY <1>4 DEF w

LEMMA InfiniteIsAtom == IsAtom(Infinite)
BY DEF IsAtom, IsContainer, Infinite, Float, Word, Str

LEMMA PartIsFlat ==
    ASSUME NEW name, NEW kind, Part(name, kind), NEW v, IsPartObject(kind, v), CheckPart(kind, v) = "ok"
    PROVE  Flat3(Infinite, PartToWire(name, v))
<1>0. /\ \A u : IsA("int", u) \/ IsA("str", u) \/ IsA("bool", u) => Flat(Infinite, u)
      /\ \A u : Flat(Infinite, u) => Flat3(Infinite, u)
  BY FlatIsFlatter DEF Flat, IsA, Infinite, Float, IsContainer
<1>1. CASE name = "job" /\ kind = "job"
  <2> DEFINE j == v[2]
  <2>1. v = Object(j) /\ IsJobObject(j) /\ CheckJob(j) = "ok"
    BY <1>1 DEF IsPartObject, CheckPart
  <2>2. PartToWire(name, v) = JobToWire(j)
    BY <1>1 DEF PartToWire
  <2> HIDE DEF j
  <2>3. /\ RequireFields(j, JobSchema) = "ok" /\ RequireField("natural", j.rate) = "ok"
        /\ DOMAIN j.items = 1 .. Len(j.items)
        /\ \A k \in 1 .. Len(j.items) : IsItemObject(j.items[k]) /\ CheckItem(j.items[k]) = "ok"
    BY <2>1, JobIsChecked
  <2>4. \A n \in JobFields \ {"items"} : Flat(Infinite, j[n])
    BY <2>3, IdentifiersAreFlat
  <2>5. \A k \in DOMAIN j.items : \A n \in DOMAIN j.items[k] \ {"type"} : Flat(Infinite, j.items[k][n])
    BY <2>3, ItemIsFlat
  <2>6. Flat3(Infinite, JobToWire(j))
    BY <2>1, <2>4, <2>5, JobIsFlat, InfiniteIsAtom
  <2>7. QED
    BY <2>2, <2>6
<1>2. CASE name = "capabilities" /\ kind = "capabilities"
  <2> DEFINE f == v[2]
  <2>1. /\ HasFields(f, DOMAIN Abilities) /\ IsA("int", f.protocolVersion) /\ CheckCapabilities(f) = "ok"
    BY <1>2 DEF IsPartObject, CheckPart
  <2>2. PartToWire(name, v) = Dict(f)
    BY <1>2 DEF PartToWire
  <2> HIDE DEF f
  <2>3. f.workerIdentity = Word("fakeWorker") /\ \A n \in Flags : IsA("bool", f[n])
    BY <2>1, CapabilitiesAre
  <2>4. IsA("str", f.workerIdentity)
    BY <2>3 DEF IsA, Word, Str
  <2>5. \A n \in DOMAIN f : Flat(Infinite, f[n])
    BY <1>0, <2>1, <2>3, <2>4, AbilitiesAre DEF HasFields
  <2>6. QED
    BY <2>2, <2>5, DictIsFlat, InfiniteIsAtom
<1>3. CASE name = "error" /\ kind = "error"
  <2> DEFINE f == v[2]
  <2>1. v = Object(f) /\ DOMAIN f = {"code", "message"} /\ IsA("str", f.code)
    BY <1>3 DEF IsPartObject, HasFields
  <2>2. RequireField("error", f.message) = "ok"
    BY <1>3, <2>1, ErrorChecks
  <2>3. PartToWire(name, v) = Dict(f)
    BY <1>3 DEF PartToWire
  <2> HIDE DEF f
  <2>4. Flat(Infinite, f.message)
    BY <2>2, CheckedIsFlat DEF Kinds
  <2>5. \A n \in DOMAIN f : Flat(Infinite, f[n])
    BY <1>0, <2>1, <2>4
  <2>6. QED
    BY <2>3, <2>5, DictIsFlat, InfiniteIsAtom
<1>4. CASE name \notin Composite /\ kind = "status"
  <2>1. IsA("str", v)
    BY <1>4 DEF IsPartObject
  <2>2. QED
    BY <1>0, <1>4, <2>1, SimplePart
<1>5. CASE name \notin Composite /\ kind \in {"id", "boolean"} /\ kind \in Kinds
  <2>1. RequireField(kind, v) = "ok"
    BY <1>5, SimpleKind
  <2>2. Flat(Infinite, v)
    BY <1>5, <2>1, CheckedIsFlat
  <2>3. QED
    BY <1>0, <1>5, <2>2, SimplePart
<1>6. QED
  BY <1>1, <1>2, <1>3, <1>4, <1>5, PartCases
-----------------------------------------------------------------------------
(* Messages. *)

LEMMA EnvelopeChecks ==
    ASSUME NEW e
    PROVE  /\ CheckEnvelope(e) = "ok"
                <=> /\ e.protocolVersion = Num(1) /\ e.messageType = e.class
                    /\ RequireFields(e, EnvelopeIds) = "ok"
           /\ e.protocolVersion = Num(1) /\ e.messageType = e.class
                => CheckEnvelope(e) \in {"ok", RequireFields(e, EnvelopeIds)}
<1> DEFINE a == Typed("int", e.protocolVersion, TRUE)
           b == Require(e.protocolVersion = Num(1), "unsupportedProtocolVersion")
           c == Require(e.messageType = e.class, "invalidFieldValue")
           d == RequireFields(e, EnvelopeIds)
<1>1. CheckEnvelope(e) = FirstFailure(<<a, b, c, d>>)
  BY Zenon DEF CheckEnvelope
<1>2. a = "ok" <=> IsA("int", e.protocolVersion)
  BY DEF Typed, Require
<1>3. b = "ok" <=> e.protocolVersion = Num(1)
  BY DEF Require
<1>4. c = "ok" <=> e.messageType = e.class
  BY DEF Require
<1>5. e.protocolVersion = Num(1) => IsA("int", e.protocolVersion)
  BY DEF IsA, Num
<1> HIDE DEF a, b, c, d
<1>6. /\ FirstFailure(<<a, b, c, d>>) = "ok" <=> a = "ok" /\ b = "ok" /\ c = "ok" /\ d = "ok"
      /\ FirstFailure(<<a, b, c, d>>) \in {"ok", a, b, c, d}
  BY FirstOfFour
<1>7. QED
  BY <1>1, <1>2, <1>3, <1>4, <1>5, <1>6 DEF d

(* The parts of a payload, each of them checked. *)
LEMMA PartsAreChecked ==
    ASSUME NEW s, IsSchema(s), NEW p
    PROVE  LET c == FirstFailure([k \in 1 .. Len(s) |-> CheckPart(s[k][2], p[s[k][1]])])
           IN /\ c = "ok" <=> \A k \in 1 .. Len(s) : CheckPart(s[k][2], p[s[k][1]]) = "ok"
              /\ c # "ok" => \E k \in 1 .. Len(s) : /\ CheckPart(s[k][2], p[s[k][1]]) # "ok"
                                                    /\ c = CheckPart(s[k][2], p[s[k][1]])
<1> DEFINE N == Len(s)
           d == [k \in 1 .. N |-> CheckPart(s[k][2], p[s[k][1]])]
<1>1. N \in Nat /\ DOMAIN d = 1 .. N
  BY DEF IsSchema
<1>2. \A k \in 1 .. N : d[k] = CheckPart(s[k][2], p[s[k][1]])
  OBVIOUS
<1> HIDE DEF N, d
<1>3. /\ FirstFailure(d) = "ok" <=> \A k \in 1 .. N : d[k] = "ok"
      /\ FirstFailure(d) # "ok" => \E k \in 1 .. N : d[k] # "ok" /\ FirstFailure(d) = d[k]
  BY ONLY <1>1, FirstFailureIs
<1>4. /\ FirstFailure(d) = "ok" <=> \A k \in 1 .. N : CheckPart(s[k][2], p[s[k][1]]) = "ok"
      /\ FirstFailure(d) # "ok" => \E k \in 1 .. N : /\ CheckPart(s[k][2], p[s[k][1]]) # "ok"
                                                     /\ FirstFailure(d) = CheckPart(s[k][2], p[s[k][1]])
  BY ONLY <1>2, <1>3
<1>5. QED
  BY <1>4 DEF N, d

LEMMA WirePartsAreChecked ==
    ASSUME NEW s, IsSchema(s), NEW p
    PROVE  FirstFailure([k \in 1 .. Len(s) |-> CheckWirePart(s[k][2], p[s[k][1]])]) = "ok"
             <=> \A k \in 1 .. Len(s) : CheckWirePart(s[k][2], p[s[k][1]]) = "ok"
<1> DEFINE N == Len(s)
           d == [k \in 1 .. N |-> CheckWirePart(s[k][2], p[s[k][1]])]
<1>1. N \in Nat /\ DOMAIN d = 1 .. N
  BY DEF IsSchema
<1>2. \A k \in 1 .. N : d[k] = CheckWirePart(s[k][2], p[s[k][1]])
  OBVIOUS
<1> HIDE DEF N, d
<1>3. FirstFailure(d) = "ok" <=> \A k \in 1 .. N : d[k] = "ok"
  BY ONLY <1>1, FirstFailureIs
<1>4. FirstFailure(d) = "ok" <=> \A k \in 1 .. N : CheckWirePart(s[k][2], p[s[k][1]]) = "ok"
  BY ONLY <1>2, <1>3
<1>5. QED
  BY <1>4 DEF N, d

(* All that the encoder asks of a message. *)
LEMMA MessageChecks ==
    ASSUME NEW m, m.class \in DOMAIN Payload
    PROVE  LET s == Payload[m.class]
               c == FirstFailure([k \in 1 .. Len(s) |-> CheckPart(s[k][2], m.payload[s[k][1]])])
           IN /\ CheckMessage(m) = "ok" <=>
                    /\ m.protocolVersion = Num(1) /\ m.messageType = m.class
                    /\ RequireFields(m, EnvelopeIds) = "ok"
                    /\ \A k \in 1 .. Len(s) : CheckPart(s[k][2], m.payload[s[k][1]]) = "ok"
                    /\ MatchingIds(m.payload) = "ok"
              /\ CheckMessage(m) \in {"ok", CheckEnvelope(m), c, MatchingIds(m.payload)}
<1> DEFINE s == Payload[m.class]
           a == CheckEnvelope(m)
           c == FirstFailure([k \in 1 .. Len(s) |-> CheckPart(s[k][2], m.payload[s[k][1]])])
           d == MatchingIds(m.payload)
<1>1. CheckMessage(m) = FirstFailure(<<a, c, d>>)
  BY Zenon DEF CheckMessage
<1>2. a = "ok" <=> /\ m.protocolVersion = Num(1) /\ m.messageType = m.class
                   /\ RequireFields(m, EnvelopeIds) = "ok"
  BY EnvelopeChecks
<1>3. c = "ok" <=> \A k \in 1 .. Len(s) : CheckPart(s[k][2], m.payload[s[k][1]]) = "ok"
  <2>1. IsSchema(s)
    BY PayloadFacts DEF OfParts
  <2> HIDE DEF s
  <2>2. QED
    BY <2>1, PartsAreChecked
<1> HIDE DEF a, c, d, s
<1>4. /\ FirstFailure(<<a, c, d>>) = "ok" <=> a = "ok" /\ c = "ok" /\ d = "ok"
      /\ FirstFailure(<<a, c, d>>) \in {"ok", a, c, d}
  BY FirstOfThree
<1>5. CheckMessage(m) = "ok" <=>
        /\ m.protocolVersion = Num(1) /\ m.messageType = m.class
        /\ RequireFields(m, EnvelopeIds) = "ok"
        /\ \A k \in 1 .. Len(s) : CheckPart(s[k][2], m.payload[s[k][1]]) = "ok"
        /\ d = "ok"
  BY ONLY <1>1, <1>2, <1>3, <1>4
<1>6. CheckMessage(m) \in {"ok", a, c, d}
  BY ONLY <1>1, <1>4
<1>7. QED
  BY <1>5, <1>6 DEF a, c, d, s

(* And the decoder of a document. *)
LEMMA WireEnvelopeChecks ==
    ASSUME NEW root
    PROVE  LET f == root[2]
           IN CheckWireEnvelope(root) = "ok" <=>
                /\ IsA("dict", root) /\ DOMAIN f = RootFields /\ f.protocolVersion = Num(1)
                /\ IsA("str", f.messageType) /\ f.messageType[2] \in DOMAIN Payload
                /\ RequireFields(f, EnvelopeIds) = "ok" /\ IsA("dict", f.payload)
<1> DEFINE f == root[2]
           exact == RequireExactFields(root, RootFields)
           a == Typed("int", f.protocolVersion, TRUE)
           b == Require(f.protocolVersion = Num(1), "unsupportedProtocolVersion")
           c == Require(IsA("str", f.messageType), "invalidFieldType")
           d == Require(IsA("str", f.messageType) => f.messageType[2] \in DOMAIN Payload,
                        "unknownMessageType")
           e == RequireFields(f, EnvelopeIds)
           g == Require(IsA("dict", f.payload), "invalidFieldType")
<1>1. CheckWireEnvelope(root) = IF exact # "ok" THEN exact ELSE FirstFailure(<<a, b, c, d, e, g>>)
  BY Zenon DEF CheckWireEnvelope
<1>2. exact = "ok" <=> IsA("dict", root) /\ DOMAIN f = RootFields
  BY DEF RequireExactFields, Require
<1>3. a = "ok" <=> IsA("int", f.protocolVersion)
  BY DEF Typed, Require
<1>4. b = "ok" <=> f.protocolVersion = Num(1)
  BY DEF Require
<1>5. f.protocolVersion = Num(1) => IsA("int", f.protocolVersion)
  BY DEF IsA, Num
<1>6. c = "ok" <=> IsA("str", f.messageType)
  BY DEF Require
<1>7. d = "ok" <=> (IsA("str", f.messageType) => f.messageType[2] \in DOMAIN Payload)
  BY DEF Require
<1>8. g = "ok" <=> IsA("dict", f.payload)
  BY DEF Require
<1> HIDE DEF exact, a, b, c, d, g
<1>9. FirstFailure(<<a, b, c, d, e, g>>) = "ok" <=>
        a = "ok" /\ b = "ok" /\ c = "ok" /\ d = "ok" /\ e = "ok" /\ g = "ok"
  <2> HIDE DEF e
  <2>1. QED
    BY FirstOfSix
<1>10. QED
  BY <1>1, <1>2, <1>3, <1>4, <1>5, <1>6, <1>7, <1>8, <1>9

LEMMA WireMessageChecks ==
    ASSUME NEW root, root[2].messageType[2] \in DOMAIN Payload
    PROVE  LET p == root[2].payload[2]
               s == Payload[root[2].messageType[2]]
           IN CheckWireMessage(root) = "ok" <=>
                /\ CheckWireEnvelope(root) = "ok"
                /\ IsA("dict", root[2].payload) /\ DOMAIN p = Names(s)
                /\ \A k \in 1 .. Len(s) : CheckWirePart(s[k][2], p[s[k][1]]) = "ok"
                /\ MatchingIds(p) = "ok"
<1> DEFINE p == root[2].payload[2]
           s == Payload[root[2].messageType[2]]
           a == CheckWireEnvelope(root)
           b == RequireExactFields(root[2].payload, Names(s))
           c == FirstFailure([k \in 1 .. Len(s) |-> CheckWirePart(s[k][2], p[s[k][1]])])
           d == MatchingIds(p)
<1>1. CheckWireMessage(root) =
        IF a # "ok" THEN a ELSE IF b # "ok" THEN b ELSE IF c # "ok" THEN c ELSE d
  BY Zenon DEF CheckWireMessage
<1>2. b = "ok" <=> IsA("dict", root[2].payload) /\ DOMAIN p = Names(s)
  BY DEF RequireExactFields, Require
<1>3. c = "ok" <=> \A k \in 1 .. Len(s) : CheckWirePart(s[k][2], p[s[k][1]]) = "ok"
  <2>1. IsSchema(s)
    BY PayloadFacts DEF OfParts
  <2> HIDE DEF s, p
  <2>2. QED
    BY <2>1, WirePartsAreChecked
<1> HIDE DEF a, b, c, d
<1>4. CheckWireMessage(root) = "ok" <=> a = "ok" /\ b = "ok" /\ c = "ok" /\ d = "ok"
  BY ONLY <1>1
<1>5. QED
  BY <1>2, <1>3, <1>4 DEF a, d

(* The ids of a request and those of its job are the same on the wire. *)
LEMMA IdsOnTheWire ==
    ASSUME NEW s, OfParts(s), NEW p, DOMAIN p = Names(s),
           NEW q, DOMAIN q = Names(s), \A n \in Names(s) : q[n] = PartToWire(n, p[n]),
           "job" \in Names(s) => {"generationId", "jobId", "items"} \subseteq DOMAIN p["job"][2]
    PROVE  MatchingIds(q) = MatchingIds(p)
<1>1. CASE "job" \notin Names(s)
  BY <1>1 DEF MatchingIds, Require
<1>2. CASE "job" \in Names(s)
  <2>1. {"generationId", "jobId"} \subseteq Names(s)
    BY <1>2 DEF OfParts
  <2>2. q.generationId = p.generationId /\ q.jobId = p.jobId
    BY <2>1, SimplePart DEF Composite
  <2> DEFINE j == p.job[2]
             i == List([k \in 1 .. Len(j.items) |-> ItemToWire(j.items[k])])
  <2>3. q.job = Dict([j EXCEPT !.items = i])
    BY <1>2 DEF PartToWire, JobToWire
  <2> HIDE DEF i
  <2>4. q.job[2] = [j EXCEPT !.items = i]
    BY <2>3 DEF Dict
  <2>5. q.job[2].generationId = j.generationId /\ q.job[2].jobId = j.jobId
    BY <1>2, <2>4
  <2>6. QED
    BY <1>2, <2>2, <2>5 DEF MatchingIds
<1>3. QED
  BY <1>1, <1>2

(* A message is on the wire what it is in the program, but for its type and payload. *)
LEMMA WireIs ==
    ASSUME NEW m, IsMessageObject(m)
    PROVE  LET w == MessageToWire(m)
               s == Payload[m.class]
               q == w[2].payload[2]
           IN /\ {m.class, m.messageType} \subseteq DOMAIN Payload /\ OfParts(s)
              /\ DOMAIN m = MessageFields /\ m = [n \in MessageFields |-> m[n]]
              /\ DOMAIN m.payload = Names(s) /\ m.payload = [n \in Names(s) |-> m.payload[n]]
              /\ IsA("dict", w) /\ DOMAIN w[2] = RootFields /\ w[2] = [n \in RootFields |-> w[2][n]]
              /\ w[2].messageType = Word(m.messageType) /\ w[2].payload = Dict(q)
              /\ \A n \in RootFields \ {"messageType", "payload"} : w[2][n] = m[n]
              /\ DOMAIN q = Names(s) /\ \A n \in Names(s) : q[n] = PartToWire(n, m.payload[n])
<1> DEFINE s == Payload[m.class]
           p == m.payload
           q == [n \in DOMAIN p |-> PartToWire(n, p[n])]
           f == [n \in RootFields |-> CASE n = "messageType" -> Word(m[n])
                                       [] n = "payload" -> Dict(q)
                                       [] OTHER -> m[n]]
<1>1. /\ {m.class, m.messageType} \subseteq DOMAIN Payload
      /\ DOMAIN m = MessageFields /\ m = [n \in MessageFields |-> m[n]]
      /\ DOMAIN p = Names(s) /\ p = [n \in Names(s) |-> p[n]]
  BY DEF IsMessageObject, HasFields
<1>2. OfParts(s)
  BY <1>1, PayloadFacts
<1>3. MessageToWire(m) = Dict(f)
  BY DEF MessageToWire
<1>4. DOMAIN q = Names(s) /\ \A n \in Names(s) : q[n] = PartToWire(n, p[n])
  BY <1>1
<1> HIDE DEF q
<1>5. {"messageType", "payload"} \subseteq RootFields
  BY DEF RootFields
<1>6. /\ DOMAIN f = RootFields /\ f = [n \in RootFields |-> f[n]]
      /\ f.messageType = Word(m.messageType) /\ f.payload = Dict(q)
      /\ \A n \in RootFields \ {"messageType", "payload"} : f[n] = m[n]
  BY <1>5
<1>7. Dict(f)[1] = "dict" /\ Dict(f)[2] = f /\ Dict(q)[2] = q
  BY DEF Dict
<1> HIDE DEF f
<1>8. QED
  BY <1>1, <1>2, <1>3, <1>4, <1>6, <1>7 DEF IsA

LEMMA EnvelopeOnTheWire ==
    ASSUME NEW m, NEW f, \A n \in RootFields \ {"messageType", "payload"} : f[n] = m[n]
    PROVE  /\ RequireFields(f, EnvelopeIds) = RequireFields(m, EnvelopeIds)
           /\ f.protocolVersion = m.protocolVersion
<1>1. /\ f.sessionId = m.sessionId /\ f.sequenceNumber = m.sequenceNumber
      /\ f.requestId = m.requestId /\ f.protocolVersion = m.protocolVersion
  BY DEF RootFields
<1>2. \A k \in 1 .. Len(EnvelopeIds) : f[EnvelopeIds[k][1]] = m[EnvelopeIds[k][1]]
  BY <1>1, EnvelopeFacts
<1>3. QED
  BY <1>1, <1>2, FieldsOnly

(* The ids of a job are fields of it. *)
LEMMA JobHasIds ==
    ASSUME NEW m, IsMessageObject(m), "job" \in Names(Payload[m.class])
    PROVE  {"generationId", "jobId", "items"} \subseteq DOMAIN m.payload["job"][2]
<1> DEFINE s == Payload[m.class]
<1>1. m.class \in DOMAIN Payload
  BY DEF IsMessageObject
<1>2. OfParts(s)
  BY <1>1, PayloadFacts
<1>3. PICK k \in 1 .. Len(s) : s[k][1] = "job"
  BY DEF Names
<1>4. s[k][2] = "job"
  BY <1>2, <1>3 DEF OfParts, Part, Composite
<1>5. IsPartObject("job", m.payload["job"])
  BY <1>3, <1>4 DEF IsMessageObject
<1>6. IsJobObject(m.payload["job"][2])
  BY <1>5 DEF IsPartObject
<1>7. QED
  BY <1>6, JobSchemaFacts DEF IsJobObject, HasFields

LEMMA MessageIsDecoded ==
    ASSUME NEW m, IsMessageObject(m), CheckMessage(m) = "ok"
    PROVE  /\ CheckWireMessage(MessageToWire(m)) = "ok"
           /\ WireToMessage(MessageToWire(m)) = m
<1> DEFINE w == MessageToWire(m)
           s == Payload[m.class]
           p == m.payload
           f == w[2]
           q == f.payload[2]
<1>1. /\ {m.class, m.messageType} \subseteq DOMAIN Payload /\ OfParts(s)
      /\ DOMAIN m = MessageFields /\ m = [n \in MessageFields |-> m[n]]
      /\ DOMAIN p = Names(s) /\ p = [n \in Names(s) |-> p[n]]
      /\ IsA("dict", w) /\ DOMAIN f = RootFields /\ f = [n \in RootFields |-> f[n]]
      /\ f.messageType = Word(m.messageType) /\ f.payload = Dict(q)
      /\ \A n \in RootFields \ {"messageType", "payload"} : f[n] = m[n]
      /\ DOMAIN q = Names(s) /\ \A n \in Names(s) : q[n] = PartToWire(n, p[n])
  BY WireIs
<1>2. /\ m.protocolVersion = Num(1) /\ m.messageType = m.class
      /\ RequireFields(m, EnvelopeIds) = "ok"
      /\ \A k \in 1 .. Len(s) : CheckPart(s[k][2], p[s[k][1]]) = "ok"
      /\ MatchingIds(p) = "ok"
  BY <1>1, MessageChecks
<1>3. \A k \in 1 .. Len(s) : IsPartObject(s[k][2], p[s[k][1]])
  BY DEF IsMessageObject
<1>4. "job" \in Names(s) => {"generationId", "jobId", "items"} \subseteq DOMAIN p["job"][2]
  BY JobHasIds
<1> DEFINE r == [n \in DOMAIN q |-> WireToPart(n, q[n])]
<1>5. WireToMessage(w) = [n \in MessageFields |-> CASE n \in {"class", "messageType"} -> f.messageType[2]
                                                    [] n = "payload" -> r
                                                    [] OTHER -> f[n]]
  BY DEF WireToMessage
<1> HIDE DEF w, s, p, q, r
<1>6. ASSUME NEW k \in 1 .. Len(s)
      PROVE  /\ s[k][1] \in Names(s) /\ CheckWirePart(s[k][2], q[s[k][1]]) = "ok"
             /\ WireToPart(s[k][1], q[s[k][1]]) = p[s[k][1]]
  <2>1. s[k][1] \in Names(s) /\ Part(s[k][1], s[k][2])
    BY <1>1 DEF Names, OfParts
  <2>2. QED
    BY <1>1, <1>2, <1>3, <2>1, PartIsDecoded
<1>7. \A n \in Names(s) : \E k \in 1 .. Len(s) : n = s[k][1]
  BY DEF Names
<1>8. \A n \in Names(s) : WireToPart(n, q[n]) = p[n]
  BY <1>6, <1>7
<1>9. r = p
  BY <1>1, <1>8 DEF r
<1>10. WireToMessage(w) = m
  <2>1. f.messageType[2] = m.messageType
    BY <1>1 DEF Word, Str
  <2>2. \A n \in MessageFields : \/ n \in {"class", "messageType"} /\ m[n] = f.messageType[2]
                                 \/ n = "payload" /\ m[n] = p
                                 \/ n \in RootFields \ {"messageType", "payload"} /\ m[n] = f[n]
    BY <1>1, <1>2, <2>1 DEF p, MessageFields
  <2>3. \A n \in MessageFields : (CASE n \in {"class", "messageType"} -> f.messageType[2]
                                    [] n = "payload" -> r
                                    [] OTHER -> f[n]) = m[n]
    BY <1>9, <2>2 DEF RootFields
  <2>4. QED
    BY <1>1, <1>5, <2>3
<1>11. MatchingIds(q) = "ok"
  BY <1>1, <1>2, <1>4, IdsOnTheWire
<1>12. RequireFields(f, EnvelopeIds) = "ok" /\ f.protocolVersion = Num(1)
  BY <1>1, <1>2, EnvelopeOnTheWire
<1>13. /\ IsA("str", f.messageType) /\ f.messageType[2] = m.messageType
       /\ IsA("dict", f.payload)
  BY <1>1 DEF IsA, Word, Str, Dict
<1>14. CheckWireEnvelope(w) = "ok"
  BY <1>1, <1>12, <1>13, WireEnvelopeChecks
<1>15. \A k \in 1 .. Len(s) : CheckWirePart(s[k][2], q[s[k][1]]) = "ok"
  BY <1>6
<1>16. CheckWireMessage(w) = "ok"
  BY <1>1, <1>2, <1>11, <1>13, <1>14, <1>15, WireMessageChecks DEF s, q
<1>17. QED
  BY <1>10, <1>16 DEF w

(* On the wire a message is nested five deep. *)
LEMMA MessageIsFlat ==
    ASSUME NEW x, IsAtom(x), NEW m, IsMessageObject(m),
           \A n \in RootFields \ {"messageType", "payload"} : Flat(x, m[n]),
           \A n \in Names(Payload[m.class]) : Flat3(x, PartToWire(n, m.payload[n]))
    PROVE  Flat5(x, MessageToWire(m))
<1> DEFINE w == MessageToWire(m)
           s == Payload[m.class]
           f == w[2]
           q == f.payload[2]
<1>1. /\ m.messageType \in DOMAIN Payload
      /\ IsA("dict", w) /\ DOMAIN f = RootFields
      /\ f.messageType = Word(m.messageType) /\ f.payload = Dict(q)
      /\ \A n \in RootFields \ {"messageType", "payload"} : f[n] = m[n]
      /\ DOMAIN q = Names(s) /\ \A n \in Names(s) : q[n] = PartToWire(n, m.payload[n])
  BY WireIs
<1> HIDE DEF w, s, q
<1>2. \A v : IsContainer(v) => v # x
  BY DEF IsAtom
<1>3. Flat4(x, Dict(q))
  <2>1. IsContainer(Dict(q)) /\ Dict(q)[2] = q
    BY DEF IsContainer, Dict
  <2>2. \A c \in Children(Dict(q)) : Flat3(x, c)
    BY <1>1, <2>1, ChildrenAre DEF s
  <2>3. QED
    BY <1>2, <2>1, <2>2 DEF Flat4
<1>4. Flat(x, Word(m.messageType))
  BY <1>1 DEF Flat, IsAtom, Keywords, IsContainer, Word, Str
<1>5. \A n \in DOMAIN f : Flat4(x, f[n])
  BY <1>1, <1>3, <1>4, FlatIsFlatter
<1>6. IsContainer(w)
  BY <1>1 DEF IsContainer, IsA
<1>7. \A c \in Children(w) : Flat4(x, c)
  BY <1>5, <1>6, ChildrenAre
<1>8. Flat5(x, w)
  BY <1>2, <1>6, <1>7 DEF Flat5
<1>9. QED
  BY <1>8 DEF w

LEMMA EncodedIsDecoded ==
    ASSUME NEW m, IsMessageObject(m), EncodeMessage(m)[1] = "ok"
    PROVE  DecodeMessage(EncodeMessage(m)[2]) = <<"ok", m>>
<1> DEFINE w == MessageToWire(m)
           s == Payload[m.class]
<1>1. CheckMessage(m) = "ok"
  BY DEF EncodeMessage, Refusal
<1>2. ~(FrameLength(w) > Limits["frame"]) /\ EncodeMessage(m) = <<"ok", <<"json", w>>>>
  BY <1>1 DEF EncodeMessage
<1>3. CheckWireMessage(w) = "ok" /\ WireToMessage(w) = m
  BY <1>1, MessageIsDecoded
<1>4. m.class \in DOMAIN Payload /\ OfParts(s) /\ IsA("dict", w)
  BY WireIs
<1>5. /\ m.protocolVersion = Num(1) /\ RequireFields(m, EnvelopeIds) = "ok"
      /\ \A k \in 1 .. Len(s) : CheckPart(s[k][2], m.payload[s[k][1]]) = "ok"
  BY <1>1, <1>4, MessageChecks
<1>6. \A k \in 1 .. Len(s) : IsPartObject(s[k][2], m.payload[s[k][1]])
  BY DEF IsMessageObject
<1> HIDE DEF w
<1>7. \A n \in RootFields \ {"messageType", "payload"} : Flat(Infinite, m[n])
  <2>1. "id" \in Kinds
    BY DEF Kinds
  <2>2. \A k \in 1 .. Len(EnvelopeIds) : EnvelopeIds[k][2] \in Kinds
    BY <2>1, EnvelopeFacts
  <2>3. \A k \in 1 .. Len(EnvelopeIds) : Flat(Infinite, m[EnvelopeIds[k][1]])
    BY <1>5, <2>2, EnvelopeFacts, FieldsAreFlat
  <2>4. Flat(Infinite, m.protocolVersion)
    BY <1>5 DEF Flat, IsContainer, Num, Infinite, Float
  <2>5. Flat(Infinite, m.sessionId) /\ Flat(Infinite, m.sequenceNumber) /\ Flat(Infinite, m.requestId)
    BY <2>3, EnvelopeFacts
  <2>6. QED
    BY <2>4, <2>5 DEF RootFields
<1>8. ASSUME NEW n \in Names(s) PROVE Flat3(Infinite, PartToWire(n, m.payload[n]))
  <2>1. PICK k \in 1 .. Len(s) : n = s[k][1]
    BY DEF Names
  <2>2. Part(s[k][1], s[k][2])
    BY <1>4 DEF OfParts
  <2>3. QED
    BY <1>5, <1>6, <2>1, <2>2, PartIsFlat
<1>9. Flat5(Infinite, w)
  BY <1>7, <1>8, MessageIsFlat, InfiniteIsAtom DEF w
<1>10. Infinite \notin Inside(w) /\ ~TooDeep(w)
  BY <1>9, FlatDocument
<1>11. CheckDocument(w) = "ok"
  BY <1>3, <1>4, <1>10 DEF CheckDocument, Infinite
<1>12. <<"json", w>>[1] = "json" /\ <<"json", w>>[2] = w
  OBVIOUS
<1> DEFINE fr == <<"json", w>>
<1>13. fr[1] = "json" /\ fr[2] = w
  BY <1>12
<1> HIDE DEF fr
<1>14. DecodeMessage(fr) = <<"ok", m>>
  BY <1>2, <1>3, <1>11, <1>13 DEF DecodeMessage
<1>15. EncodeMessage(m)[2] = fr
  BY <1>2 DEF fr
<1>16. QED
  BY <1>14, <1>15

(* Everything of a document that its messages can reach is JSON. *)
LEMMA DocumentIsJson ==
    ASSUME NEW root, IsDocument(root) PROVE Json5(root)
<1>1. /\ 1 = 0 + 1 /\ 2 = 1 + 1 /\ 3 = 2 + 1 /\ 4 = 3 + 1 /\ 5 = 4 + 1
      /\ {0, 1, 2, 3, 4, 5} \subseteq Nat
  OBVIOUS
<1>2. {0, 1, 2, 3, 4, 5} \subseteq 0 .. Limits["depth"]
  BY CodecAssumption
<1>3. \A n \in {0, 1, 2, 3, 4, 5} : \A c \in Layer(root, n) : IsJson(c)
  BY <1>2 DEF IsDocument, Inside
<1>4. \A n \in Nat : \A c \in Layer(root, n) : \A d \in Children(c) : d \in Layer(root, n + 1)
  BY LayerFacts DEF Below
<1>5. \A c \in Layer(root, 4) : Json1(c)
  BY <1>1, <1>3, <1>4 DEF Json1
<1>6. \A c \in Layer(root, 3) : Json2(c)
  BY <1>1, <1>3, <1>4, <1>5 DEF Json2
<1>7. \A c \in Layer(root, 2) : Json3(c)
  BY <1>1, <1>3, <1>4, <1>6 DEF Json3
<1>8. \A c \in Layer(root, 1) : Json4(c)
  BY <1>1, <1>3, <1>4, <1>7 DEF Json4
<1>9. \A c \in Layer(root, 0) : Json5(c)
  BY <1>1, <1>3, <1>4, <1>8 DEF Json5
<1>10. QED
  BY <1>9, LayerFacts

LEMMA MessageIsEncoded ==
    ASSUME NEW root, Json5(root), CheckWireMessage(root) = "ok"
    PROVE  /\ CheckMessage(WireToMessage(root)) = "ok"
           /\ MessageToWire(WireToMessage(root)) = root
<1> DEFINE f == root[2]
           t == f.messageType[2]
           s == Payload[t]
           q == f.payload[2]
           p == [n \in DOMAIN q |-> WireToPart(n, q[n])]
           m == [n \in MessageFields |-> CASE n \in {"class", "messageType"} -> t
                                          [] n = "payload" -> p
                                          [] OTHER -> f[n]]
<1>1. CheckWireEnvelope(root) = "ok"
  BY DEF CheckWireMessage
<1>2. /\ IsA("dict", root) /\ DOMAIN f = RootFields /\ f.protocolVersion = Num(1)
      /\ IsA("str", f.messageType) /\ t \in DOMAIN Payload
      /\ RequireFields(f, EnvelopeIds) = "ok" /\ IsA("dict", f.payload)
  BY <1>1, WireEnvelopeChecks
<1>3. /\ DOMAIN q = Names(s) /\ MatchingIds(q) = "ok"
      /\ \A k \in 1 .. Len(s) : CheckWirePart(s[k][2], q[s[k][1]]) = "ok"
  BY <1>2, WireMessageChecks
<1>4. OfParts(s)
  BY <1>2, PayloadFacts
<1>5. root = Dict(f) /\ f = [n \in RootFields |-> f[n]] /\ IsContainer(root)
  BY <1>2, JsonDict DEF Json5
<1>6. {"messageType", "payload"} \subseteq RootFields
  BY DEF RootFields
<1>7. Json4(f.messageType) /\ Json4(f.payload)
  BY <1>2, <1>5, <1>6, IsAChild DEF Json5
<1>8. f.messageType = Word(t)
  BY <1>2, <1>7 DEF Json4, IsJson, Keywords, IsA
<1>9. f.payload = Dict(q) /\ q = [n \in Names(s) |-> q[n]] /\ IsContainer(f.payload)
  BY <1>2, <1>3, <1>7, JsonDict DEF Json4
<1>10. \A n \in Names(s) : Json3(q[n])
  BY <1>3, <1>7, <1>9, IsAChild DEF Json4
<1>11. WireToMessage(root) = m
  BY DEF WireToMessage
<1>12. DOMAIN p = Names(s) /\ \A n \in Names(s) : p[n] = WireToPart(n, q[n])
  BY <1>3
<1> HIDE DEF p
<1>13. /\ m.class = t /\ m.messageType = t /\ m.payload = p
       /\ \A n \in RootFields \ {"messageType", "payload"} : m[n] = f[n]
  <2>1. /\ {"class", "messageType", "payload"} \subseteq MessageFields /\ "class" \notin RootFields
        /\ RootFields \subseteq MessageFields
    BY DEF MessageFields, RootFields
  <2>2. QED
    BY <2>1
<1> HIDE DEF q, s, t, f, m
<1>15. ASSUME NEW k \in 1 .. Len(s)
       PROVE  /\ s[k][1] \in Names(s) /\ CheckPart(s[k][2], p[s[k][1]]) = "ok"
              /\ PartToWire(s[k][1], p[s[k][1]]) = q[s[k][1]]
  <2>1. s[k][1] \in Names(s) /\ Part(s[k][1], s[k][2])
    BY <1>4 DEF Names, OfParts
  <2>2. QED
    BY <1>3, <1>10, <1>12, <2>1, PartIsEncoded
<1>16. \A n \in Names(s) : q[n] = PartToWire(n, p[n])
  <2>1. \A n \in Names(s) : \E k \in 1 .. Len(s) : n = s[k][1]
    BY DEF Names
  <2>2. QED
    BY <1>15, <2>1
<1>17. MessageToWire(m) = root
  <2> DEFINE r == [n \in DOMAIN p |-> PartToWire(n, p[n])]
             g == [n \in RootFields |-> CASE n = "messageType" -> Word(m[n])
                                         [] n = "payload" -> Dict(r)
                                         [] OTHER -> m[n]]
  <2>1. r = q
    BY <1>9, <1>12, <1>16
  <2>2. MessageToWire(m) = Dict(g)
    BY <1>13 DEF MessageToWire
  <2> HIDE DEF r
  <2>3. \A n \in RootFields : g[n] = f[n]
    BY <1>8, <1>9, <1>13, <2>1
  <2>4. g = f
    BY <1>5, <2>3
  <2> HIDE DEF g
  <2>5. QED
    BY <1>5, <2>2, <2>4
<1>18. "job" \in Names(s) => {"generationId", "jobId", "items"} \subseteq DOMAIN p["job"][2]
  <2> SUFFICES ASSUME "job" \in Names(s)
               PROVE  {"generationId", "jobId", "items"} \subseteq DOMAIN p["job"][2]
    OBVIOUS
  <2>1. PICK k \in 1 .. Len(s) : s[k][1] = "job"
    BY DEF Names
  <2>2. s[k][2] = "job"
    BY <1>4, <2>1 DEF OfParts, Part, Composite
  <2>3. CheckWireJob(q["job"]) = "ok"
    BY <1>3, <2>1, <2>2 DEF CheckWirePart
  <2> DEFINE v == q["job"]
  <2>4. RequireExactFields(v, JobFields) = "ok"
    BY <2>3 DEF CheckWireJob
  <2>5. DOMAIN v[2] = JobFields
    BY <2>4 DEF RequireExactFields, Require
  <2>6. p["job"] = Object(WireToJob(v))
    BY <1>12 DEF WireToPart
  <2>7. p["job"][2] = WireToJob(v)
    BY <2>6 DEF Object
  <2> HIDE DEF v
  <2>8. DOMAIN WireToJob(v) = JobFields
    BY <2>5 DEF WireToJob
  <2>9. QED
    BY <2>7, <2>8, JobSchemaFacts
<1>19. MatchingIds(p) = "ok"
  BY <1>3, <1>4, <1>12, <1>16, <1>18, IdsOnTheWire
<1>20. RequireFields(m, EnvelopeIds) = "ok" /\ m.protocolVersion = Num(1)
  BY <1>2, <1>13, EnvelopeOnTheWire
<1>21. \A k \in 1 .. Len(s) : CheckPart(s[k][2], p[s[k][1]]) = "ok"
  BY <1>15
<1>22. CheckMessage(m) = "ok"
  BY <1>2, <1>13, <1>19, <1>20, <1>21, MessageChecks DEF s
<1>23. QED
  BY <1>11, <1>17, <1>22

LEMMA DecodedIsEncoded ==
    ASSUME NEW w, IsDocument(w), DecodeMessage(<<"json", w>>)[1] = "ok"
    PROVE  LET m == DecodeMessage(<<"json", w>>)[2]
           IN IF LoneSurrogate \in Inside(w) THEN EncodeMessage(m) = <<"raises">>
              ELSE EncodeMessage(m) = <<"ok", <<"json", w>>>>
<1> DEFINE fr == <<"json", w>>
           m == WireToMessage(w)
<1>1. fr[1] = "json" /\ fr[2] = w
  OBVIOUS
<1> HIDE DEF fr
<1>2. /\ ~(FrameLength(w) > Limits["frame"]) /\ CheckDocument(w) = "ok"
      /\ DecodeMessage(fr) = <<"ok", m>>
  BY <1>1 DEF DecodeMessage, Refusal, fr
<1>3. CheckWireMessage(w) = "ok"
  BY <1>2 DEF CheckDocument
<1>4. CheckMessage(m) = "ok" /\ MessageToWire(m) = w
  BY <1>3, DocumentIsJson, MessageIsEncoded
<1> HIDE DEF m
<1>5. IF LoneSurrogate \in Inside(w) THEN EncodeMessage(m) = <<"raises">>
      ELSE EncodeMessage(m) = <<"ok", <<"json", w>>>>
  BY <1>2, <1>4 DEF EncodeMessage
<1>6. DecodeMessage(fr)[2] = m
  BY <1>2
<1>7. QED
  BY <1>5, <1>6 DEF fr
-----------------------------------------------------------------------------
(* The items that the converter makes. *)

(* What SpeechAssumption asks of an item. *)
Sound(i) ==
    /\ i.class = "str" => IsA("str", i.text) /\ IsScalar(i.text)
    /\ i.class = "LangChangeCommand" => IsScalar(i.lang)
    /\ i.class = "PhonemeCommand" => IsScalar(i.text)

Sent(c) ==
    /\ IsItemObject(c)
    /\ CheckItem(c) \in {"ok", "jobSizeLimitExceeded"} \/ BeyondTheWire(c)

LEMMA CheckedFields ==
    /\ \A f, n, d : RequireFields(f, <<<<n, d>>>>) \in {"ok", RequireField(d, f[n])}
    /\ \A f, n, d, m, e :
          RequireFields(f, <<<<n, d>>, <<m, e>>>>) \in {"ok", RequireField(d, f[n]), RequireField(e, f[m])}
<1>1. ASSUME NEW f, NEW n, NEW d PROVE RequireFields(f, <<<<n, d>>>>) \in {"ok", RequireField(d, f[n])}
  <2> DEFINE s == <<<<n, d>>>>
  <2>1. IsSchema(s) /\ Len(s) = 1 /\ s[1][1] = n /\ s[1][2] = d
    BY OneField
  <2> HIDE DEF s
  <2>2. RequireFields(f, s) # "ok" =>
           \E k \in 1 .. Len(s) : RequireFields(f, s) = RequireField(s[k][2], f[s[k][1]])
    BY <2>1, FieldsFacts
  <2>3. RequireFields(f, s) \in {"ok", RequireField(d, f[n])}
    BY <2>1, <2>2
  <2>4. QED
    BY <2>3 DEF s
<1>2. ASSUME NEW f, NEW n, NEW d, NEW m, NEW e
      PROVE  RequireFields(f, <<<<n, d>>, <<m, e>>>>)
                \in {"ok", RequireField(d, f[n]), RequireField(e, f[m])}
  <2> DEFINE s == <<<<n, d>>, <<m, e>>>>
  <2>1. IsSchema(s) /\ Len(s) = 2 /\ s[1][1] = n /\ s[1][2] = d /\ s[2][1] = m /\ s[2][2] = e
    BY TwoFields
  <2> HIDE DEF s
  <2>2. RequireFields(f, s) # "ok" =>
           \E k \in 1 .. Len(s) : RequireFields(f, s) = RequireField(s[k][2], f[s[k][1]])
    BY <2>1, FieldsFacts
  <2>3. RequireFields(f, s) \in {"ok", RequireField(d, f[n]), RequireField(e, f[m])}
    BY <2>1, <2>2
  <2>4. QED
    BY <2>3 DEF s
<1>3. QED
  BY <1>1, <1>2

(* An item with one field besides its type, and its check. *)
LEMMA SimpleItem ==
    ASSUME NEW c, NEW t \in DOMAIN ItemSchema, ~IsProsody(t), NEW n, NEW d,
           ItemSchema[t] = <<<<n, d>>>>, c.type = t, HasFields(c, {"type", n})
    PROVE  IsItemObject(c) /\ CheckItem(c) \in {"ok", RequireField(d, c[n])}
<1>1. ItemFields(t) = {"type", n}
  BY OneField DEF ItemFields
<1>2. CheckItem(c) = RequireFields(c, ItemSchema[t])
  BY DEF CheckItem
<1>3. QED
  BY <1>1, <1>2, CheckedFields DEF IsItemObject

LEMMA ConvertedText ==
    ASSUME NEW i, i.class = "str", IsA("str", i.text) PROVE Sent(ConvertItem(i))
<1> DEFINE c == [type |-> "text", text |-> i.text]
<1>1. ConvertItem(i) = c
  BY DEF ConvertItem, Prosody
<1>2. c.type = "text" /\ HasFields(c, {"type", "text"}) /\ c["text"] = i.text
  BY DEF HasFields
<1> HIDE DEF c
<1>3. "text" \in DOMAIN ItemSchema /\ ~IsProsody("text") /\ ItemSchema["text"] = <<<<"text", "text">>>>
  BY ItemSchemas DEF IsProsody
<1>4. IsItemObject(c) /\ CheckItem(c) \in {"ok", RequireField("text", c["text"])}
  BY ONLY <1>2, <1>3, SimpleItem
<1>5. RequireField("text", i.text) \in {"ok", "jobSizeLimitExceeded"}
  BY DEF RequireField, RequireString, Require, IsA
<1>6. QED
  BY <1>1, <1>2, <1>4, <1>5 DEF Sent

LEMMA ConvertedIndex ==
    ASSUME NEW i, i.class = "IndexCommand", IsA("int", i.index) PROVE Sent(ConvertItem(i))
<1> DEFINE c == [type |-> "index", index |-> i.index]
<1>1. ConvertItem(i) = c
  BY DEF ConvertItem, Prosody
<1>2. c.type = "index" /\ HasFields(c, {"type", "index"}) /\ c["index"] = i.index
  BY DEF HasFields
<1> HIDE DEF c
<1>3. "index" \in DOMAIN ItemSchema /\ ~IsProsody("index") /\ ItemSchema["index"] = <<<<"index", "signed">>>>
  BY ItemSchemas DEF IsProsody
<1>4. IsItemObject(c) /\ CheckItem(c) \in {"ok", RequireField("signed", c["index"])}
  BY ONLY <1>2, <1>3, SimpleItem
<1>5. i.index[2] \in -MaxId .. MaxId => RequireField("signed", i.index) = "ok"
  BY DEF RequireField, Typed, Require, IsA
<1>6. QED
  BY <1>1, <1>2, <1>4, <1>5 DEF Sent, BeyondTheWire

LEMMA ConvertedMode ==
    ASSUME NEW i, i.class = "CharacterModeCommand", IsA("bool", i.state) PROVE Sent(ConvertItem(i))
<1> DEFINE c == [type |-> "characterMode", state |-> i.state]
<1>1. ConvertItem(i) = c
  BY DEF ConvertItem, Prosody
<1>2. c.type = "characterMode" /\ HasFields(c, {"type", "state"}) /\ c["state"] = i.state
  BY DEF HasFields
<1> HIDE DEF c
<1>3. /\ "characterMode" \in DOMAIN ItemSchema /\ ~IsProsody("characterMode")
      /\ ItemSchema["characterMode"] = <<<<"state", "boolean">>>>
  BY ItemSchemas DEF IsProsody
<1>4. IsItemObject(c) /\ CheckItem(c) \in {"ok", RequireField("boolean", c["state"])}
  BY ONLY <1>2, <1>3, SimpleItem
<1>5. RequireField("boolean", i.state) = "ok"
  BY DEF RequireField, Typed, Require, IsA
<1>6. QED
  BY <1>1, <1>2, <1>4, <1>5 DEF Sent

(* A string, or a value without parts whose tag says that it is none. *)
LEMMA StringOrNone ==
    ASSUME NEW v, IsScalar(v), v[1] \in {"str", "none"}, NEW limit
    PROVE  RequireStringOrNone(v, limit) \in {"ok", "jobSizeLimitExceeded"}
<1>1. v[1] = "none" => v = None
  BY Zenon DEF IsScalar, IsA
<1>2. v[1] = "str" => RequireString(v, limit) \in {"ok", "jobSizeLimitExceeded"}
  BY DEF RequireString, Require, IsA
<1>3. QED
  BY <1>1, <1>2 DEF RequireStringOrNone

LEMMA ConvertedLanguage ==
    ASSUME NEW i, i.class = "LangChangeCommand", IsScalar(i.lang), i.lang[1] \in {"str", "none"}
    PROVE  Sent(ConvertItem(i))
<1> DEFINE c == [type |-> "language", language |-> i.lang]
<1>1. ConvertItem(i) = c
  BY DEF ConvertItem, Prosody
<1>2. c.type = "language" /\ HasFields(c, {"type", "language"}) /\ c["language"] = i.lang
  BY DEF HasFields
<1> HIDE DEF c
<1>3. /\ "language" \in DOMAIN ItemSchema /\ ~IsProsody("language")
      /\ ItemSchema["language"] = <<<<"language", "language">>>>
  BY ItemSchemas DEF IsProsody
<1>4. IsItemObject(c) /\ CheckItem(c) \in {"ok", RequireField("language", c["language"])}
  BY ONLY <1>2, <1>3, SimpleItem
<1>5. RequireField("language", i.lang) \in {"ok", "jobSizeLimitExceeded"}
  BY StringOrNone DEF RequireField
<1>6. QED
  BY <1>1, <1>2, <1>4, <1>5 DEF Sent

LEMMA ConvertedBreak ==
    ASSUME NEW i, i.class = "BreakCommand", IsA("int", i.time) PROVE Sent(ConvertItem(i))
<1> DEFINE c == [type |-> "break", durationMs |-> i.time]
<1>1. ConvertItem(i) = c
  BY DEF ConvertItem, Prosody
<1>2. c.type = "break" /\ HasFields(c, {"type", "durationMs"}) /\ c["durationMs"] = i.time
  BY DEF HasFields
<1> HIDE DEF c
<1>3. "break" \in DOMAIN ItemSchema /\ ~IsProsody("break") /\ ItemSchema["break"] = <<<<"durationMs", "natural">>>>
  BY ItemSchemas DEF IsProsody
<1>4. IsItemObject(c) /\ CheckItem(c) \in {"ok", RequireField("natural", c["durationMs"])}
  BY ONLY <1>2, <1>3, SimpleItem
<1>5. i.time[2] \in 0 .. MaxId => RequireField("natural", i.time) = "ok"
  BY DEF RequireField, Typed, Require, IsA
<1>6. QED
  BY <1>1, <1>2, <1>4, <1>5 DEF Sent, BeyondTheWire

LEMMA ConvertedPhoneme ==
    ASSUME NEW i, i.class = "PhonemeCommand", IsA("str", i.ipa), IsScalar(i.text),
           i.text[1] \in {"str", "none"}
    PROVE  Sent(ConvertItem(i))
<1> DEFINE c == [type |-> "phoneme", ipa |-> i.ipa, fallbackText |-> i.text]
           s == <<<<"ipa", "ipa">>, <<"fallbackText", "fallback">>>>
<1>1. ConvertItem(i) = c
  BY DEF ConvertItem, Prosody
<1>2. /\ c.type = "phoneme" /\ HasFields(c, {"type", "ipa", "fallbackText"})
      /\ c["ipa"] = i.ipa /\ c["fallbackText"] = i.text
  BY DEF HasFields
<1>3. "phoneme" \in DOMAIN ItemSchema /\ ~IsProsody("phoneme") /\ ItemSchema["phoneme"] = s
  BY ItemSchemas DEF IsProsody
<1>4. Names(s) = {"ipa", "fallbackText"}
  BY TwoFields
<1> HIDE DEF c
<1>5. RequireFields(c, s) \in {"ok", RequireField("ipa", c["ipa"]), RequireField("fallback", c["fallbackText"])}
  BY CheckedFields
<1> HIDE DEF s
<1>6. ItemFields("phoneme") = {"type", "ipa", "fallbackText"}
  BY <1>3, <1>4 DEF ItemFields
<1>7. CheckItem(c) = RequireFields(c, s) /\ IsItemObject(c)
  BY <1>2, <1>3, <1>6 DEF CheckItem, IsItemObject
<1>8. RequireField("ipa", i.ipa) \in {"ok", "jobSizeLimitExceeded"}
  BY DEF RequireField, RequireString, Require, IsA
<1>9. RequireField("fallback", i.text) \in {"ok", "jobSizeLimitExceeded"}
  BY StringOrNone DEF RequireField
<1>10. QED
  BY <1>1, <1>2, <1>5, <1>7, <1>8, <1>9 DEF Sent

(* The converter and the encoder ask the same of prosody. *)
LEMMA ConvertedProsody ==
    ASSUME NEW i, i.class \in Prosody, ProsodyAgrees(i) PROVE Sent(ConvertItem(i))
<1> DEFINE t == ProsodyType[i.class]
           c == [type |-> t, offset |-> i.offset, multiplier |-> i.multiplier, isDefault |-> i.isDefault]
<1>1. ConvertItem(i) = c
  BY DEF ConvertItem, Prosody
<1>2. IsProsody(t)
  BY DEF IsProsody, ProsodyType, Prosody
<1> HIDE DEF t
<1>3. /\ c.type = t /\ HasFields(c, {"type", "offset", "multiplier", "isDefault"})
      /\ c.offset = i.offset /\ c.multiplier = i.multiplier /\ c.isDefault = i.isDefault
  BY DEF HasFields
<1> HIDE DEF c
<1>4. /\ t \in DOMAIN ItemSchema /\ ItemSchema[t] = ProsodySchema
      /\ ItemFields(t) = {"type", "offset", "multiplier", "isDefault"}
  BY <1>2, ProsodyFields
<1>5. IsItemObject(c)
  BY <1>3, <1>4 DEF IsItemObject
<1> DEFINE a == RequireFields(c, ProsodySchema)
<1>6. ProsodyConflict(c) = "ok" /\ ProsodyDefault(c) = "ok"
  BY <1>3, Zenon DEF ProsodyAgrees, ProsodyConflict, ProsodyDefault, Require
<1>7. CheckItem(c) = FirstFailure(<<a, ProsodyConflict(c), ProsodyDefault(c)>>)
  BY <1>2, <1>3, <1>4 DEF CheckItem
<1>8. a # "ok" => BeyondTheWire(c)
  BY <1>2, <1>3 DEF BeyondTheWire
<1> HIDE DEF a
<1>9. a = "ok" => CheckItem(c) = "ok"
  BY <1>6, <1>7, FirstOfThree
<1>10. QED
  BY <1>1, <1>5, <1>8, <1>9 DEF Sent

LEMMA ConvertedIsSent ==
    ASSUME NEW i, Sound(i), WellFormed(i), i.class \notin Ignored
    PROVE  Sent(ConvertItem(i))
<1>1. CASE i.class = "str"
  BY <1>1, ConvertedText DEF Sound
<1>2. CASE i.class = "IndexCommand" /\ IsA("int", i.index)
  BY <1>2, ConvertedIndex
<1>3. CASE i.class = "CharacterModeCommand" /\ IsA("bool", i.state)
  BY <1>3, ConvertedMode
<1>4. CASE i.class = "LangChangeCommand" /\ i.lang[1] \in {"str", "none"}
  BY <1>4, ConvertedLanguage DEF Sound
<1>5. CASE i.class = "BreakCommand" /\ IsA("int", i.time)
  BY <1>5, ConvertedBreak
<1>6. CASE i.class \in Prosody /\ ProsodyAgrees(i)
  BY <1>6, ConvertedProsody
<1>7. CASE i.class = "PhonemeCommand" /\ IsA("str", i.ipa) /\ i.text[1] \in {"str", "none"}
  BY <1>7, ConvertedPhoneme DEF Sound
<1>8. QED
  BY <1>1, <1>2, <1>3, <1>4, <1>5, <1>6, <1>7 DEF WellFormed

-----------------------------------------------------------------------------
(* The jobs that the converter makes. *)

IsConverted(j) ==
    \E s \in Speech, n \in 1 .. MaxIdentifier :
        /\ \A k \in DOMAIN s : WellFormed(s[k])
        /\ j = [jobId |-> Num(n), generationId |-> Num(n), requestNumber |-> Num(n),
                items |-> Items(s), voiceId |-> Word("voice"), rate |-> Num(1)]
JobIsConverted == job = NoJob \/ IsConverted(job)

LEMMA ConvertsAJob ==
    ASSUME Numbered, NEW s \in Speech, Converts(s) PROVE IsConverted(job')
<1>1. nextId \in 1 .. MaxIdentifier /\ \A k \in DOMAIN s : WellFormed(s[k])
  BY IdentifierAssumption DEF Converts, Exhausted, Numbered
<1>2. job' = [jobId |-> Num(nextId), generationId |-> Num(nextId), requestNumber |-> Num(nextId),
              items |-> Items(s), voiceId |-> Word("voice"), rate |-> Num(1)]
  BY DEF Converts, NewJob
<1>3. QED
  BY <1>1, <1>2, Zenon DEF IsConverted

LEMMA JobIsConvertedStep == Numbered /\ JobIsConverted /\ [NextJobs]_jobVars => JobIsConverted'
<1> SUFFICES ASSUME Numbered, JobIsConverted, [NextJobs]_jobVars PROVE JobIsConverted'
  OBVIOUS
<1>1. CASE UNCHANGED jobVars
  BY <1>1, Zenon DEF JobIsConverted, jobVars
<1>2. CASE ForgetSpeech
  BY <1>2 DEF ForgetSpeech, JobIsConverted, NoJob
<1>3. ASSUME NEW s \in Speech, Speak(s) PROVE JobIsConverted'
  <2>1. CASE RejectConversion(s) \/ RaiseExhausted(s)
    BY <2>1 DEF RejectConversion, RaiseExhausted, JobIsConverted, NoJob
  <2>2. CASE Converts(s)
    BY <2>2, ConvertsAJob DEF JobIsConverted
  <2>3. QED
    BY <1>3, <2>1, <2>2 DEF Speak, RejectSegments, SubmitSpeech
<1>4. QED
  BY <1>1, <1>2, <1>3 DEF NextJobs

LEMMA ConvertedJob ==
    ASSUME NEW j, IsConverted(j)
    PROVE  /\ IsJobObject(j)
           /\ \A k \in DOMAIN j.items :
                 CheckItem(j.items[k]) \in {"ok", "jobSizeLimitExceeded"} \/ BeyondTheWire(j.items[k])
           /\ \E n \in 1 .. MaxIdentifier :
                 j.jobId = Num(n) /\ j.generationId = Num(n) /\ j.requestNumber = Num(n)
           /\ j.voiceId = Word("voice") /\ j.rate = Num(1)
<1>1. PICK s \in Speech, n \in 1 .. MaxIdentifier :
        /\ \A k \in DOMAIN s : WellFormed(s[k])
        /\ j = [jobId |-> Num(n), generationId |-> Num(n), requestNumber |-> Num(n),
                items |-> Items(s), voiceId |-> Word("voice"), rate |-> Num(1)]
  BY Zenon DEF IsConverted
<1> DEFINE S == ToSet(s)
<1>2. s \in Seq(S) /\ \A i \in S : WellFormed(i) /\ Sound(i)
  <2>1. s \in Seq(S) /\ \A k \in DOMAIN s : Sound(s[k])
    BY SpeechAssumption DEF Sound
  <2>2. \A i \in S : \E k \in DOMAIN s : i = s[k]
    BY DEF ToSet
  <2>3. QED
    BY <1>1, <2>1, <2>2
<1>3. Items(s) \in Seq(Converted(S))
  <2>1. CASE S = {}
    <3>1. s = <<>>
      BY <1>2, <2>1
    <3> HIDE DEF S
    <3>2. Items(s) = <<>>
      BY ONLY <3>1, EmptySequence, Zenon
    <3>3. QED
      BY ONLY <3>2
  <2>2. CASE S # {}
    <3>1. PICK e : e \in S
      BY <2>2
    <3> HIDE DEF S
    <3>2. QED
      BY <1>2, <3>1, ItemsFacts
  <2>3. QED
    BY <2>1, <2>2
<1>4. \A c \in Converted(S) : Sent(c)
  <2> HIDE DEF S
  <2>1. \A i \in S : i.class \notin Ignored => Sent(ConvertItem(i))
    BY <1>2, ConvertedIsSent
  <2>2. QED
    BY <2>1 DEF Converted
<1> HIDE DEF S
<1> DEFINE t == Items(s)
<1>5. t \in Seq(Range(t)) /\ \A k \in DOMAIN t : Sent(t[k])
  <2>1. Len(t) \in Nat /\ DOMAIN t = 1 .. Len(t) /\ t = [k \in 1 .. Len(t) |-> t[k]]
        /\ \A k \in 1 .. Len(t) : t[k] \in Converted(S)
    BY <1>3
  <2> HIDE DEF t
  <2>2. \A k \in 1 .. Len(t) : t[k] \in Range(t)
    BY <2>1 DEF Range
  <2>3. t \in Seq(Range(t))
    BY <2>1, <2>2, SeqDef
  <2>4. QED
    BY <1>4, <2>1, <2>3
<1> HIDE DEF t
<1>6. /\ j.jobId = Num(n) /\ j.generationId = Num(n) /\ j.requestNumber = Num(n)
      /\ j.items = t /\ j.voiceId = Word("voice") /\ j.rate = Num(1)
      /\ HasFields(j, {"jobId", "generationId", "requestNumber", "items", "voiceId", "rate"})
  BY <1>1 DEF t, HasFields
<1>7. HasFields(j, JobFields)
  <2>1. JobFields = {"jobId", "generationId", "requestNumber", "items", "voiceId", "rate"}
    BY JobSchemaFacts
  <2>2. QED
    BY <1>6, <2>1
<1>8. QED
  BY <1>5, <1>6, <1>7 DEF IsJobObject, Sent

-----------------------------------------------------------------------------
(* A job of the converter on the wire. *)

(* What a check of it may say, unless one of its items is beyond the wire. *)
Spoilt(j) == \E k \in DOMAIN j.items : BeyondTheWire(j.items[k])
Fits == {"ok", "jobSizeLimitExceeded"}

LEMMA IdIsRequired ==
    ASSUME NEW n \in 1 .. MaxId PROVE RequireField("id", Num(n)) = "ok"
BY DEF RequireField, Typed, Require, IsA, Num

LEMMA ConvertedJobIsChecked ==
    ASSUME NEW j, IsConverted(j) PROVE CheckJob(j) \in Fits \/ Spoilt(j)
<1> DEFINE a == RequireFields(j, JobSchema)
           b == Require(j.voiceId # Str("empty", 0), "invalidFieldValue")
           c == Typed("int", j.rate, j.rate[2] \in 0 .. Limits["rate"])
           d == Require(Len(j.items) <= Limits["items"], "jobSizeLimitExceeded")
           e == FirstFailure([k \in 1 .. Len(j.items) |-> CheckItem(j.items[k])])
           f == Require(TotalText(j.items) <= Limits["total"], "jobSizeLimitExceeded")
<1>1. /\ IsJobObject(j)
      /\ \A k \in DOMAIN j.items : CheckItem(j.items[k]) \in Fits \/ BeyondTheWire(j.items[k])
      /\ \E n \in 1 .. MaxIdentifier :
            j.jobId = Num(n) /\ j.generationId = Num(n) /\ j.requestNumber = Num(n)
      /\ j.voiceId = Word("voice") /\ j.rate = Num(1)
  BY ConvertedJob DEF Fits
<1>2. a \in Fits
  <2>1. PICK n \in 1 .. MaxId :
            j.jobId = Num(n) /\ j.generationId = Num(n) /\ j.requestNumber = Num(n)
    BY <1>1, JobsFit, IdentifierAssumption, CodecAssumption
  <2>2. RequireField("id", Num(n)) = "ok"
    BY IdIsRequired
  <2>3. RequireField("voice", Word("voice")) \in Fits
    BY DEF RequireField, RequireString, Require, IsA, Word, Str, Fits
  <2> DEFINE s == JobSchema
  <2>4. /\ IsSchema(s) /\ Len(s) = 4
        /\ s[1] = <<"jobId", "id">> /\ s[2] = <<"generationId", "id">>
        /\ s[3] = <<"requestNumber", "id">> /\ s[4] = <<"voiceId", "voice">>
    BY JobSchemaFacts
  <2> HIDE DEF s
  <2>5. RequireFields(j, s) # "ok" =>
           \E k \in 1 .. Len(s) : RequireFields(j, s) = RequireField(s[k][2], j[s[k][1]])
    BY ONLY <2>4, FieldsFacts
  <2>6. \A k \in 1 .. 4 : RequireField(s[k][2], j[s[k][1]]) \in Fits
    <3>1. \A k \in 1 .. 3 : RequireField(s[k][2], j[s[k][1]]) = "ok"
      BY <2>1, <2>2, <2>4
    <3>2. RequireField(s[4][2], j[s[4][1]]) \in Fits
      BY <1>1, <2>3, <2>4
    <3>3. \A k \in 1 .. 4 : k \in 1 .. 3 \/ k = 4
      OBVIOUS
    <3>4. QED
      BY <3>1, <3>2, <3>3 DEF Fits
  <2>7. RequireFields(j, s) \in Fits
    BY <2>4, <2>5, <2>6 DEF Fits
  <2>8. QED
    BY <2>7 DEF s
<1>3. b = "ok"
  BY <1>1 DEF Require, Word, Str
<1>4. c = "ok"
  <2>1. j.rate[2] \in 0 .. Limits["rate"] /\ IsA("int", j.rate)
    BY <1>1, JobsFit, CodecAssumption DEF Num, IsA
  <2>2. QED
    BY <2>1 DEF Typed, Require
<1>5. d \in Fits /\ f \in Fits
  BY Zenon DEF Require, Fits
<1>6. e \in Fits \/ Spoilt(j)
  <2> DEFINE t == j.items
  <2>1. t \in Seq(Range(t))
    BY <1>1 DEF IsJobObject
  <2> HIDE DEF t
  <2> DEFINE S == Range(t)
             g == FirstFailure([k \in 1 .. Len(t) |-> CheckItem(t[k])])
  <2> HIDE DEF S
  <2>2. t \in Seq(S)
    BY <2>1 DEF S
  <2>3. DOMAIN t = 1 .. Len(t) /\ (g # "ok" => \E k \in 1 .. Len(t) : g = CheckItem(t[k]))
    BY ONLY <2>2, ItemsAreChecked
  <2> HIDE DEF g
  <2>4. g \in Fits \/ \E k \in DOMAIN t : BeyondTheWire(t[k])
    BY <1>1, <2>3 DEF Fits, t
  <2>5. QED
    BY <2>4 DEF g, t, Spoilt
<1>7. CheckJob(j) \in {"ok", a, b, c, d, e, f}
  BY JobChecks
<1> HIDE DEF a, b, c, d, e, f
<1>8. QED
  BY <1>2, <1>3, <1>4, <1>5, <1>6, <1>7 DEF Fits

(* The message of a job. *)
RequestOf(j) ==
    [class |-> "submitJobRequest", messageType |-> "submitJobRequest",
     protocolVersion |-> Num(1),
     sessionId |-> Num(1), sequenceNumber |-> Num(2), requestId |-> Num(2),
     payload |-> [generationId |-> j.generationId, jobId |-> j.jobId, job |-> Object(j)]]

LEMMA RequestIs ==
    ASSUME NEW j, NEW m, m = RequestOf(j)
    PROVE  /\ m.class = "submitJobRequest" /\ m.messageType = "submitJobRequest"
           /\ HasFields(m, MessageFields)
           /\ m.protocolVersion = Num(1) /\ m.sessionId = Num(1)
           /\ m.sequenceNumber = Num(2) /\ m.requestId = Num(2)
           /\ HasFields(m.payload, {"generationId", "jobId", "job"})
           /\ m.payload.generationId = j.generationId /\ m.payload.jobId = j.jobId
           /\ m.payload.job = Object(j)
BY DEF RequestOf, HasFields, MessageFields, RootFields

LEMMA RequestSchema ==
    LET s == Payload["submitJobRequest"]
    IN /\ "submitJobRequest" \in DOMAIN Payload /\ IsSchema(s) /\ Len(s) = 3
       /\ s[1] = <<"generationId", "id">> /\ s[2] = <<"jobId", "id">> /\ s[3] = <<"job", "job">>
       /\ Names(s) = {"generationId", "jobId", "job"}
<1> DEFINE s == Payload["submitJobRequest"]
<1>1. /\ "submitJobRequest" \in DOMAIN Payload
      /\ s = <<<<"generationId", "id">>, <<"jobId", "id">>, <<"job", "job">>>>
  BY PayloadsAre
<1> HIDE DEF s
<1>2. /\ Len(s) = 3 /\ DOMAIN s = 1 .. 3
      /\ s[1] = <<"generationId", "id">> /\ s[2] = <<"jobId", "id">> /\ s[3] = <<"job", "job">>
  BY <1>1
<1>3. IsSchema(s) /\ Names(s) = {"generationId", "jobId", "job"}
  BY <1>2 DEF IsSchema, Names
<1>4. QED
  BY <1>1, <1>2, <1>3 DEF s

LEMMA RequestIsAMessage ==
    ASSUME NEW j, IsConverted(j) PROVE IsMessageObject(RequestOf(j))
<1> DEFINE m == RequestOf(j)
           s == Payload["submitJobRequest"]
<1>1. /\ m.class = "submitJobRequest" /\ m.messageType = "submitJobRequest"
      /\ HasFields(m, MessageFields)
      /\ HasFields(m.payload, {"generationId", "jobId", "job"})
      /\ m.payload.job = Object(j)
  BY RequestIs
<1>2. /\ "submitJobRequest" \in DOMAIN Payload /\ Len(s) = 3
      /\ Names(s) = {"generationId", "jobId", "job"}
      /\ s[1] = <<"generationId", "id">> /\ s[2] = <<"jobId", "id">> /\ s[3] = <<"job", "job">>
  BY RequestSchema
<1>3. IsJobObject(j)
  BY ConvertedJob
<1> HIDE DEF m, s
<1>4. \A v : IsPartObject("id", v)
  BY DEF IsPartObject
<1>5. IsPartObject("job", Object(j))
  BY <1>3 DEF IsPartObject, Object
<1>6. \A k \in 1 .. Len(s) : IsPartObject(s[k][2], m.payload[s[k][1]])
  <2>1. \A k \in 1 .. 3 : k \in 1 .. 2 \/ k = 3
    OBVIOUS
  <2>2. \A k \in 1 .. 2 : s[k][2] = "id"
    BY <1>2
  <2>3. s[3][2] = "job" /\ m.payload[s[3][1]] = Object(j)
    BY <1>1, <1>2
  <2>4. QED
    BY <1>2, <1>4, <1>5, <2>1, <2>2, <2>3
<1>7. QED
  BY <1>1, <1>2, <1>6 DEF s, m, IsMessageObject

LEMMA RequestIsChecked ==
    ASSUME NEW j, IsConverted(j) PROVE CheckMessage(RequestOf(j)) \in Fits \/ Spoilt(j)
<1> DEFINE m == RequestOf(j)
           p == m.payload
           s == Payload["submitJobRequest"]
           c == FirstFailure([k \in 1 .. Len(s) |-> CheckPart(s[k][2], p[s[k][1]])])
<1>1. /\ m.class = "submitJobRequest" /\ m.messageType = "submitJobRequest"
      /\ m.protocolVersion = Num(1) /\ m.sessionId = Num(1)
      /\ m.sequenceNumber = Num(2) /\ m.requestId = Num(2)
      /\ p.generationId = j.generationId /\ p.jobId = j.jobId /\ p.job = Object(j)
  BY RequestIs
<1>2. /\ "submitJobRequest" \in DOMAIN Payload /\ IsSchema(s) /\ Len(s) = 3
      /\ s[1] = <<"generationId", "id">> /\ s[2] = <<"jobId", "id">> /\ s[3] = <<"job", "job">>
  BY RequestSchema
<1> HIDE DEF m, s
<1>3. CheckEnvelope(m) = "ok"
  <2>1. RequireField("id", Num(1)) = "ok" /\ RequireField("id", Num(2)) = "ok"
    BY IdIsRequired, JobsFit, CodecAssumption
  <2> DEFINE e == EnvelopeIds
  <2>2. /\ IsSchema(e) /\ Len(e) = 3 /\ e[1] = <<"sessionId", "id">>
        /\ e[2] = <<"sequenceNumber", "id">> /\ e[3] = <<"requestId", "id">>
    BY EnvelopeFacts
  <2> HIDE DEF e
  <2>3. \A k \in 1 .. Len(e) : RequireField(e[k][2], m[e[k][1]]) = "ok"
    BY <1>1, <2>1, <2>2
  <2>4. RequireFields(m, e) = "ok"
    BY ONLY <2>2, <2>3, FieldsFacts
  <2>5. QED
    BY <1>1, <2>4, EnvelopeChecks DEF e
<1>4. MatchingIds(p) = "ok"
  BY <1>1 DEF MatchingIds, Require, Object
<1>5. c \in Fits \/ Spoilt(j)
  <2>1. PICK n \in 1 .. MaxIdentifier : j.jobId = Num(n) /\ j.generationId = Num(n)
    BY ConvertedJob
  <2>2. RequireField("id", Num(n)) = "ok"
    BY IdIsRequired, JobsFit, IdentifierAssumption, CodecAssumption
  <2>3. CheckPart("id", j.jobId) = "ok" /\ CheckPart("id", j.generationId) = "ok"
    BY <2>1, <2>2, SimpleKind
  <2>4. CheckPart("job", Object(j)) = CheckJob(j)
    BY DEF CheckPart, Object
  <2>5. CheckJob(j) \in Fits \/ Spoilt(j)
    BY ConvertedJobIsChecked
  <2> HIDE DEF p
  <2>6. c # "ok" => \E k \in 1 .. Len(s) : c = CheckPart(s[k][2], p[s[k][1]])
    BY ONLY <1>2, PartsAreChecked
  <2> HIDE DEF c
  <2>7. \A k \in 1 .. 3 : CheckPart(s[k][2], p[s[k][1]]) \in {"ok", CheckJob(j)}
    <3>1. /\ CheckPart(s[1][2], p[s[1][1]]) = "ok" /\ CheckPart(s[2][2], p[s[2][1]]) = "ok"
          /\ CheckPart(s[3][2], p[s[3][1]]) = CheckJob(j)
      BY <1>1, <1>2, <2>3, <2>4
    <3>2. \A k \in 1 .. 3 : k = 1 \/ k = 2 \/ k = 3
      OBVIOUS
    <3>3. QED
      BY ONLY <3>1, <3>2
  <2>8. QED
    BY <1>2, <2>5, <2>6, <2>7 DEF Fits
<1>6. CheckMessage(m) \in {"ok", CheckEnvelope(m), c, MatchingIds(p)}
  <2> HIDE DEF p, c
  <2>1. m.class \in DOMAIN Payload
    BY <1>1, <1>2
  <2>2. QED
    BY <1>1, <2>1, MessageChecks, Zenon DEF s, p, c
<1> HIDE DEF c
<1>7. QED
  BY <1>3, <1>4, <1>5, <1>6 DEF Fits, m

(* No attribute of the items is a lone surrogate. *)
Writable(j) ==
    \A k \in DOMAIN j.items : \A n \in DOMAIN j.items[k] \ {"type"} : j.items[k][n] # LoneSurrogate

LEMMA SurrogateIsAtom == IsAtom(LoneSurrogate)
<1>1. "loneSurrogate" \notin Keywords
  BY PayloadsAre, ItemSchemas DEF Keywords
<1>2. \A t : LoneSurrogate = Word(t) => t = "loneSurrogate"
  BY DEF LoneSurrogate, Word, Str
<1>3. ~IsContainer(LoneSurrogate)
  BY DEF IsContainer, LoneSurrogate, Word, Str
<1>4. QED
  BY <1>1, <1>2, <1>3 DEF IsAtom

LEMMA FlatScalars ==
    /\ \A n : Flat(LoneSurrogate, Num(n))
    /\ Flat(LoneSurrogate, Word("voice"))
BY DEF Flat, IsContainer, LoneSurrogate, Num, Word, Str

LEMMA RequestIsFlat ==
    ASSUME NEW j, IsConverted(j), Writable(j), CheckMessage(RequestOf(j)) = "ok"
    PROVE  Flat5(LoneSurrogate, MessageToWire(RequestOf(j)))
<1> DEFINE m == RequestOf(j)
           x == LoneSurrogate
           s == Payload["submitJobRequest"]
<1>1. /\ m.class = "submitJobRequest" /\ m.messageType = "submitJobRequest"
      /\ m.protocolVersion = Num(1) /\ m.sessionId = Num(1)
      /\ m.sequenceNumber = Num(2) /\ m.requestId = Num(2)
      /\ m.payload.generationId = j.generationId /\ m.payload.jobId = j.jobId
      /\ m.payload.job = Object(j)
  BY RequestIs
<1>2. /\ "submitJobRequest" \in DOMAIN Payload /\ Len(s) = 3 /\ s[3] = <<"job", "job">>
      /\ Names(s) = {"generationId", "jobId", "job"}
  BY RequestSchema
<1>3. IsAtom(x)
  BY SurrogateIsAtom
<1>4. IsMessageObject(m) /\ IsJobObject(j)
  BY RequestIsAMessage, ConvertedJob
<1> HIDE DEF m, s, x
<1>5. CheckMessage(m) = "ok"
  BY DEF m
<1>6. CheckJob(j) = "ok"
  <2>1. \A k \in 1 .. Len(s) : CheckPart(s[k][2], m.payload[s[k][1]]) = "ok"
    <3>1. m.class \in DOMAIN Payload
      BY <1>1, <1>2
    <3>2. \A k \in 1 .. Len(Payload[m.class]) :
             CheckPart(Payload[m.class][k][2], m.payload[Payload[m.class][k][1]]) = "ok"
      BY ONLY <1>5, <3>1, MessageChecks
    <3>3. s = Payload[m.class]
      BY <1>1 DEF s
    <3>4. QED
      BY ONLY <3>2, <3>3
  <2>2. CheckPart("job", Object(j)) = "ok"
    BY <1>1, <1>2, <2>1
  <2>3. QED
    BY <2>2 DEF CheckPart, Object
<1>7. /\ \A n : Flat(x, Num(n))
      /\ Flat(x, Word("voice"))
  BY FlatScalars DEF x
<1>8. PICK n \in 1 .. MaxIdentifier :
        /\ j.jobId = Num(n) /\ j.generationId = Num(n) /\ j.requestNumber = Num(n)
        /\ j.voiceId = Word("voice") /\ j.rate = Num(1)
  BY ConvertedJob
<1>9. Flat3(x, JobToWire(j))
  <2>1. \A d \in JobFields \ {"items"} : Flat(x, j[d])
    BY <1>7, <1>8, JobSchemaFacts
  <2>2. ASSUME NEW k \in DOMAIN j.items, NEW d \in DOMAIN j.items[k] \ {"type"}
        PROVE  Flat(x, j.items[k][d])
    <3>1. IsItemObject(j.items[k]) /\ CheckItem(j.items[k]) = "ok"
      BY <1>4, <1>6, JobIsChecked
    <3>2. Flat(Infinite, j.items[k][d])
      BY <3>1, ItemIsFlat
    <3>3. QED
      BY <3>2 DEF Flat, Writable, x
  <2>3. QED
    BY ONLY <1>3, <1>4, <2>1, <2>2, JobIsFlat
<1>10. ASSUME NEW d \in Names(Payload[m.class]) PROVE Flat3(x, PartToWire(d, m.payload[d]))
  <2>1. d \in {"generationId", "jobId", "job"}
    BY <1>1, <1>2 DEF s
  <2>2. CASE d = "job"
    BY <1>1, <1>9, <2>2 DEF PartToWire, Object
  <2>3. CASE d # "job"
    <3>1. d \notin Composite /\ Flat(x, m.payload[d])
      BY <1>1, <1>7, <1>8, <2>1, <2>3 DEF Composite
    <3>2. PartToWire(d, m.payload[d]) = m.payload[d]
      BY <3>1, SimplePart
    <3>3. QED
      BY <3>1, <3>2, FlatIsFlatter
  <2>4. QED
    BY <2>2, <2>3
<1>11. \A d \in RootFields \ {"messageType", "payload"} : Flat(x, m[d])
  BY <1>1, <1>7 DEF RootFields
<1>12. Flat5(x, MessageToWire(m))
  BY ONLY <1>3, <1>4, <1>10, <1>11, MessageIsFlat
<1>13. QED
  BY <1>12 DEF x, m

(* What becomes of it when it is encoded. *)
LEMMA RequestIsSent ==
    ASSUME NEW j, IsConverted(j), NEW r, r = EncodeMessage(RequestOf(j))
    PROVE  \/ r[1] = "ok"
           \/ r[1] = "error" /\ r[2] \in {"jobSizeLimitExceeded", "oversizedFrame"}
           \/ ~Writable(j) \/ Spoilt(j)
<1> DEFINE m == RequestOf(j)
           v == MessageToWire(m)
           e == CheckMessage(m)
<1>1. e \in Fits \/ Spoilt(j)
  BY RequestIsChecked
<1>2. e = "ok" /\ Writable(j) => LoneSurrogate \notin Inside(v)
  BY RequestIsFlat, FlatDocument
<1>3. \/ e = "raises"
      \/ e # "ok" /\ r = <<"error", e>>
      \/ e = "ok" /\ LoneSurrogate \in Inside(v)
      \/ r = <<"error", "oversizedFrame">>
      \/ r = <<"ok", <<"json", v>>>>
  <2>1. CASE e # "ok" /\ e # "raises"
    BY <2>1 DEF EncodeMessage, Refusal
  <2>2. CASE e = "ok" /\ LoneSurrogate \notin Inside(v) /\ FrameLength(v) > Limits["frame"]
    BY <2>2 DEF EncodeMessage
  <2>3. CASE e = "ok" /\ LoneSurrogate \notin Inside(v) /\ ~(FrameLength(v) > Limits["frame"])
    BY <2>3 DEF EncodeMessage
  <2>4. QED
    BY <2>1, <2>2, <2>3
<1> HIDE DEF e, v, m
<1>4. CASE r = <<"ok", <<"json", v>>>>
  BY <1>4
<1>5. CASE e # "ok" /\ r = <<"error", e>>
  BY <1>1, <1>5 DEF Fits
<1>6. QED
  BY <1>1, <1>2, <1>3, <1>4, <1>5 DEF Fits

-----------------------------------------------------------------------------
(* Messages on their way. *)

(* What a frame that was damaged has become. *)
Garbled(f) ==
    \/ \E u \in DOMAIN Unreadable : f = <<"ok", <<u>>>>
    \/ \E w : IsDocument(w) /\ f = <<"ok", <<"json", w>>>>

(* What the two ends have of a message at each stage. *)
Exchanged ==
    /\ stage = "idle" => job = NoJob
    /\ stage \in {"idle", "spoken"} => ~damaged /\ received = Nothing
    /\ stage \in {"receiving", "received"} =>
          /\ IsMessageObject(message) /\ (job # NoJob => message = RequestOf(job))
          /\ ~damaged => frame = EncodeMessage(message)
          /\ damaged => Garbled(frame)
    /\ stage = "receiving" => frame[1] = "ok"
    /\ stage = "received" => received = IF frame[1] = "ok" THEN DecodeMessage(frame[2]) ELSE Nothing

(* Every step is one that the audio path knows. *)
LEMMA StepIsASegmentsStep == [Next]_vars => [NextSegments]_vars
<1> SUFFICES ASSUME [Next]_vars PROVE [NextSegments]_vars
  OBVIOUS
<1>1. CASE Send
  BY <1>1 DEF Send, NextSegments
<1>2. CASE Damage
  BY <1>2 DEF Damage, NextSegments
<1>3. CASE Receive
  BY <1>3 DEF Receive, NextSegments
<1>4. CASE SpeakSequence \/ Forget \/ SendSegment \/ ReceiveAudio \/ CacheAudio \/ UNCHANGED vars
  BY <1>4 DEF NextSegments
<1>5. QED
  BY <1>1, <1>2, <1>3, <1>4 DEF Next

(* The messages of the protocol, and what may happen to their frames, disturb
   neither the conversion of speech nor the audio of its segments. *)
THEOREM TransferIsAnAudioPath == Spec => SpecSegments
BY StepIsASegmentsStep, PTL DEF Spec, SpecSegments

LEMMA SendStep ==
    ASSUME JobIsConverted, Exchanged, Send PROVE Exchanged'
<1>1. ~damaged /\ received = Nothing /\ UNCHANGED <<job, damaged, received>>
  BY DEF Send, Exchange, Exchanged, jobVars
<1>2. /\ frame' = EncodeMessage(message')
      /\ stage' = IF frame'[1] = "ok" THEN "receiving" ELSE "received"
  BY DEF Send
<1>3. IsMessageObject(message') /\ (job # NoJob => message' = RequestOf(job))
  <2>1. CASE job # NoJob /\ message' = JobMessage
    <3>1. message' = RequestOf(job) /\ IsConverted(job)
      BY <2>1 DEF JobMessage, RequestOf, JobIsConverted
    <3>2. QED
      BY <3>1, RequestIsAMessage
  <2>2. CASE stage = "idle" /\ message' \in Messages
    BY <2>2, MessagesAssumption DEF Exchanged
  <2>3. QED
    BY <2>1, <2>2 DEF Send
<1>4. QED
  BY <1>1, <1>2, <1>3 DEF Exchanged

LEMMA DamageStep ==
    ASSUME Exchanged, Damage PROVE Exchanged'
<1>1. UNCHANGED <<job, stage, message>> /\ damaged' /\ stage \in {"receiving", "answering"}
  BY DEF Damage, Garble, jobVars
<1>2. Garbled(frame') /\ frame'[1] = "ok"
  <2>1. CASE \E w \in Damaged(frame[2][2]) : IsDocument(w) /\ frame' = <<"ok", <<"json", w>>>>
    <3>1. PICK w : IsDocument(w) /\ frame' = <<"ok", <<"json", w>>>>
      BY <2>1
    <3>2. QED
      BY <3>1 DEF Garbled
  <2>2. CASE \E u \in DOMAIN Unreadable : frame' = <<"ok", <<u>>>>
    <3>1. PICK u \in DOMAIN Unreadable : frame' = <<"ok", <<u>>>>
      BY <2>2
    <3>2. QED
      BY <3>1 DEF Garbled
  <2>3. QED
    BY <2>1, <2>2 DEF Damage
<1>3. QED
  BY <1>1, <1>2 DEF Exchanged

LEMMA ReceiveStep ==
    ASSUME Exchanged, Receive PROVE Exchanged'
<1>1. /\ stage = "receiving" /\ stage' = "received" /\ received' = DecodeMessage(frame[2])
      /\ UNCHANGED <<job, message, frame, damaged>>
  BY DEF Receive, Exchange, jobVars
<1>2. QED
  BY <1>1 DEF Exchanged

LEMMA ExchangeStep == JobIsConverted /\ Exchanged /\ [Next]_vars => Exchanged'
<1> SUFFICES ASSUME JobIsConverted, Exchanged, [Next]_vars PROVE Exchanged'
  OBVIOUS
<1>1. CASE UNCHANGED vars
  BY <1>1, Zenon DEF vars, jobVars, transferVars, Exchanged
<1>2. CASE SpeakSequence
  BY <1>2 DEF SpeakSequence, Exchanged
<1>3. CASE Forget
  BY <1>3 DEF Forget, ForgetSpeech, Exchanged
<1>4. CASE Send
  BY <1>4, SendStep
<1>5. CASE Damage
  BY <1>5, DamageStep
<1>6. CASE Receive
  BY <1>6, ReceiveStep
<1>7. CASE SendSegment
  BY <1>7 DEF SendSegment, Exchanged
<1>8. CASE ReceiveAudio \/ CacheAudio
  BY <1>8 DEF ReceiveAudio, CacheAudio, Exchanged
<1>9. QED
  BY <1>1, <1>2, <1>3, <1>4, <1>5, <1>6, <1>7, <1>8 DEF Next

LEMMA AlwaysExchanged == Spec => [](JobIsConverted /\ Exchanged)
<1>1. Init => Numbered /\ JobIsConverted /\ Exchanged
  BY NumberedInit DEF Init, InitJobs, JobIsConverted, Exchanged
<1>2. QED
  BY <1>1, StepIsASegmentsStep, SegmentsStepIsAJobsStep, NumberedStep, JobIsConvertedStep, ExchangeStep, PTL
     DEF Spec

(* Whatever message is sent, and whatever is in it, what the decoder makes of
   its frame is the message. *)
THEOREM MessagesRoundTrip == Spec => []RoundTrip
<1>1. Exchanged => RoundTrip
  <2> SUFFICES ASSUME Exchanged, stage = "received", frame[1] = "ok", ~damaged
               PROVE  received = <<"ok", message>>
    BY DEF RoundTrip
  <2>1. IsMessageObject(message) /\ frame = EncodeMessage(message) /\ received = DecodeMessage(frame[2])
    BY DEF Exchanged
  <2>2. QED
    BY <2>1, EncodedIsDecoded
<1>2. QED
  BY <1>1, AlwaysExchanged, PTL

(* Whatever JSON a frame holds, the decoder accepts it only if it is what the
   encoder makes of the message that was found in it. *)
THEOREM DecoderIsExact == Spec => []DecodedIsEncodable
<1>1. Exchanged => DecodedIsEncodable
  <2> SUFFICES ASSUME Exchanged, stage = "received", received[1] = "ok"
               PROVE  \/ EncodeMessage(received[2]) = frame
                      \/ /\ LoneSurrogate \in Inside(frame[2][2])
                         /\ EncodeMessage(received[2]) = <<"raises">>
    BY DEF DecodedIsEncodable
  <2>1. frame[1] = "ok" /\ received = DecodeMessage(frame[2]) /\ IsMessageObject(message)
    BY DEF Exchanged, Nothing
  <2>2. CASE ~damaged
    <3>1. frame = EncodeMessage(message)
      BY <2>2 DEF Exchanged
    <3>2. received = <<"ok", message>>
      BY <2>1, <3>1, EncodedIsDecoded
    <3>3. QED
      BY <3>1, <3>2
  <2>3. ASSUME NEW u \in DOMAIN Unreadable, frame = <<"ok", <<u>>>> PROVE FALSE
    <3> DEFINE f == <<u>>
    <3>1. frame[2] = f /\ f[1] = u /\ u # "json"
      BY <2>3 DEF Unreadable
    <3> HIDE DEF f
    <3>2. DecodeMessage(f)[1] # "ok"
      BY <3>1 DEF DecodeMessage, Refusal
    <3>3. QED
      BY <2>1, <3>1, <3>2
  <2>4. ASSUME NEW w, IsDocument(w), frame = <<"ok", <<"json", w>>>>
        PROVE  \/ EncodeMessage(received[2]) = frame
               \/ LoneSurrogate \in Inside(w) /\ EncodeMessage(received[2]) = <<"raises">>
    <3>1. frame[2] = <<"json", w>> /\ frame[2][2] = w
      BY <2>4
    <3>2. DecodeMessage(<<"json", w>>)[1] = "ok" /\ received = DecodeMessage(<<"json", w>>)
      BY <2>1, <3>1
    <3>3. IF LoneSurrogate \in Inside(w) THEN EncodeMessage(received[2]) = <<"raises">>
          ELSE EncodeMessage(received[2]) = <<"ok", <<"json", w>>>>
      BY <2>4, <3>2, DecodedIsEncoded
    <3>4. QED
      BY <2>4, <3>3
  <2>5. CASE damaged
    <3>1. Garbled(frame)
      BY <2>5 DEF Exchanged
    <3>2. PICK w : IsDocument(w) /\ frame = <<"ok", <<"json", w>>>>
      BY <2>3, <3>1 DEF Garbled
    <3>3. frame[2][2] = w
      BY <3>2
    <3>4. QED
      BY <2>4, <3>2, <3>3
  <2>6. QED
    BY <2>2, <2>5
<1>2. QED
  BY <1>1, AlwaysExchanged, PTL

(* Whatever NVDA says, the encoder takes the job that is made of it, but for its
   length, a lone surrogate in it, or an item that is beyond the wire. *)
THEOREM SpeechTravels == Spec => []ConvertedJobsTravel
<1>1. JobIsConverted /\ Exchanged => ConvertedJobsTravel
  <2> SUFFICES ASSUME JobIsConverted, Exchanged, stage = "received", job # NoJob, frame[1] \in {"error", "raises"}
               PROVE  \/ frame[1] = "error" /\ frame[2] \in {"jobSizeLimitExceeded", "oversizedFrame"}
                      \/ \E k \in DOMAIN job.items :
                            LoneSurrogate \in {job.items[k][n] : n \in DOMAIN job.items[k] \ {"type"}}
                      \/ \E k \in DOMAIN job.items : BeyondTheWire(job.items[k])
    BY Zenon DEF ConvertedJobsTravel
  <2>1. ~Garbled(frame)
    BY DEF Garbled
  <2>2. frame = EncodeMessage(RequestOf(job)) /\ IsConverted(job)
    BY <2>1 DEF Exchanged, JobIsConverted
  <2>3. \/ frame[1] = "ok"
        \/ frame[1] = "error" /\ frame[2] \in {"jobSizeLimitExceeded", "oversizedFrame"}
        \/ ~Writable(job) \/ Spoilt(job)
    BY <2>2, RequestIsSent
  <2>4. QED
    BY <2>3 DEF Writable, Spoilt
<1>2. QED
  BY <1>1, AlwaysExchanged, PTL

(* All that is proved of the conversion and of the audio path holds with the
   protocol's messages in between. *)
THEOREM SpeechIsSafe ==
    Spec => [](/\ GenerationsIncrease /\ SegmentsSayTheSpeech /\ IndexesAreAnswered
               /\ SegmentsAreHeard /\ SustainedSpeechIsKept)
BY TransferIsAnAudioPath, AudioPathConverts, GenerationsAreFresh, SpeechIsSaid, EveryIndexIsAnswered,
   SegmentAudioIsHeard, SustainedSoundsStay, PTL
=============================================================================
