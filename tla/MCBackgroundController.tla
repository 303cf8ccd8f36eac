----------------------- MODULE MCBackgroundController -----------------------
(* Constant values for model-checking BackgroundController. *)
EXTENDS BackgroundController

Seg(text, indexes) == [text |-> text, indexes |-> indexes]
Utterance(category, segments) == [category |-> category, segments |-> segments]

(* Read All: two long segments, an index after each. *)
Reading == Utterance("ordered", <<Seg("long", 1), Seg("long", 1)>>)
(* An ordered request whose index precedes its text. *)
IndexFirst == Utterance("ordered", <<Seg("empty", 1), Seg("long", 0)>>)
(* Focus and mouse-over speech. *)
Focus == Utterance("navigation", <<Seg("plain", 1)>>)
(* A typed character. *)
Typed == Utterance("character", <<Seg("character", 1)>>)

FaultyShapes == {IndexFirst, Typed}
SpokenShapes == {Reading, Focus, Typed}
TypedAndFocus == {Focus, Typed}
OnlyTyped == {Typed}
AllFaults == {"synthesis", "playback", "dispatch"}
NoFaults == {}
=============================================================================
