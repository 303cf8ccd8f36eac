----------------------------- MODULE MCSpeechDriver -----------------------------
(* Constant values for model-checking SpeechDriver. *)
EXTENDS SpeechDriver

Seg(text, indexes) == [text |-> text, indexes |-> indexes]
Utterance(category, segments) == [category |-> category, segments |-> segments]

Reading == Utterance("ordered", <<Seg("long", 1), Seg("long", 1)>>)
Focus == Utterance("navigation", <<Seg("plain", 1)>>)
Typed == Utterance("character", <<Seg("character", 1)>>)

SpokenShapes == {Reading, Focus, Typed}
PlaybackFails == {"playback"}
NoFaults == {}
=================================================================================
