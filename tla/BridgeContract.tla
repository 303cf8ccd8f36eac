---------------------------- MODULE BridgeContract ----------------------------
(***************************************************************************)
(* What the background controller may expect of its runtime bridge: a call *)
(* of synthesize ends, and as long as no interrupt came since the request   *)
(* read its token it ends with speech or an error, afterwards without       *)
(* speech.  BackgroundController's Synthesize step has these outcomes.       *)
(***************************************************************************)
VARIABLES
    phase,    \* "idle", "ready" (a request holds a token) or "calling"
    stale,    \* interrupted since the request read its token
    ending    \* how the last call ended: "none", "speech", "cancelled", "error"

contractVars == <<phase, stale, ending>>

Init == phase = "idle" /\ stale = FALSE /\ ending = "none"

ReadToken == phase = "idle" /\ phase' = "ready" /\ stale' = FALSE /\ UNCHANGED ending

Interrupt == stale' = TRUE /\ UNCHANGED <<phase, ending>>

Call == phase = "ready" /\ phase' = "calling" /\ ending' = "none" /\ UNCHANGED stale

Refuse == phase = "ready" /\ stale /\ phase' = "idle" /\ ending' = "cancelled" /\ UNCHANGED stale

EndRequest == phase = "ready" /\ phase' = "idle" /\ UNCHANGED <<stale, ending>>

Return ==
    /\ phase = "calling"
    /\ \/ ~stale /\ phase' = "ready" /\ ending' = "speech"
       \/ stale /\ phase' = "idle" /\ ending' = "cancelled"
       \/ phase' = "idle" /\ ending' = "error"
    /\ UNCHANGED stale

Next == ReadToken \/ Interrupt \/ Call \/ Refuse \/ EndRequest \/ Return

Safety == Init /\ [][Next]_contractVars
CallsReturn == WF_contractVars(Return)
Spec == Safety /\ CallsReturn
===============================================================================
