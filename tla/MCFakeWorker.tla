----------------------------- MODULE MCFakeWorker -----------------------------
(* Identifiers of requests and jobs are only compared with one another: it is
   enough to follow the behaviours that use them in the order 1, 2, ... *)
EXTENDS FakeWorker

CONSTANTS s1, s2, r1, r2

Sessions == {s1, s2}
Requests == 1 .. MAX_TRACKED_REQUESTS
Jobs == 1 .. 3
Results == {r1, r2}

InOrder ==
    /\ sessionId # s2
    /\ acceptedRequestIds = 1 .. Cardinality(acceptedRequestIds)
    /\ DOMAIN acceptedJobs = 1 .. Cardinality(DOMAIN acceptedJobs)
===============================================================================
