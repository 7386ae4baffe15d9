--------------------------- MODULE MCAsyncCompile ---------------------------
(* Instances of AsyncCompile for TLC. *)
EXTENDS AsyncCompile

CONSTANTS i1, i2, k1, t1, t2, t3

MCRequest(i, g, sb, f, k, t) ==
    [id |-> i, generation |-> g, stale_before |-> sb, fenced |-> f,
     key |-> k, token |-> t]

\* Two submissions of i1 (the second fresher), two of i2: one that competes for
\* the same manifest key, one with only a request-local bound and no manifest.
MCRequests ==
    {MCRequest(i1, 1, None, TRUE, k1, t1), MCRequest(i1, 2, None, TRUE, k1, t2),
     MCRequest(i2, 2, None, FALSE, k1, t3), MCRequest(i2, 1, 1, TRUE, None, t1)}

MCPacket(s, a) == [surface |-> s, artifact |-> k1, accepted |-> a]
GoodPacket == MCPacket("AsyncPoll", TRUE)
MCPackets == {GoodPacket, MCPacket("CacheHit", TRUE), MCPacket("AsyncPoll", FALSE)}

MCResponse(s, d, a, g) ==
    [status |-> s, disposition |-> d, artifact |-> a, gate |-> g]

\* Every arm of state_for_response, and every arm of the gate check.
MCResponses ==
    {MCResponse("Compiled", "Installable", k1, g) : g \in MCPackets \cup {None}}
    \cup {MCResponse("Compiled", "ProfileOnly", k1, None),
          MCResponse("Compiled", "Installable", None, None)}
    \cup {MCResponse(s, "Rejected", None, None) : s \in {"Cancelled", "Stale", "Failed"}}

\* For the questions the gate data has no part in.
FewPackets == {GoodPacket}
FewResponses ==
    {MCResponse("Compiled", "Installable", k1, g) : g \in {GoodPacket, None}}

\* For the questions about gate data and about ends: one request per id, of which
\* one can become stale.
PublishRequests ==
    {MCRequest(i1, 0, None, TRUE, k1, t1), MCRequest(i2, 0, None, FALSE, None, t2)}

\* Two requests that share an id and differ in token, for a ticket that outlives
\* its request, and a third whose end evicts the first one's result.
ReusedIdRequests ==
    {MCRequest(i1, 2, None, FALSE, k1, t1), MCRequest(i1, 2, None, FALSE, k1, t2),
     MCRequest(i2, 2, None, FALSE, None, t3)}
=============================================================================
