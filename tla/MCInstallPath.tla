--------------------------- MODULE MCInstallPath ---------------------------
(* A small instance of InstallPath.                                        *)
EXTENDS InstallPath, TLC

CONSTANTS k1, k2, id1, id2, m1, m2

Packet(surface, artifact, identity, accepted) ==
    [surface |-> surface, artifact |-> artifact, identity |-> identity,
     accepted |-> accepted]

\* For k1: an accepted packet of each surface, a hit packet of another identity,
\* and a rejected one.  For k2: an accepted insertion.
MCPackets ==
    {Packet("CacheInsert", k1, id1, TRUE), Packet("CacheHit", k1, id1, TRUE),
     Packet("CacheHit", k1, id2, TRUE), Packet("CacheHit", k1, id1, FALSE),
     Packet("CacheInsert", k2, id1, TRUE)}

MCOutcomes == {"HitInstallable", "Stale"}

\* One mark leaves the request fresh, the other makes it stale.
MCMarkTo == m1 :> 1 @@ m2 :> 2

\* Every entry point with every defect; one request ends installable.
MCRequests ==
    [entry : {"compile_with", "Object", "ExecutableMemory"}, install_intent : {"Install"},
     defects : {{d} : d \in {"stale", "policy", "strength", "manifest", "report"}}]
    \cup [entry : {"Object", "ExecutableMemory"}, install_intent : {"Install"},
          defects : {{"signature"}, {"identity"}, {"verifier"}}]
    \cup [entry : {"Object", "compile_with"}, install_intent : {"CompileOnly"},
          defects : {{}}]
    \cup [entry : {"ExecutableMemory"}, install_intent : {"Install"}, defects : {{}}]

\* Conditional branches reach 4 words back and 3 ahead, a B 16 and 15.
MCBits == [op \in BranchOps |-> IF op = "b" THEN 5 ELSE 3]

Ops(n) == [i \in 1..n |-> Plain(i)]

Heads ==
    {Ops(1) \o <<Cond("tbz", 1, TRUE, t), Cond("tbz", 2, FALSE, u),
                 Cond("bcond", 3, TRUE, t)>> \o Ops(1) : t \in {1, 3}, u \in {2, 3}}
    \cup {TrapUnless(1) \o <<Pseudo, Cond("bcond", 2, TRUE, t), B(3)>> : t \in 1..3}

\* Three blocks: the first has several branches, so that two passes may not be
\* enough; what the first pass inserts may push those of the others out of range.
MCFunctions ==
    {<<head, middle, tail>> : head \in Heads,
        middle \in {Ops(3), <<Cond("tbz", 1, TRUE, 1)>> \o TrapUnless(2),
                    <<Cond("tbz", 1, TRUE, 3)>> \o TrapUnless(2)},
        tail \in {Ops(2) \o <<Cond("bcond", 1, FALSE, 2)>> \o Ops(1), Ops(9) \o <<B(1)>>}}

Product(mode, identified) ==
    [artifact |-> k1, consumer |-> "ay", family |-> "f", policy |-> "p",
     mode |-> mode, identified |-> identified, admissible |-> TRUE]

MCProducts ==
    {Product("ActiveInstallable", TRUE), Product("ShadowOnly", FALSE)}

Switch(scope, active) ==
    [scope |-> scope, active |-> active, consumer |-> "ay", family |-> "f",
     artifact |-> k2, policy |-> "p", mode |-> "ActiveInstallable"]

MCSwitches == {Switch("Mode", TRUE)}
=============================================================================
