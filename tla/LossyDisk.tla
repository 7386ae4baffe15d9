----------------------------- MODULE LossyDisk -----------------------------
(***************************************************************************)
(* What the JIT compile cache may assume of its disk tier                  *)
(* (jit_disk_cache.rs): a key becomes readable when a call that stores it  *)
(* completes, and stops being readable at any time.                        *)
(***************************************************************************)
CONSTANTS Procs, Keys, None

VARIABLES
    readable,   \* the keys whose file decodes to the text stored for them
    storing     \* process -> the key it is storing, or None

Init == readable = {} /\ storing = [p \in Procs |-> None]

Begin(p, k) ==
    /\ storing[p] = None
    /\ storing' = [storing EXCEPT ![p] = k]
    /\ UNCHANGED readable

Complete(p) ==
    /\ storing[p] # None
    /\ readable' = readable \cup {storing[p]}
    /\ storing' = [storing EXCEPT ![p] = None]

\* The call failed or its process died.
Abort(p) ==
    /\ storing[p] # None
    /\ storing' = [storing EXCEPT ![p] = None]
    /\ UNCHANGED readable

Lose(k) == readable' = readable \ {k} /\ UNCHANGED storing

Next ==
    \/ \E p \in Procs : (\E k \in Keys : Begin(p, k)) \/ Complete(p) \/ Abort(p)
    \/ \E k \in Keys : Lose(k)

Spec == Init /\ [][Next]_<<readable, storing>>
=============================================================================
