---------------------------- MODULE CompileGates ----------------------------
(***************************************************************************)
(* One compile request on its way through the synchronous compile service  *)
(* (compile_service.rs): the gates that read the cancellation token and    *)
(* the generation fence, the preflights between them, the backend, and the *)
(* response.  Owners of the token and of the fence act at any time; the    *)
(* fence is raised by a compare-and-swap loop.  A gate reads the token and *)
(* the fence one after the other.                                          *)
(***************************************************************************)
EXTENDS BranchRelax

CONSTANTS
    Generation,   \* the request's generation
    Markers,      \* threads that call mark_stale_before
    MarkTo,       \* marker -> the generation it passes
    Requests,     \* see RequestFields
    Functions     \* the machine functions the backend may be given

\* What a preflight can object to, the stage that objects, and the response.
Objections ==
    [strength |-> "Rejected", manifest |-> "Rejected", signature |-> "Rejected",
     identity |-> "Failed", verifier |-> "Rejected"]

Gates == {"before_compile", "before_lowering", "before_executable_allocation",
          "before_install"}

\* entry: compile_with, or the artifact kind of compile_with_extern_symbols.
\* defects: the stages that object; "stale", a stale_before of the request itself
\* above its generation; "policy", the proof policy preflight of every gate;
\* "report", proofs or a proof report that are not accepted.  install_intent:
\* "CompileOnly" also stands for a profile with hooks or entry counters.
RequestFields ==
    [entry : {"compile_with", "Object", "ExecutableMemory"},
     defects : SUBSET (DOMAIN Objections \cup {"stale", "policy", "report"}),
     install_intent : {"CompileOnly", "Install"}]

ASSUME GatesAssumption ==
    /\ Generation \in Nat
    /\ MarkTo \in [Markers -> Nat]
    /\ Requests \subseteq RequestFields
    /\ \A func \in Functions : WellFormed(func)

VARIABLES
    cancelled,    \* the CancellationToken
    stale_before, \* the CompileGenerationFence
    mark,         \* marker -> its place in mark_stale_before and the value it read
    request,      \* the request's inputs
    response,     \* stages done, status, disposition, the function and its code
    unwanted      \* history: what was signalled before the last gate looked

gateVars == <<cancelled, stale_before, mark, request, response, unwanted>>

\* compile_with and compile_with_extern_symbols
Stages ==
    CASE request.entry = "compile_with" ->
           <<"before_compile", "strength", "manifest", "before_lowering",
             "before_executable_allocation", "backend", "before_install", "finish">>
      [] request.entry = "Object" ->
           <<"before_compile", "strength", "manifest", "signature", "identity",
             "before_lowering", "verifier", "backend", "before_install", "finish">>
      [] request.entry = "ExecutableMemory" ->
           <<"before_compile", "strength", "manifest", "signature", "identity",
             "before_lowering", "verifier", "before_executable_allocation",
             "backend", "before_install", "finish">>

GatesInit ==
    /\ cancelled = FALSE /\ stale_before = 0
    /\ mark = [m \in Markers |-> [at |-> "idle", current |-> 0]]
    /\ request \in Requests
    /\ response = [done |-> 0, token_read |-> FALSE, status |-> "Running",
                   disposition |-> "Rejected", lowered |-> "none",
                   func |-> <<>>, code |-> <<>>]
    /\ unwanted = {}

Running == response.status = "Running"

Stage == Stages[response.done + 1]

\* The stages not yet done, the current one included.
Ahead == {Stages[i] : i \in response.done + 1 .. Len(Stages)}

\* The last gate has not read the token, or the fence, yet.
TokenAhead == Running /\ "before_install" \in Ahead
              /\ ~(Stage = "before_install" /\ response.token_read)

FenceAhead == Running /\ "before_install" \in Ahead

-----------------------------------------------------------------------------
(* CancellationToken and CompileGenerationFence                            *)

\* cancel; once the last gate has read the token, nothing does.
Cancel ==
    /\ TokenAhead /\ ~cancelled
    /\ cancelled' = TRUE
    /\ unwanted' = unwanted \cup {"cancelled"}
    /\ UNCHANGED <<stale_before, mark, request, response>>

\* mark_stale_before returns: from now on its generation is a promise.
Marked(m) ==
    /\ mark' = [mark EXCEPT ![m] = [at |-> "done", current |-> 0]]
    /\ unwanted' = IF FenceAhead /\ MarkTo[m] > Generation
                   THEN unwanted \cup {"stale"} ELSE unwanted

LoadFence(m) ==
    /\ mark[m].at = "idle"
    /\ mark' = [mark EXCEPT ![m] = [at |-> "loop", current |-> stale_before]]
    /\ UNCHANGED <<cancelled, stale_before, request, response, unwanted>>

LeaveLoop(m) ==
    /\ mark[m].at = "loop" /\ MarkTo[m] <= mark[m].current
    /\ Marked(m)
    /\ UNCHANGED <<cancelled, stale_before, request, response>>

\* Mutant: the fence is stored, whatever it is by now.
MutExchange(m) ==
    /\ mark[m].at = "loop" /\ MarkTo[m] > mark[m].current
    /\ stale_before' = MarkTo[m]
    /\ Marked(m)
    /\ UNCHANGED <<cancelled, request, response>>

\* compare_exchange_weak succeeds
Exchange(m) ==
    /\ mark[m].at = "loop" /\ MarkTo[m] > mark[m].current
    /\ stale_before = mark[m].current
    /\ stale_before' = MarkTo[m]
    /\ Marked(m)
    /\ UNCHANGED <<cancelled, request, response>>

\* compare_exchange_weak fails: the fence has moved, or for no reason (which
\* changes nothing).
ExchangeFails(m) ==
    /\ mark[m].at = "loop" /\ MarkTo[m] > mark[m].current
    /\ mark' = [mark EXCEPT ![m].current = stale_before]
    /\ UNCHANGED <<cancelled, stale_before, request, response, unwanted>>

-----------------------------------------------------------------------------
(* The request                                                             *)

\* The response is given; of what was lowered, the caller keeps nothing.
Respond(status, disposition) ==
    response' = [response EXCEPT !.status = status, !.disposition = disposition,
                                 !.lowered = "none", !.func = <<>>, !.code = <<>>]

Advance == response' = [response EXCEPT !.done = @ + 1, !.token_read = FALSE]

\* check_gate: the token first
GateToken ==
    /\ Running /\ Stage \in Gates /\ ~response.token_read
    /\ IF cancelled THEN Respond("Cancelled", "Rejected")
       ELSE response' = [response EXCEPT !.token_read = TRUE]
    /\ UNCHANGED <<cancelled, stale_before, mark, request, unwanted>>

\* effective_stale_before, is_stale
IsStale == "stale" \in request.defects \/ Generation < stale_before

\* Mutant: only the first gate looks at the fence.
MutGateFence ==
    /\ Running /\ Stage \in Gates /\ response.token_read
    /\ IF Stage = "before_compile" /\ IsStale THEN Respond("Stale", "Rejected")
       ELSE IF "policy" \in request.defects THEN Respond("Rejected", "Rejected")
       ELSE Advance
    /\ UNCHANGED <<cancelled, stale_before, mark, request, unwanted>>

\* check_gate: then the fence, then the proof policy
GateFence ==
    /\ Running /\ Stage \in Gates /\ response.token_read
    /\ IF IsStale THEN Respond("Stale", "Rejected")
       ELSE IF "policy" \in request.defects THEN Respond("Rejected", "Rejected")
       ELSE Advance
    /\ UNCHANGED <<cancelled, stale_before, mark, request, unwanted>>

\* required_strength_rejection_response, the manifest preflights,
\* artifact_identity_for_module, verifier_rejection_response
Preflight ==
    /\ Running /\ Stage \in DOMAIN Objections
    /\ IF Stage \in request.defects THEN Respond(Objections[Stage], "Rejected") ELSE Advance
    /\ UNCHANGED <<cancelled, stale_before, mark, request, unwanted>>

\* compile(), compile_object_payload, compile_executable_payload
Backend ==
    /\ Running /\ Stage = "backend"
    /\ \E func \in Functions :
          LET lower == Lower(func)
              lowered == [response EXCEPT !.lowered = lower.result, !.func = func,
                                          !.code = lower.code]
          IN  response' = IF lower.result = "Encoded"
                          THEN [lowered EXCEPT !.done = @ + 1]
                          ELSE [lowered EXCEPT !.status = "Failed"]
    /\ UNCHANGED <<cancelled, stale_before, mark, request, unwanted>>

\* apply_install_disposition: the strictest of policy, report and intent
Disposition ==
    IF "report" \in request.defects THEN "Rejected"
    ELSE IF request.install_intent = "CompileOnly" THEN "ProfileOnly"
    ELSE "Installable"

Finish ==
    /\ Running /\ Stage = "finish"
    /\ Respond("Compiled", Disposition)
    /\ UNCHANGED <<cancelled, stale_before, mark, request, unwanted>>

GatesNext ==
    \/ Cancel
    \/ \E m \in Markers :
          LoadFence(m) \/ LeaveLoop(m) \/ Exchange(m) \/ ExchangeFails(m)
    \/ GateToken \/ GateFence \/ Preflight \/ Backend \/ Finish

-----------------------------------------------------------------------------
(* Properties                                                              *)

\* Once a call of mark_stale_before has returned, the fence stays at its
\* generation or above, however the compare-and-swap loops of several callers
\* interleave.
MarksHold ==
    \A m \in Markers : mark[m].at = "done" => stale_before >= MarkTo[m]

\* A response Compiled means that, before the last gate looked, nobody had
\* cancelled the request and no call of mark_stale_before that passes its
\* generation had returned, and that no preflight objects to the request.
CompiledWasWanted ==
    response.status = "Compiled" =>
        unwanted = {} /\ request.defects \subseteq
            (DOMAIN Objections \ {Stages[i] : i \in DOMAIN Stages}) \cup {"report"}

\* The code that leaves lowering does from every block what the block meant
\* before relaxation, whichever conditions hold.  Lowering fails to encode only
\* because the bound on passes left a branch out of range, never because
\* relaxation and encoder disagree on a range.
LoweringIsFaithful ==
    /\ response.lowered = "Encoded" => FlowsAlike(response.func, response.code)
    /\ response.lowered = "EncodingFailed" =>
          HasOutOfRangeBranches(RelaxBranches(response.func).func)

=============================================================================
