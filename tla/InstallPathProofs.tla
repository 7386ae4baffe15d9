------------------------- MODULE InstallPathProofs --------------------------
(***************************************************************************)
(* From a compile request to a native call, for every set of requests,     *)
(* markers, functions, packets, products and rules: the generation fence   *)
(* keeps its promises, what was compiled was wanted, what a call is        *)
(* accepted for is allowed, and a lookup of the manifest-keyed cache says  *)
(* installable only for what passed both gates.                            *)
(***************************************************************************)
EXTENDS InstallPath, BranchRelaxProofs, TLAPS

-----------------------------------------------------------------------------
(* The inductive invariant                                                 *)

\* What a marker has read is at most the fence, since nobody lowers it.
FenceInv ==
    /\ stale_before \in Nat /\ cancelled \in BOOLEAN
    /\ mark \in [Markers -> [at : {"idle", "loop", "done"}, current : Nat]]
    /\ \A m \in Markers : mark[m].at = "loop" => mark[m].current <= stale_before
    /\ MarksHold

\* What was signalled can still be seen by a gate.
SignalInv ==
    /\ unwanted \subseteq {"cancelled", "stale"}
    /\ "cancelled" \in unwanted => cancelled
    /\ "stale" \in unwanted => stale_before > Generation

Responses ==
    [done : Nat, token_read : BOOLEAN,
     status : {"Running", "Compiled", "Cancelled", "Stale", "Rejected", "Failed"},
     disposition : {"Rejected", "ProfileOnly", "Installable"},
     lowered : {"none"} \cup {Lower(f).result : f \in Functions},
     func : Functions \cup {<<>>}, code : {<<>>} \cup {Lower(f).code : f \in Functions}]

\* The place of the request, and what the stages behind it have established: the
\* last gate is the last stage but one, and it lets nothing pass that was signalled
\* before it looked.
Progress ==
    /\ response.done \in 0 .. Len(Stages) - 1
    /\ response.token_read => Stage \in Gates
    /\ \A i \in 1 .. response.done :
          Stages[i] \in DOMAIN Objections => Stages[i] \notin request.defects
    /\ response.done > 0 => "stale" \notin request.defects /\ "policy" \notin request.defects
    /\ response.done = Len(Stages) - 2 /\ response.token_read => "cancelled" \notin unwanted
    /\ response.done = Len(Stages) - 1 => unwanted = {}

RequestInv ==
    /\ request \in Requests /\ response \in Responses
    /\ Running => Progress
    /\ CompiledWasWanted

GatesInv == FenceInv /\ SignalInv /\ RequestInv

\* Entries and calls are of an artifact that was compiled to be installed.
ChainInv ==
    /\ \A k \in Keys : cache_entries[k] # None => Installable
    /\ call.product # None => Installable

PathInv == GatesInv /\ ChainInv

-----------------------------------------------------------------------------
(* The stages                                                              *)

\* The names of the preflights.
LEMMA ObjectionNames ==
    DOMAIN Objections = {"strength", "manifest", "signature", "identity", "verifier"}
BY DEF Objections

\* The stages of compile_with and of compile_with_extern_symbols end with the last
\* gate and the response, and start with a gate.
LEMMA StageFacts ==
    ASSUME request \in Requests
    PROVE  /\ Len(Stages) \in Nat /\ Len(Stages) > 2
           /\ \A i \in 1 .. Len(Stages) : Stages[i] = "before_install" <=> i = Len(Stages) - 1
           /\ \A i \in 1 .. Len(Stages) : Stages[i] = "finish" <=> i = Len(Stages)
           /\ Stages[1] = "before_compile"
<1>1. request.entry \in {"compile_with", "Object", "ExecutableMemory"}
  BY GatesAssumption DEF RequestFields
<1>2. CASE request.entry = "compile_with"
  BY <1>2 DEF Stages
<1>3. CASE request.entry = "Object"
  BY <1>3 DEF Stages
<1>4. CASE request.entry = "ExecutableMemory"
  BY <1>4 DEF Stages
<1> QED  BY <1>1, <1>2, <1>3, <1>4

\* The stages are numbered from 1.
LEMMA StageDomain ==
    ASSUME request \in Requests
    PROVE  DOMAIN Stages = 1 .. Len(Stages)
<1>1. request.entry \in {"compile_with", "Object", "ExecutableMemory"}
  BY GatesAssumption DEF RequestFields
<1>2. CASE request.entry = "compile_with"
  BY <1>2 DEF Stages
<1>3. CASE request.entry = "Object"
  BY <1>3 DEF Stages
<1>4. CASE request.entry = "ExecutableMemory"
  BY <1>4 DEF Stages
<1> QED  BY <1>1, <1>2, <1>3, <1>4, SMTT(30)

\* Where the request is, by the stage it is at.
LEMMA StageNow ==
    ASSUME RequestInv, Running
    PROVE  /\ Stage = "before_install" <=> response.done = Len(Stages) - 2
           /\ Stage = "finish" <=> response.done = Len(Stages) - 1
           /\ "before_install" \in Ahead <=> response.done < Len(Stages) - 1
<1>1. Len(Stages) \in Nat /\ response.done \in 0 .. Len(Stages) - 1
  BY StageFacts DEF RequestInv, Progress
<1>2. response.done + 1 \in 1 .. Len(Stages)
  BY <1>1
<1>3. \A i \in 1 .. Len(Stages) : /\ Stages[i] = "before_install" <=> i = Len(Stages) - 1
                                  /\ Stages[i] = "finish" <=> i = Len(Stages)
  BY StageFacts DEF RequestInv
<1>4. Len(Stages) - 1 \in 1 .. Len(Stages)
  BY StageFacts DEF RequestInv
<1>5. "before_install" \in Ahead <=> \E i \in response.done + 1 .. Len(Stages) :
                                         Stages[i] = "before_install"
  BY DEF Ahead
<1>6. "before_install" \in Ahead <=> response.done < Len(Stages) - 1
  <2>1. ASSUME response.done < Len(Stages) - 1 PROVE "before_install" \in Ahead
    BY <1>1, <1>3, <1>4, <1>5, <2>1, SMTT(30)
  <2>2. ASSUME "before_install" \in Ahead PROVE response.done < Len(Stages) - 1
    <3>1. PICK i \in response.done + 1 .. Len(Stages) : Stages[i] = "before_install"
      BY <1>5, <2>2
    <3>2. i \in 1 .. Len(Stages)  BY <1>1
    <3> QED  BY <1>1, <1>3, <3>1, <3>2, SMTT(30)
  <2> QED  BY <2>1, <2>2
<1>7. /\ Stage = "before_install" <=> response.done + 1 = Len(Stages) - 1
      /\ Stage = "finish" <=> response.done + 1 = Len(Stages)
  BY <1>2, <1>3, SMTT(30) DEF Stage
<1> QED  BY <1>1, <1>6, <1>7, SMTT(30)

-----------------------------------------------------------------------------
(* The token and the fence                                                 *)

\* What the request has established stays, whatever is signalled, as long as the
\* last gate has not looked.
LEMMA SignalKeeps ==
    ASSUME RequestInv, UNCHANGED <<request, response>>,
           "cancelled" \in unwanted' => "cancelled" \in unwanted \/ TokenAhead,
           "stale" \in unwanted' => "stale" \in unwanted \/ FenceAhead,
           unwanted' \subseteq {"cancelled", "stale"},
           unwanted \subseteq unwanted'
    PROVE  RequestInv'
<1>1. Stages' = Stages /\ Stage' = Stage /\ (Running' <=> Running)
  BY DEF Stages, Stage, Running
<1>2. request' \in Requests /\ response' \in Responses
  BY DEF RequestInv, Responses
<1>3. ASSUME Running' PROVE Progress'
  <2>1. Running /\ Progress
    BY <1>1, <1>3 DEF RequestInv
  <2>2. ASSUME response.done = Len(Stages) - 1 PROVE unwanted' = {}
    <3>1. ~TokenAhead /\ ~FenceAhead
      BY <2>1, <2>2, StageNow, SMTT(30) DEF TokenAhead, FenceAhead, Progress
    <3> QED  BY <2>1, <2>2, <3>1, SMTT(30) DEF Progress
  <2>3. ASSUME response.done = Len(Stages) - 2, response.token_read
        PROVE  "cancelled" \notin unwanted'
    <3>1. ~TokenAhead
      BY <2>1, <2>3, StageNow, SMTT(30) DEF TokenAhead
    <3> QED  BY <2>1, <2>3, <3>1, SMTT(30) DEF Progress
  <2> QED  BY <1>1, <2>1, <2>2, <2>3, SMTT(30) DEF Progress
<1>4. CompiledWasWanted'
  <2> SUFFICES ASSUME response.status = "Compiled" PROVE unwanted' = {}
    BY <1>1 DEF RequestInv, CompiledWasWanted
  <2>1. ~Running  BY DEF Running
  <2> QED  BY <2>1 DEF RequestInv, CompiledWasWanted, TokenAhead, FenceAhead
<1> QED  BY <1>2, <1>3, <1>4, SMTT(30) DEF RequestInv

\* cancel keeps the invariant.
LEMMA CancelStep ==
    ASSUME GatesInv, Cancel  PROVE  GatesInv'
<1>1. FenceInv'  BY DEF GatesInv, FenceInv, MarksHold, Cancel
<1>2. SignalInv'  BY DEF GatesInv, SignalInv, Cancel
<1>3. RequestInv'
  BY SignalKeeps DEF GatesInv, SignalInv, Cancel
<1> QED  BY <1>1, <1>2, <1>3, SMTT(30) DEF GatesInv

\* mark_stale_before returns with the fence at its generation or above.
LEMMA MarkedKeeps ==
    ASSUME GatesInv, NEW m \in Markers, Marked(m), UNCHANGED <<cancelled, request, response>>,
           stale_before' \in Nat, stale_before' >= stale_before,
           stale_before' >= MarkTo[m]
    PROVE  GatesInv'
<1>1. /\ mark' \in [Markers -> [at : {"idle", "loop", "done"}, current : Nat]]
      /\ \A n \in Markers : n # m => mark'[n] = mark[n]
      /\ mark'[m].at = "done"
  BY DEF GatesInv, FenceInv, Marked
<1>2. \A n \in Markers : MarkTo[n] \in Nat
  BY GatesAssumption
<1>3. FenceInv'
  BY <1>1, <1>2, SMTT(30) DEF GatesInv, FenceInv, MarksHold
<1>4. SignalInv'
  BY <1>2, GatesAssumption, SMTT(30) DEF GatesInv, FenceInv, SignalInv, Marked
<1>5. RequestInv'
  BY <1>4, SignalKeeps DEF GatesInv, SignalInv, Marked
<1> QED  BY <1>3, <1>4, <1>5, SMTT(30) DEF GatesInv

\* A marker reads the fence, or reads it again.
LEMMA ReadFenceStep ==
    ASSUME GatesInv, NEW m \in Markers, LoadFence(m) \/ ExchangeFails(m)
    PROVE  GatesInv'
<1>1. /\ mark' \in [Markers -> [at : {"idle", "loop", "done"}, current : Nat]]
      /\ \A n \in Markers : n # m => mark'[n] = mark[n]
      /\ mark'[m].at = "loop" /\ mark'[m].current = stale_before
  BY DEF GatesInv, FenceInv, LoadFence, ExchangeFails
<1>2. UNCHANGED <<cancelled, stale_before, request, response, unwanted>>
  BY DEF LoadFence, ExchangeFails
<1>3. FenceInv'  BY <1>1, <1>2, SMTT(30) DEF GatesInv, FenceInv, MarksHold
<1>4. SignalInv'  BY <1>2 DEF GatesInv, SignalInv
<1>5. RequestInv'  BY <1>2, <1>4, SignalKeeps, SMTT(30) DEF GatesInv, SignalInv
<1> QED  BY <1>3, <1>4, <1>5, SMTT(30) DEF GatesInv

\* LeaveLoop and Exchange: the fence has passed, or is raised to, the generation.
LEMMA MarkStep ==
    ASSUME GatesInv, NEW m \in Markers, LeaveLoop(m) \/ Exchange(m)
    PROVE  GatesInv'
<1>1. mark[m].current \in Nat /\ mark[m].current <= stale_before
      /\ stale_before \in Nat /\ MarkTo[m] \in Nat
  BY GatesAssumption DEF GatesInv, FenceInv, LeaveLoop, Exchange
<1>2. CASE LeaveLoop(m)
  BY <1>1, <1>2, MarkedKeeps, SMTT(30) DEF LeaveLoop
<1>3. CASE Exchange(m)
  BY <1>1, <1>3, MarkedKeeps, SMTT(30) DEF Exchange
<1> QED  BY <1>2, <1>3, SMTT(30)

-----------------------------------------------------------------------------
(* The request                                                             *)

\* A stage of the request changes neither fence nor signals.
LEMMA QuietFence ==
    ASSUME GatesInv, UNCHANGED <<cancelled, stale_before, mark, request, unwanted>>
    PROVE  FenceInv' /\ SignalInv' /\ request' \in Requests /\ Stages' = Stages
BY DEF GatesInv, FenceInv, SignalInv, RequestInv, MarksHold, Stages

\* A response other than Compiled ends the request and promises nothing.
LEMMA RespondKeeps ==
    ASSUME GatesInv, UNCHANGED <<cancelled, stale_before, mark, request, unwanted>>,
           response' \in Responses, response'.status \notin {"Running", "Compiled"}
    PROVE  GatesInv'
BY QuietFence DEF GatesInv, RequestInv, CompiledWasWanted, Running

\* Respond and Advance keep the shape of the response.
LEMMA ResponseTypes ==
    ASSUME response \in Responses
    PROVE  /\ \A status \in {"Compiled", "Cancelled", "Stale", "Rejected", "Failed"},
                 disposition \in {"Rejected", "ProfileOnly", "Installable"} :
                 Respond(status, disposition) =>
                    /\ response' \in Responses /\ response'.status = status
                    /\ response'.disposition = disposition
           /\ Advance => /\ response' \in Responses /\ response'.done = response.done + 1
                         /\ response'.token_read = FALSE /\ response'.status = response.status
<1>1. ASSUME NEW status \in {"Compiled", "Cancelled", "Stale", "Rejected", "Failed"},
             NEW disposition \in {"Rejected", "ProfileOnly", "Installable"},
             Respond(status, disposition)
      PROVE  /\ response' \in Responses /\ response'.status = status
             /\ response'.disposition = disposition
  BY <1>1, ZenonT(30) DEF Responses, Respond
<1>2. ASSUME Advance
      PROVE  /\ response' \in Responses /\ response'.done = response.done + 1
             /\ response'.token_read = FALSE /\ response'.status = response.status
  <2> DEFINE n == response.done + 1
  <2>1. n \in Nat  BY DEF Responses
  <2>2. response' = [response EXCEPT !.done = n, !.token_read = FALSE]
    BY <1>2 DEF Advance
  <2> HIDE DEF n
  <2>3. /\ response' \in Responses /\ response'.done = n
        /\ response'.token_read = FALSE /\ response'.status = response.status
    BY <2>1, <2>2, ZenonT(30) DEF Responses
  <2> QED  BY <2>3 DEF n
<1> QED  BY <1>1, <1>2, ZenonT(30)

\* A stage is passed: it objected to nothing, a first gate has looked at the
\* request's own defects, and the last one at everything signalled.
LEMMA AdvanceKeeps ==
    ASSUME GatesInv, UNCHANGED <<cancelled, stale_before, mark, request, unwanted>>,
           Running, Stage # "finish",
           response' \in Responses, response'.done = response.done + 1,
           response'.token_read = FALSE, response'.status = "Running",
           Stage \in DOMAIN Objections => Stage \notin request.defects,
           response.done = 0 =>
               "stale" \notin request.defects /\ "policy" \notin request.defects,
           Stage = "before_install" => unwanted = {}
    PROVE  GatesInv'
<1>1. FenceInv' /\ SignalInv' /\ request' \in Requests /\ Stages' = Stages
  BY QuietFence
<1>2. RequestInv /\ Progress /\ response.done \in Nat
  BY DEF GatesInv, RequestInv, Responses
<1>3. /\ Len(Stages) \in Nat
      /\ Stage = "before_install" <=> response.done = Len(Stages) - 2
      /\ response.done # Len(Stages) - 1
  BY <1>2, StageNow, StageFacts, SMTT(30) DEF RequestInv
<1>4. response'.done \in 0 .. Len(Stages) - 1
  BY <1>2, <1>3, SMTT(30) DEF Progress
<1>5. \A i \in 1 .. response'.done :
         Stages[i] \in DOMAIN Objections => Stages[i] \notin request.defects
  <2> SUFFICES ASSUME NEW i \in 1 .. response.done + 1, Stages[i] \in DOMAIN Objections
               PROVE  Stages[i] \notin request.defects
    OBVIOUS
  <2>1. i \in 1 .. response.done \/ i = response.done + 1
    BY <1>2
  <2> QED  BY <1>2, <2>1, SMTT(30) DEF Progress, Stage
<1>6. response'.done > 0 =>
         "stale" \notin request.defects /\ "policy" \notin request.defects
  BY <1>2 DEF Progress
<1>7. response'.done = Len(Stages) - 1 => unwanted = {}
  BY <1>2, <1>3, SMTT(30)
<1>8. Progress'
  BY <1>1, <1>4, <1>5, <1>6, <1>7, SMTT(30) DEF Progress
<1> QED  BY <1>1, <1>8, SMTT(30) DEF GatesInv, RequestInv, CompiledWasWanted

\* GateToken: a gate that finds the token set ends the request; at the last one
\* nobody has cancelled, and a later cancel comes too late.
LEMMA GateTokenStep ==
    ASSUME GatesInv, GateToken  PROVE  GatesInv'
<1>1. RequestInv /\ Progress /\ response \in Responses /\ Running
      /\ UNCHANGED <<cancelled, stale_before, mark, request, unwanted>>
  BY DEF GatesInv, RequestInv, GateToken
<1>2. CASE cancelled
  BY <1>1, <1>2, ResponseTypes, RespondKeeps, SMTT(30) DEF GateToken
<1>3. CASE ~cancelled
  <2>1. /\ response' \in Responses /\ response'.done = response.done
        /\ response'.status = "Running"
    <3>1. response' = [response EXCEPT !.token_read = TRUE] /\ response.status = "Running"
      BY <1>1, <1>3, ZenonT(30) DEF GateToken, Running
    <3>2. response \in Responses  BY <1>1
    <3> QED  BY <3>1, <3>2, ZenonT(30) DEF Responses
  <2>2. FenceInv' /\ SignalInv' /\ request' \in Requests /\ Stages' = Stages
    BY <1>1, QuietFence
  <2>3. "cancelled" \notin unwanted /\ Stage \in Gates
    BY <1>3, SMTT(30) DEF GatesInv, SignalInv, GateToken
  <2>4. Progress'
    BY <1>1, <2>1, <2>2, <2>3, SMTT(30) DEF Progress, Stage
  <2> QED  BY <2>1, <2>2, <2>4, SMTT(30) DEF GatesInv, RequestInv, CompiledWasWanted
<1> QED  BY <1>2, <1>3, SMTT(30)

\* GateFence: the fence is not past the generation, so nobody's mark is.
LEMMA GateFenceStep ==
    ASSUME GatesInv, GateFence  PROVE  GatesInv'
<1>1. RequestInv /\ Progress /\ response \in Responses /\ Running /\ Stage \in Gates
      /\ UNCHANGED <<cancelled, stale_before, mark, request, unwanted>>
  BY DEF GatesInv, RequestInv, GateFence
<1>2. CASE IsStale \/ "policy" \in request.defects
  BY <1>1, <1>2, ResponseTypes, RespondKeeps, SMTT(30) DEF GateFence
<1>3. CASE ~IsStale /\ "policy" \notin request.defects
  <2>1. /\ response' \in Responses /\ response'.done = response.done + 1
        /\ response'.token_read = FALSE /\ response'.status = "Running"
    BY <1>1, <1>3, ResponseTypes, ZenonT(30) DEF GateFence, Running
  <2>2. "stale" \notin request.defects /\ "stale" \notin unwanted
    BY <1>3, GatesAssumption, SMTT(30) DEF IsStale, GatesInv, SignalInv, FenceInv
  <2>3. Stage = "before_install" => unwanted = {}
    <3>1. Stage = "before_install" => "cancelled" \notin unwanted
      BY <1>1, StageNow DEF Progress, GateFence
    <3> QED  BY <2>2, <3>1, SMTT(30) DEF GatesInv, SignalInv
  <2>4. Stage # "finish" /\ Stage \notin DOMAIN Objections
    BY <1>1, ObjectionNames DEF Gates
  <2> QED  BY <1>1, <1>3, <2>1, <2>2, <2>3, <2>4, AdvanceKeeps, ZenonT(30)
<1> QED  BY <1>2, <1>3, SMTT(30)

\* Preflight: a stage that objects ends the request.
LEMMA PreflightStep ==
    ASSUME GatesInv, Preflight  PROVE  GatesInv'
<1>1. RequestInv /\ Progress /\ response \in Responses /\ Running
      /\ Stage \in DOMAIN Objections
      /\ UNCHANGED <<cancelled, stale_before, mark, request, unwanted>>
  BY DEF GatesInv, RequestInv, Preflight
<1>2. CASE Stage \in request.defects
  <2>1. Objections[Stage] \in {"Rejected", "Failed"}
    BY <1>1, ObjectionNames, SMTT(30) DEF Objections
  <2> QED  BY <1>1, <1>2, <2>1, ResponseTypes, RespondKeeps, SMTT(30) DEF Preflight
<1>3. CASE Stage \notin request.defects
  <2>1. /\ response' \in Responses /\ response'.done = response.done + 1
        /\ response'.token_read = FALSE /\ response'.status = "Running"
    BY <1>1, <1>3, ResponseTypes, ZenonT(30) DEF Preflight, Running
  <2>2. Stage \notin {"before_compile", "before_install", "finish"}
    BY <1>1, ObjectionNames, SMTT(30)
  <2>3. response.done # 0
    BY <1>1, <2>2, StageFacts, SMTT(30) DEF Stage, RequestInv
  <2> QED  BY <1>1, <1>3, <2>1, <2>2, <2>3, AdvanceKeeps, ZenonT(30)
<1> QED  BY <1>2, <1>3

\* Backend: lowering succeeds and the request goes on, or it fails.
LEMMA BackendStep ==
    ASSUME GatesInv, Backend  PROVE  GatesInv'
<1>1. RequestInv /\ Progress /\ response \in Responses /\ Running /\ Stage = "backend"
      /\ UNCHANGED <<cancelled, stale_before, mark, request, unwanted>>
  BY SMTT(30) DEF GatesInv, RequestInv, Backend
<1> DEFINE lowered(r, f, c) == [response EXCEPT !.lowered = r, !.func = f, !.code = c]
<1>2. PICK f \in Functions :
         response' = IF Lower(f).result = "Encoded"
                     THEN [lowered(Lower(f).result, f, Lower(f).code) EXCEPT !.done = @ + 1]
                     ELSE [lowered(Lower(f).result, f, Lower(f).code)
                             EXCEPT !.status = "Failed"]
  BY ZenonT(30) DEF Backend
<1>3. PICK r \in {Lower(g).result : g \in Functions}, c \in {Lower(g).code : g \in Functions} :
         r = Lower(f).result /\ c = Lower(f).code
  OBVIOUS
<1>4. lowered(r, f, c) \in Responses /\ lowered(r, f, c).done = response.done
      /\ lowered(r, f, c).token_read = response.token_read
      /\ lowered(r, f, c).status = response.status
  BY <1>1, ZenonT(30) DEF Responses
<1>5. response' = IF r = "Encoded" THEN [lowered(r, f, c) EXCEPT !.done = @ + 1]
                  ELSE [lowered(r, f, c) EXCEPT !.status = "Failed"]
  BY <1>2, <1>3, SMTT(30)
<1> HIDE DEF lowered
<1>6. CASE r # "Encoded"
  <2>1. response' \in Responses /\ response'.status = "Failed"
    BY <1>4, <1>5, <1>6, SMTT(30) DEF Responses
  <2> QED  BY <1>1, <2>1, RespondKeeps, SMTT(30)
<1>7. CASE r = "Encoded"
  <2> DEFINE n == response.done + 1
  <2>1. n \in Nat /\ response' = [lowered(r, f, c) EXCEPT !.done = n]
    BY <1>1, <1>4, <1>5, <1>7, SMTT(30) DEF Responses
  <2> HIDE DEF n
  <2>2. /\ response' \in Responses /\ response'.done = n
        /\ response'.token_read = response.token_read /\ response'.status = response.status
    BY <1>4, <2>1, SMTT(30) DEF Responses
  <2>3. response.token_read = FALSE
    BY <1>1 DEF Progress, Gates, Responses
  <2>4. Stage \notin {"before_compile", "before_install", "finish"}
        /\ Stage \notin DOMAIN Objections
    BY <1>1, ObjectionNames, SMTT(30)
  <2>5. response.done # 0
    BY <1>1, <2>4, StageFacts, SMTT(30) DEF Stage, RequestInv
  <2> QED  BY <1>1, <2>2, <2>3, <2>4, <2>5, AdvanceKeeps, ZenonT(30) DEF n, Running
<1> QED  BY <1>6, <1>7, SMTT(30)

\* Finish: every preflight has been passed, and the last gate.
LEMMA FinishStep ==
    ASSUME GatesInv, Finish  PROVE  GatesInv'
<1>1. RequestInv /\ Progress /\ response \in Responses /\ Running /\ Stage = "finish"
      /\ UNCHANGED <<cancelled, stale_before, mark, request, unwanted>>
  BY DEF GatesInv, RequestInv, Finish
<1>2. FenceInv' /\ SignalInv' /\ request' \in Requests /\ Stages' = Stages
  BY <1>1, QuietFence, SMTT(30)
<1>3. response' \in Responses /\ response'.status = "Compiled"
  <2>1. Disposition \in {"Rejected", "ProfileOnly", "Installable"}
    BY DEF Disposition
  <2> QED  BY <1>1, <2>1, ResponseTypes, SMTT(30) DEF Finish
<1>4. response.done = Len(Stages) - 1 /\ Len(Stages) \in Nat /\ Len(Stages) > 2
      /\ Stages[Len(Stages)] = "finish"
  <2>1. request \in Requests  BY <1>1 DEF RequestInv
  <2>2. Len(Stages) \in Nat /\ Len(Stages) > 2  BY <2>1, StageFacts, SMTT(30)
  <2>3. Stages[Len(Stages)] = "finish"  BY <2>1, <2>2, StageFacts, SMTT(30)
  <2>4. response.done = Len(Stages) - 1  BY <1>1, StageNow, SMTT(30)
  <2> QED  BY <2>1, <2>2, <2>3, <2>4, SMTT(30)
<1>5. unwanted = {} /\ "stale" \notin request.defects /\ "policy" \notin request.defects
  <2>1. response.done > 0  BY <1>4
  <2> QED  BY <1>1, <1>4, <2>1, SMTT(30) DEF Progress
<1>6. \A i \in DOMAIN Stages :
         Stages[i] \in DOMAIN Objections => Stages[i] \notin request.defects
  <2> SUFFICES ASSUME NEW i \in 1 .. Len(Stages), Stages[i] \in DOMAIN Objections
               PROVE  Stages[i] \notin request.defects
    BY <1>1, StageDomain, SMTT(30) DEF RequestInv
  <2>1. i # Len(Stages)
    BY <1>4, ObjectionNames, SMTT(30)
  <2>2. i \in 1 .. response.done  BY <1>4, <2>1, SMTT(30)
  <2> QED  BY <1>1, <2>2, SMTT(30) DEF Progress
<1>7. request.defects \subseteq DOMAIN Objections \cup {"stale", "policy", "report"}
  BY <1>1, GatesAssumption, SMTT(30) DEF RequestInv, RequestFields
<1>8. CompiledWasWanted'
  BY <1>1, <1>2, <1>5, <1>6, <1>7, SMTT(30) DEF CompiledWasWanted
<1> QED  BY <1>2, <1>3, <1>8, SMTT(30) DEF GatesInv, RequestInv, Running

-----------------------------------------------------------------------------
(* The whole path                                                          *)

\* A step of the compile service keeps its part of the invariant.
LEMMA CompileStep ==
    ASSUME GatesInv, GatesNext  PROVE  GatesInv'
BY SMTT(30), CancelStep, ReadFenceStep, MarkStep, GateTokenStep, GateFenceStep, PreflightStep,
   BackendStep, FinishStep DEF GatesNext

\* A step of the others leaves the compile service alone.
LEMMA GatesStay ==
    ASSUME GatesInv, UNCHANGED gateVars  PROVE  GatesInv'
<1>1. UNCHANGED <<cancelled, stale_before, mark, request, response, unwanted>>
  BY DEF gateVars
<1>2. FenceInv' /\ SignalInv'  BY <1>1, QuietFence, SMTT(30)
<1>3. RequestInv'  BY <1>1, SignalKeeps, SMTT(30) DEF GatesInv, SignalInv
<1> QED  BY <1>2, <1>3, SMTT(30) DEF GatesInv

\* A response stays what it is: once installable, the request is at its end.
LEMMA InstallableStays ==
    ASSUME GatesInv, Installable, GatesNext  PROVE  Installable'
<1>1. ~Running  BY SMTT(30) DEF Installable, Running
<1>2. UNCHANGED response
  BY <1>1, ZenonT(30) DEF GatesNext, Cancel, TokenAhead, LoadFence, LeaveLoop, Exchange,
     ExchangeFails, GateToken, GateFence, Preflight, Backend, Finish
<1> QED  BY <1>2 DEF Installable

\* A lookup finds an artifact installable only where something was recorded.
LEMMA HitIsRecorded ==
    ASSUME NEW k, Lookup(k).outcome = "HitInstallable"
    PROVE  cache_entries[k] # None
<1> SUFFICES ASSUME cache_entries[k] = None PROVE FALSE
  OBVIOUS
<1> DEFINE miss == Entry("Miss", None, None, None, None)
<1>1. /\ miss.outcome = "Miss" /\ miss.blocker = None
  BY SMTT(30) DEF Entry
<1>2. Lookup(k).outcome = "Miss"
  BY <1>1, ZenonT(30) DEF Lookup, Entry, SurfaceBlocker, Outcome
<1> QED  BY <1>2

\* The initial states satisfy the invariant.
LEMMA InitPathInv == PathInit => PathInv
<1> SUFFICES ASSUME PathInit PROVE PathInv
  OBVIOUS
<1>1. FenceInv
  BY ZenonT(30) DEF PathInit, GatesInit, FenceInv, MarksHold
<1>2. SignalInv
  BY DEF PathInit, GatesInit, SignalInv
<1>3. response \in Responses /\ request \in Requests
  BY DEF PathInit, GatesInit, Responses
<1>4. Progress
  <2>1. response.done = 0 /\ ~response.token_read /\ unwanted = {}
    BY ZenonT(30) DEF PathInit, GatesInit
  <2>2. Len(Stages) \in Nat /\ Len(Stages) > 2
    BY <1>3, StageFacts, SMTT(30)
  <2>3. response.done \in 0 .. Len(Stages) - 1
    BY <2>1, <2>2, SMTT(30)
  <2>4. ~(response.done > 0) /\ \A i \in 1 .. response.done : FALSE
    BY <2>1, SMTT(30)
  <2> QED  BY <2>1, <2>3, <2>4, ZenonT(30) DEF Progress
<1>5. RequestInv
  BY <1>3, <1>4, SMTT(30) DEF PathInit, GatesInit, RequestInv, CompiledWasWanted
<1>6. ChainInv
  BY DEF PathInit, Init, NoCall, ChainInv
<1> QED  BY <1>1, <1>2, <1>5, <1>6, SMTT(30) DEF PathInv, GatesInv

\* Every step keeps the invariant.
LEMMA NextPathInv == PathInv /\ [PathNext]_pathVars => PathInv'
<1> SUFFICES ASSUME PathInv, [PathNext]_pathVars PROVE PathInv'
  OBVIOUS
<1>1. CASE Compile
  <2>1. GatesInv'  BY <1>1, CompileStep DEF Compile, PathInv
  <2>2. ChainInv'
    BY <1>1, InstallableStays, SMTT(30) DEF Compile, PathInv, ChainInv
  <2> QED  BY <2>1, <2>2 DEF PathInv
<1>2. CASE UNCHANGED gateVars
  <2>1. GatesInv' /\ (Installable' <=> Installable)
    BY <1>2, GatesStay, SMTT(30) DEF PathInv, Installable, gateVars
  <2>2. ChainInv'
    <3>1. CASE UNCHANGED pathVars
      BY <2>1, <3>1, SMTT(30) DEF PathInv, ChainInv, pathVars
    <3>2. CASE Record
      BY <2>1, <3>2, SMTT(30) DEF Record, ChainInv
    <3>3. CASE Operate
      BY <2>1, <3>3, SMTT(30) DEF Operate, PathInv, ChainInv
    <3>4. ASSUME NEW p \in Products, Observe(p) PROVE ChainInv'
      <4>1. p.artifact \in Keys
        BY PathAssumption, SMTT(30) DEF ProductArtifacts
      <4>2. Installable
        BY <3>4, <4>1, HitIsRecorded, SMTT(30) DEF Observe, PathInv, ChainInv
      <4> QED  BY <2>1, <4>2, SMTT(30) DEF ChainInv
    <3>5. ASSUME NEW evidence \in BOOLEAN, Route(evidence) PROVE ChainInv'
      BY <2>1, <3>5, SMTT(30) DEF Route, NoCall, PathInv, ChainInv
    <3> QED
      BY <1>1, <3>1, <3>2, <3>3, <3>4, <3>5, <2>1, InstallableStays, SMTT(30)
         DEF PathNext, Compile, PathInv, ChainInv
  <2> QED  BY <2>1, <2>2, SMTT(30) DEF PathInv
<1> QED
  BY <1>1, <1>2, SMTT(30) DEF PathNext, Record, Operate, Observe, Route, pathVars

\* The invariant holds in every reachable state.
LEMMA AlwaysPathInv == PathSpec => []PathInv
BY InitPathInv, NextPathInv, PTL DEF PathSpec

\* CompileGenerationFence: a mark that returned is never undone, for any number of
\* threads in mark_stale_before.
THEOREM MarksStay == PathSpec => []MarksHold
<1>1. PathInv => MarksHold  BY SMTT(30) DEF PathInv, GatesInv, FenceInv
<1> QED  BY <1>1, AlwaysPathInv, PTL

\* compile_with and compile_with_extern_symbols answer Compiled only to a request
\* that was still wanted at its last gate and to which no preflight objects.
THEOREM CompiledOnlyIfWanted == PathSpec => []CompiledWasWanted
<1>1. PathInv => CompiledWasWanted  BY DEF PathInv, GatesInv, RequestInv
<1> QED  BY <1>1, AlwaysPathInv, PTL

-----------------------------------------------------------------------------
(* What lowering leaves in the response                                    *)

\* The response holds nothing of a lowering, or what Lower makes of one function.
LoweredInv ==
    \/ response.lowered = "none"
    \/ /\ response.func \in Functions
       /\ response.lowered = Lower(response.func).result
       /\ response.code = Lower(response.func).code

\* Respond keeps nothing of what was lowered.
LEMMA RespondDrops ==
    ASSUME response \in Responses, NEW status, NEW disposition,
           Respond(status, disposition)
    PROVE  LoweredInv'
<1>1. response'.lowered = "none"
  BY ZenonT(30) DEF Respond, Responses
<1> QED  BY <1>1 DEF LoweredInv

\* The steps that pass a stage, or half of a gate, keep all of it.
LEMMA LoweredStays ==
    ASSUME LoweredInv, response'.lowered = response.lowered,
           response'.func = response.func, response'.code = response.code
    PROVE  LoweredInv'
BY DEF LoweredInv

\* Advance touches only the place of the request.
LEMMA AdvanceLowered ==
    ASSUME response \in Responses, LoweredInv, Advance  PROVE  LoweredInv'
<1>1. /\ response'.lowered = response.lowered
      /\ response'.func = response.func /\ response'.code = response.code
  BY ZenonT(30) DEF Advance, Responses
<1> QED  BY <1>1, LoweredStays

\* Backend leaves the function it lowered, the result and the code of it.
LEMMA BackendLowered ==
    ASSUME response \in Responses, Backend  PROVE  LoweredInv'
<1> DEFINE lowered(r, f, c) == [response EXCEPT !.lowered = r, !.func = f, !.code = c]
<1>1. PICK f \in Functions :
         response' = IF Lower(f).result = "Encoded"
                     THEN [lowered(Lower(f).result, f, Lower(f).code) EXCEPT !.done = @ + 1]
                     ELSE [lowered(Lower(f).result, f, Lower(f).code)
                             EXCEPT !.status = "Failed"]
  BY ZenonT(30) DEF Backend
<1> DEFINE x == lowered(Lower(f).result, f, Lower(f).code)
<1>2. /\ x.lowered = Lower(f).result /\ x.func = f /\ x.code = Lower(f).code
      /\ DOMAIN x = {"done", "token_read", "status", "disposition", "lowered", "func", "code"}
  BY ZenonT(30) DEF Responses
<1>3. response' = [x EXCEPT !.done = x.done + 1] \/ response' = [x EXCEPT !.status = "Failed"]
  BY <1>1
<1> HIDE DEF x
<1>4. response'.lowered = x.lowered /\ response'.func = x.func /\ response'.code = x.code
  BY <1>2, <1>3, ZenonT(30)
<1> QED  BY <1>2, <1>4, ZenonT(30) DEF LoweredInv

\* Every step keeps what the response holds consistent.
LEMMA NextLowered ==
    ASSUME PathInv, LoweredInv, [PathNext]_pathVars  PROVE  LoweredInv'
<1>1. response \in Responses
  BY DEF PathInv, GatesInv, RequestInv
<1>2. CASE UNCHANGED response
  BY <1>2 DEF LoweredInv
<1>3. CASE GatesNext
  <2>1. CASE GateToken
    <3>1. CASE cancelled
      BY <1>1, <2>1, <3>1, RespondDrops DEF GateToken
    <3>2. CASE ~cancelled
      <4>1. response' = [response EXCEPT !.token_read = TRUE]
        BY <2>1, <3>2 DEF GateToken
      <4>2. /\ response'.lowered = response.lowered
            /\ response'.func = response.func /\ response'.code = response.code
        BY <1>1, <4>1, ZenonT(30) DEF Responses
      <4> QED  BY <4>2, LoweredStays
    <3> QED  BY <3>1, <3>2
  <2>2. CASE GateFence
    BY <1>1, <2>2, RespondDrops, AdvanceLowered, ZenonT(30) DEF GateFence
  <2>3. CASE Preflight
    BY <1>1, <2>3, RespondDrops, AdvanceLowered, ZenonT(30) DEF Preflight
  <2>4. CASE Backend
    BY <1>1, <2>4, BackendLowered
  <2>5. CASE Finish
    BY <1>1, <2>5, RespondDrops, ZenonT(30) DEF Finish
  <2>6. CASE Cancel \/ \E m \in Markers :
               LoadFence(m) \/ LeaveLoop(m) \/ Exchange(m) \/ ExchangeFails(m)
    BY <1>2, <2>6, ZenonT(30) DEF Cancel, LoadFence, LeaveLoop, Exchange, ExchangeFails
  <2> QED  BY <1>3, <2>1, <2>2, <2>3, <2>4, <2>5, <2>6, ZenonT(30) DEF GatesNext
<1>4. GatesNext \/ UNCHANGED response
  BY ZenonT(30) DEF PathNext, Compile, Record, Operate, Observe, Route, pathVars, gateVars
<1> QED  BY <1>2, <1>3, <1>4

\* For every function the selector may produce, every width of the branch fields
\* and every bound on the passes: the code lowering encodes does what the function
\* meant, and an encoding fails only where relaxation stopped too early.
THEOREM LoweringFaithful == PathSpec => []LoweringIsFaithful
<1>1. PathInit => LoweredInv
  <2> SUFFICES ASSUME PathInit  PROVE response.lowered = "none"
    BY DEF LoweredInv
  <2> QED  BY SMTT(30) DEF PathInit, GatesInit
<1>2. PathInv /\ LoweredInv /\ [PathNext]_pathVars => LoweredInv'
  BY NextLowered
<1>3. LoweredInv => LoweringIsFaithful
  <2> SUFFICES ASSUME LoweredInv, response.lowered # "none"  PROVE LoweringIsFaithful
    BY DEF LoweringIsFaithful
  <2>1. response.func \in Functions /\ response.code = Lower(response.func).code
        /\ response.lowered = Lower(response.func).result
    BY DEF LoweredInv
  <2>2. WellFormed(response.func)
    BY <2>1, GatesAssumption
  <2> QED  BY <2>1, <2>2, EncodedFlowsAlike, UnencodableIsFar, ZenonT(30)
              DEF LoweringIsFaithful
<1> QED  BY <1>1, <1>2, <1>3, AlwaysPathInv, PTL DEF PathSpec

-----------------------------------------------------------------------------
(* The call                                                                *)

\* A routed call is accepted only for what was wanted when compiled and is allowed
\* now, whatever the rules were when the consumer looked the artifact up.
THEOREM AcceptedOnlyIfAllowed == PathSpec => AcceptedIsAllowed
<1> DEFINE Allowed ==
       call.product # None /\ call'.product = None =>
        /\ call'.status = "AcceptedPendingProductGate" =>
              /\ unwanted = {} /\ call.current = Generation
              /\ call.product.identified =>
                    ~Revoked(call.product)
                    /\ \A s \in kill_switches : ~SwitchApplies(s, call.product)
        /\ \A r \in Registries : call.product.artifact \notin publication'[r]
<1>1. PathInv /\ [PathNext]_pathVars => [Allowed]_pathVars
  <2> SUFFICES ASSUME PathInv, PathNext, call.product # None, call'.product = None
               PROVE  Allowed
    OBVIOUS
  <2>1. PICK evidence \in BOOLEAN : Route(evidence)
    BY DEF PathNext, Compile, Record, Operate, Observe
  <2> DEFINE p == call.product
             reason == Evaluate(p, evidence)
  <2>2. call'.status = ProductCallStatus(p, reason, Generation, call.current)
    BY <2>1 DEF Route, NoCall
  <2>3. ASSUME call'.status = "AcceptedPendingProductGate"
        PROVE  /\ call.current = Generation
               /\ reason \notin {"KillSwitchActive", "ArtifactRevoked"}
    <3> HIDE DEF reason, p
    <3>1. FreshnessRejection(reason, Generation, call.current)
             \notin {"StaleInvalidation", "RevokedArtifact", "KillSwitchActive"}
      BY <2>2, <2>3, SMTT(30) DEF ProductCallStatus
    <3> QED  BY <3>1 DEF FreshnessRejection, DenyControl
  <2>4. unwanted = {}
    BY DEF PathInv, GatesInv, RequestInv, ChainInv, Installable, CompiledWasWanted
  <2>5. reason \notin {"KillSwitchActive", "ArtifactRevoked"} /\ p.identified =>
           ~Revoked(p) /\ \A s \in kill_switches : ~SwitchApplies(s, p)
    BY DEF Evaluate
  <2>6. \A r \in Registries : p.artifact \notin publication'[r]
    BY <2>1 DEF Route, ApplyDecision, Without
  <2> QED  BY <2>3, <2>4, <2>5, <2>6, SMTT(30)
<1> QED  BY <1>1, AlwaysPathInv, PTL DEF PathSpec, AcceptedIsAllowed

-----------------------------------------------------------------------------
(* The manifest-keyed cache                                                *)

\* An armed entry (installable and not blocked) holds the insertion packet
\* that passed the gate.
ArmedInserted(entry, k) ==
    entry.outcome = "HitInstallable" /\ entry.blocker = None =>
        Passes(entry.insert, k, "CacheInsert")

\* The inductive invariant.  InstallableHitHasBothGates is not inductive: it
\* says nothing of an entry whose hit packet is missing or does not match yet,
\* and the next packet may complete it.
CacheInv ==
    /\ TypeOK
    /\ \A k \in Keys : cache_entries[k] # None => ArmedInserted(cache_entries[k], k)

\* Storing an entry with the properties the invariant asks for keeps it.
LEMMA StoreKeeps ==
    ASSUME CacheInv, NEW k \in Keys, NEW e \in Entries, ArmedInserted(e, k), Store(k, e)
    PROVE  CacheInv'
<1>1. cache_entries' \in [Keys -> Entries \cup {None}]
  BY DEF CacheInv, TypeOK, Store
<1>2. \A j \in Keys : cache_entries'[j] = IF j = k THEN e ELSE cache_entries[j]
  BY DEF CacheInv, TypeOK, Store
<1> QED BY <1>1, <1>2 DEF CacheInv, TypeOK

\* What the gate check returns, and when it lets an installable entry pass.
LEMMA SurfaceBlockerFacts ==
    ASSUME NEW k, NEW outcome \in LookupOutcomes, NEW packet \in Packets \cup {None},
           NEW identity, NEW surface
    PROVE  /\ SurfaceBlocker(k, outcome, packet, identity, surface)
                 \in BlockerCodes \cup {None}
           /\ /\ SurfaceBlocker(k, outcome, packet, identity, surface) = None
              /\ outcome = "HitInstallable"
              => Passes(packet, k, surface) /\ packet.identity = identity
  BY CacheAssumption DEF SurfaceBlocker, BlockerCodes, Passes, MatchesManifest,
     MatchesIdentity, PacketFields

\* A blocker's outcome is a lookup outcome other than HitInstallable.
LEMMA OutcomeFacts ==
    ASSUME NEW outcome \in LookupOutcomes, NEW blocker \in BlockerCodes \cup {None}
    PROVE  /\ Outcome(outcome, blocker) \in LookupOutcomes
           /\ Outcome(outcome, blocker) = "HitInstallable" =>
                 blocker = None /\ outcome = "HitInstallable"
  BY CacheAssumption DEF Outcome, BlockedOutcome, LookupOutcomes, BlockerCodes

\* record_manifest_cache_entry keeps the invariant.
LEMMA EntryStep ==
    ASSUME CacheInv, NEW k \in Keys, NEW outcome \in Outcomes, RecordEntry(k, outcome)
    PROVE  CacheInv'
<1> DEFINE b == IF outcome = "HitInstallable" THEN "MissingGateMetadata" ELSE None
           e == Entry(Outcome(outcome, b), None, None, b, None)
<1>1. b \in BlockerCodes \cup {None} /\ outcome \in LookupOutcomes
  BY CacheAssumption DEF BlockerCodes
<1>2. Outcome(outcome, b) \in LookupOutcomes
      /\ (Outcome(outcome, b) = "HitInstallable" => b = None /\ outcome = "HitInstallable")
  BY <1>1, OutcomeFacts
<1>3. e \in Entries
  BY <1>1, <1>2 DEF Entries, Entry
<1>4. ArmedInserted(e, k)
  BY <1>2, CacheAssumption DEF ArmedInserted, Entry, BlockerCodes
<1>5. Store(k, e)
  BY DEF RecordEntry
<1> QED BY <1>3, <1>4, <1>5, StoreKeeps

\* Recording a cache-insert packet keeps the invariant.
LEMMA InsertStep ==
    ASSUME CacheInv, NEW k \in Keys, NEW outcome \in Outcomes, NEW packet \in Packets,
           NEW identity \in Identities \cup {None},
           RecordInsert(k, outcome, packet, identity)
    PROVE  CacheInv'
<1> DEFINE b == SurfaceBlocker(k, outcome, packet, identity, "CacheInsert")
           h == IF b = None THEN ExistingHit(k) ELSE None
           e == Entry(Outcome(outcome, b), packet, h, b, identity)
<1>1. outcome \in LookupOutcomes
  BY CacheAssumption
<1>2. /\ b \in BlockerCodes \cup {None}
      /\ b = None /\ outcome = "HitInstallable" => Passes(packet, k, "CacheInsert")
  BY <1>1, SurfaceBlockerFacts
<1>3. /\ Outcome(outcome, b) \in LookupOutcomes
      /\ Outcome(outcome, b) = "HitInstallable" => b = None /\ outcome = "HitInstallable"
  BY <1>1, <1>2, OutcomeFacts
<1>4. h \in Packets \cup {None}
  BY DEF CacheInv, TypeOK, Entries, ExistingHit
<1>5. Store(k, e)
  BY DEF RecordInsert
<1> HIDE DEF b, h
<1>6. e \in Entries
  BY <1>2, <1>3, <1>4 DEF Entries, Entry
<1>7. ArmedInserted(e, k)
  BY <1>2, <1>3 DEF ArmedInserted, Entry
<1> QED BY <1>5, <1>6, <1>7, StoreKeeps

\* Recording a hit packet on an entry keeps what the invariant says of it.
LEMMA HitEntryFacts ==
    ASSUME NEW entry \in Entries, NEW k \in Keys, ArmedInserted(entry, k),
           NEW outcome \in LookupOutcomes, NEW packet \in Packets,
           NEW identity \in Identities \cup {None}
    PROVE  /\ HitEntry(entry, outcome, packet, identity) \in Entries
           /\ ArmedInserted(HitEntry(entry, outcome, packet, identity), k)
<1>1. CASE outcome # "HitInstallable"
  BY <1>1 DEF HitEntry, Entry, Entries, ArmedInserted
<1>2. CASE outcome = "HitInstallable" /\ entry.blocker # None
  BY <1>2 DEF HitEntry, Entries, ArmedInserted
<1>3. CASE outcome = "HitInstallable" /\ entry.blocker = None
           /\ entry.outcome = "HitInstallable" /\ entry.insert # None
  BY <1>3 DEF HitEntry, Entry, Entries, ArmedInserted
<1>4. CASE outcome = "HitInstallable" /\ entry.blocker = None
           /\ ~(entry.outcome = "HitInstallable" /\ entry.insert # None)
  BY <1>4, CacheAssumption
     DEF HitEntry, Entry, Entries, ArmedInserted, LookupOutcomes, BlockerCodes
<1> QED BY <1>1, <1>2, <1>3, <1>4

\* Recording a cache-hit packet keeps the invariant.
LEMMA HitStep ==
    ASSUME CacheInv, NEW k \in Keys, NEW outcome \in Outcomes, NEW packet \in Packets,
           NEW identity \in Identities \cup {None},
           RecordHit(k, outcome, packet, identity)
    PROVE  CacheInv'
<1> DEFINE b == IF outcome = "HitInstallable" THEN "MissingGateMetadata" ELSE None
           fresh == Entry(outcome, None, None, b, None)
           entry == IF cache_entries[k] = None THEN fresh ELSE cache_entries[k]
<1>1. outcome \in LookupOutcomes /\ b \in BlockerCodes \cup {None}
      /\ (outcome = "HitInstallable" => b # None)
  BY CacheAssumption DEF BlockerCodes
<1>2. Store(k, HitEntry(entry, outcome, packet, identity))
  BY DEF RecordHit
<1> HIDE DEF b
<1>3. fresh \in Entries /\ ArmedInserted(fresh, k)
  BY <1>1 DEF Entry, Entries, ArmedInserted
<1> HIDE DEF fresh
<1>4. entry \in Entries /\ ArmedInserted(entry, k)
  BY <1>3 DEF CacheInv, TypeOK
<1> HIDE DEF entry
<1>5. /\ HitEntry(entry, outcome, packet, identity) \in Entries
      /\ ArmedInserted(HitEntry(entry, outcome, packet, identity), k)
  BY <1>1, <1>4, HitEntryFacts
<1> QED BY <1>2, <1>5, StoreKeeps

\* Every recording keeps the invariant.
LEMMA NextInv == CacheInv /\ [Next]_cache_entries => CacheInv'
<1> SUFFICES ASSUME CacheInv, [Next]_cache_entries PROVE CacheInv'
  OBVIOUS
<1>1. CASE UNCHANGED cache_entries
  BY <1>1 DEF CacheInv, TypeOK
<1>2. CASE Next
  <2>1. PICK k \in Keys, outcome \in Outcomes :
          \/ RecordEntry(k, outcome)
          \/ \E packet \in Packets, identity \in Identities \cup {None} :
                RecordGate(k, outcome, packet, identity)
          \/ \E packet \in Packets, identity \in Identities \cup {None} :
                RecordInsert(k, outcome, packet, identity)
    BY <1>2 DEF Next
  <2> QED BY <2>1, EntryStep, InsertStep, HitStep DEF RecordGate
<1> QED BY <1>1, <1>2

\* The empty table of AsyncCompileService::new satisfies the invariant.
LEMMA InitInv == Init => CacheInv
  BY DEF Init, CacheInv, TypeOK

\* CacheInv is an invariant of every sequence of recorded entries and packets.
LEMMA CacheInvariant == Spec => []CacheInv
  BY InitInv, NextInv, PTL DEF Spec

\* Whatever is recorded, the map holds only entries and absences.
THEOREM CacheTypes == Spec => []TypeOK
<1>1. CacheInv => TypeOK  BY DEF CacheInv
<1> QED  BY <1>1, CacheInvariant, PTL

\* cache_lookup_record reports HitInstallable only when the cache-insert gate
\* passed at insertion and the cache-hit gate passes now with the identity the
\* record carries.
THEOREM InstallableHits == Spec => []InstallableHitHasBothGates
<1>1. CacheInv => InstallableHitHasBothGates
  <2> SUFFICES ASSUME CacheInv, NEW k \in Keys, Lookup(k).outcome = "HitInstallable"
               PROVE  /\ Passes(cache_entries[k].insert, k, "CacheInsert")
                      /\ Passes(Lookup(k).gate, k, "CacheHit")
                      /\ Lookup(k).gate.identity = Lookup(k).identity
    BY DEF InstallableHitHasBothGates
  <2> DEFINE miss == Entry("Miss", None, None, None, None)
             entry == IF cache_entries[k] = None THEN miss ELSE cache_entries[k]
             ib == IF entry.outcome = "HitInstallable" /\ entry.insert = None
                      /\ entry.blocker = None
                   THEN "MissingGateMetadata" ELSE entry.blocker
             sb == SurfaceBlocker(k, entry.outcome, entry.hit, entry.identity, "CacheHit")
             b == IF ib # None THEN ib ELSE sb
  <2>1. entry \in Entries /\ (cache_entries[k] = None => entry.outcome = "Miss")
    BY CacheAssumption DEF CacheInv, TypeOK, Entries, Entry, LookupOutcomes, miss
  <2>2. cache_entries[k] # None => entry = cache_entries[k]
                                    /\ ArmedInserted(entry, k)
    BY SMTT(30) DEF CacheInv
  <2>3. /\ Lookup(k).outcome = Outcome(entry.outcome, b)
        /\ Lookup(k).gate = IF ib # None THEN entry.insert ELSE entry.hit
        /\ Lookup(k).identity = entry.identity
    BY Zenon DEF Lookup
  <2> HIDE DEF entry
  <2>4. ib \in BlockerCodes \cup {None}
    BY <2>1 DEF Entries, BlockerCodes
  <2>5. entry.outcome \in LookupOutcomes /\ entry.hit \in Packets \cup {None}
    BY <2>1 DEF Entries
  <2>6. /\ sb \in BlockerCodes \cup {None}
        /\ sb = None /\ entry.outcome = "HitInstallable" =>
              Passes(entry.hit, k, "CacheHit") /\ entry.hit.identity = entry.identity
    BY <2>5, SurfaceBlockerFacts
  <2> HIDE DEF sb
  <2>7. b = None /\ entry.outcome = "HitInstallable"
    <3>1. b \in BlockerCodes \cup {None}
      BY <2>4, <2>6
    <3> QED BY <2>3, <2>5, <3>1, OutcomeFacts
  <2>8. ib = None /\ sb = None /\ entry.blocker = None
    BY <2>7, CacheAssumption DEF BlockerCodes
  <2>9. cache_entries[k] # None
    BY <2>1, <2>7
  <2> QED BY <2>2, <2>3, <2>6, <2>7, <2>8, <2>9 DEF ArmedInserted
<1> QED BY <1>1, CacheInvariant, PTL

\* The entry is installable and not blocked.
IsArmed(entry) == entry.outcome = "HitInstallable" /\ entry.blocker = None

\* The entry is the result of an insertion that passed its gate.
Inserted(entry, k) ==
    /\ entry.hit = ExistingHit(k)
    /\ SurfaceBlocker(k, "HitInstallable", entry.insert, entry.identity, "CacheInsert") = None

\* Storing an entry that is not armed, is an insertion, or replaces an armed one
\* is no revival without an insertion.
LEMMA StoreRevives ==
    ASSUME CacheInv, NEW k \in Keys, NEW e \in Entries, Store(k, e),
           IsArmed(e) => Inserted(e, k) \/ Armed(k)
    PROVE  \A j \in Keys : ~Armed(j) /\ Armed(j)' => Inserted(cache_entries'[j], j)
<1>1. \A j \in Keys : cache_entries'[j] = IF j = k THEN e ELSE cache_entries[j]
  BY DEF CacheInv, TypeOK, Store
<1> QED BY <1>1 DEF Armed, IsArmed

\* record_manifest_cache_entry revives nothing.
LEMMA EntryRevives ==
    ASSUME CacheInv, NEW k \in Keys, NEW outcome \in Outcomes, RecordEntry(k, outcome)
    PROVE  \A j \in Keys : ~Armed(j) /\ Armed(j)' => Inserted(cache_entries'[j], j)
<1> DEFINE b == IF outcome = "HitInstallable" THEN "MissingGateMetadata" ELSE None
           e == Entry(Outcome(outcome, b), None, None, b, None)
<1>1. b \in BlockerCodes \cup {None} /\ outcome \in LookupOutcomes
  BY CacheAssumption DEF BlockerCodes
<1>2. Outcome(outcome, b) \in LookupOutcomes
      /\ (Outcome(outcome, b) = "HitInstallable" => b = None /\ outcome = "HitInstallable")
  BY <1>1, OutcomeFacts
<1>3. e \in Entries
  BY <1>1, <1>2 DEF Entries, Entry
<1>4. ~IsArmed(e)
  BY <1>2, CacheAssumption DEF IsArmed, Entry, BlockerCodes
<1>5. Store(k, e)
  BY DEF RecordEntry
<1> QED BY <1>3, <1>4, <1>5, StoreRevives

\* A cache-insert packet revives an entry only as an insertion that passed.
LEMMA InsertRevives ==
    ASSUME CacheInv, NEW k \in Keys, NEW outcome \in Outcomes, NEW packet \in Packets,
           NEW identity \in Identities \cup {None},
           RecordInsert(k, outcome, packet, identity)
    PROVE  \A j \in Keys : ~Armed(j) /\ Armed(j)' => Inserted(cache_entries'[j], j)
<1> DEFINE b == SurfaceBlocker(k, outcome, packet, identity, "CacheInsert")
           h == IF b = None THEN ExistingHit(k) ELSE None
           e == Entry(Outcome(outcome, b), packet, h, b, identity)
<1>1. outcome \in LookupOutcomes
  BY CacheAssumption
<1>2. b \in BlockerCodes \cup {None}
  BY <1>1, SurfaceBlockerFacts
<1>3. /\ Outcome(outcome, b) \in LookupOutcomes
      /\ Outcome(outcome, b) = "HitInstallable" => b = None /\ outcome = "HitInstallable"
  BY <1>1, <1>2, OutcomeFacts
<1>4. h \in Packets \cup {None}
  BY DEF CacheInv, TypeOK, Entries, ExistingHit
<1>5. Store(k, e)
  BY DEF RecordInsert
<1>6. IsArmed(e) => Inserted(e, k)
  <2>1. e.outcome = Outcome(outcome, b) /\ e.blocker = b
        /\ e.insert = packet /\ e.identity = identity /\ e.hit = h
    BY DEF Entry
  <2> HIDE DEF e
  <2> QED BY <1>3, <2>1 DEF IsArmed, Inserted
<1> HIDE DEF b, h
<1>7. e \in Entries
  BY <1>2, <1>3, <1>4 DEF Entries, Entry
<1> QED BY <1>5, <1>6, <1>7, StoreRevives

\* A cache-hit packet revives nothing.
LEMMA HitRevives ==
    ASSUME CacheInv, NEW k \in Keys, NEW outcome \in Outcomes, NEW packet \in Packets,
           NEW identity \in Identities \cup {None},
           RecordHit(k, outcome, packet, identity)
    PROVE  \A j \in Keys : ~Armed(j) /\ Armed(j)' => Inserted(cache_entries'[j], j)
<1> DEFINE b == IF outcome = "HitInstallable" THEN "MissingGateMetadata" ELSE None
           fresh == Entry(outcome, None, None, b, None)
           entry == IF cache_entries[k] = None THEN fresh ELSE cache_entries[k]
           e == HitEntry(entry, outcome, packet, identity)
<1>1. outcome \in LookupOutcomes /\ b \in BlockerCodes \cup {None}
      /\ (outcome = "HitInstallable" => b # None)
  BY CacheAssumption DEF BlockerCodes
<1>2. Store(k, e)
  BY DEF RecordHit
<1> HIDE DEF b
<1>3. fresh \in Entries /\ ArmedInserted(fresh, k) /\ ~IsArmed(fresh)
  BY <1>1 DEF Entry, Entries, ArmedInserted, IsArmed
<1> HIDE DEF fresh
<1>4. entry \in Entries /\ ArmedInserted(entry, k)
  BY <1>3 DEF CacheInv, TypeOK
<1>5. IsArmed(entry) => Armed(k)
  BY <1>3 DEF IsArmed, Armed
<1> HIDE DEF entry
<1>6. e \in Entries
  BY <1>1, <1>4, HitEntryFacts
<1>7. IsArmed(e) => IsArmed(entry)
  BY <1>4 DEF HitEntry, IsArmed, Entry, Entries
<1> QED BY <1>2, <1>5, <1>6, <1>7, StoreRevives

\* A downgraded or blocked entry is revived only by an insertion that passes
\* the cache-insert gate in the same step.
THEOREM OnlyInsertionRevives == Spec => RevivedOnlyByInsertion
<1> DEFINE Fine == \A k \in Keys : ~Armed(k) /\ Armed(k)' =>
                      /\ cache_entries'[k].hit = ExistingHit(k)
                      /\ SurfaceBlocker(k, "HitInstallable", cache_entries'[k].insert,
                                        cache_entries'[k].identity, "CacheInsert") = None
<1>1. CacheInv /\ [Next]_cache_entries => [Fine]_cache_entries
  <2> SUFFICES ASSUME CacheInv, Next PROVE Fine
    OBVIOUS
  <2>1. PICK k \in Keys, outcome \in Outcomes :
          \/ RecordEntry(k, outcome)
          \/ \E packet \in Packets, identity \in Identities \cup {None} :
                RecordGate(k, outcome, packet, identity)
          \/ \E packet \in Packets, identity \in Identities \cup {None} :
                RecordInsert(k, outcome, packet, identity)
    BY DEF Next
  <2>2. \A j \in Keys : ~Armed(j) /\ Armed(j)' => Inserted(cache_entries'[j], j)
    BY <2>1, EntryRevives, InsertRevives, HitRevives DEF RecordGate
  <2> QED BY <2>2 DEF Inserted
<1> QED BY <1>1, CacheInvariant, PTL DEF Spec, RevivedOnlyByInsertion

\* Nothing on the install path but the recording of entries and packets writes the
\* cache: a behaviour of the path is one of the cache, so what holds of the cache
\* holds on the path.
THEOREM PathRunsCache ==
    PathSpec => /\ Spec
                /\ []TypeOK /\ []InstallableHitHasBothGates /\ RevivedOnlyByInsertion
<1>1. PathInit => Init  BY DEF PathInit
<1>2. [PathNext]_pathVars => [Next]_cache_entries
  BY DEF PathNext, Compile, Record, Operate, Observe, Route, pathVars
<1>3. PathSpec => Spec  BY <1>1, <1>2, PTL DEF PathSpec, Spec
<1> QED  BY <1>3, CacheTypes, InstallableHits, OnlyInsertionRevives, PTL

=============================================================================
