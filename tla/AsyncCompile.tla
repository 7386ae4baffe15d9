---------------------------- MODULE AsyncCompile ----------------------------
(***************************************************************************)
(* The runtime-neutral asynchronous compile facade of trust-cg-codegen     *)
(* (async_compile_service.rs): a bounded queue, the requests handed to     *)
(* workers, a bounded store of terminal results, a bounded memory of       *)
(* evicted request ids, single flight per manifest cache key, and the      *)
(* install-gate check made when a result is published.                     *)
(*                                                                         *)
(* The facade has one owner (every method takes &mut self), so handlers    *)
(* never overlap.  The cancellation token and the generation fence of a    *)
(* request are atomics shared with other threads; they may change between  *)
(* two reads of one handler.  A handler that reads the token and later the *)
(* fence is therefore two steps here, with the handler's locals in op.     *)
(* poll reads the token again last, so its reads are as good as one, and   *)
(* it is one step.                                                         *)
(***************************************************************************)
EXTENDS Naturals, Sequences, FiniteSets

CONSTANTS
    Ids,             \* CompileRequestId
    Keys,            \* manifest cache keys (manifest_cache_key)
    Tokens,          \* CancellationToken (the shared atomic)
    Requests,        \* the requests callers may submit
    Responses,       \* the responses workers may hand back
    Packets,         \* native install gate packets
    None,            \* Option::None
    MaxQueued,       \* config.max_queued
    Budget,          \* config.max_total_submitted, or None
    MaxTerminal,     \* config.max_terminal_retained
    MaxEvicted,      \* config.max_evicted_retained
    MaxFence,        \* bound: largest generation the shared fence reaches
    MaxSubmitCalls   \* bound: number of submit calls

RequestFields ==
    [id : Ids, generation : Nat, stale_before : Nat \cup {None},
     fenced : BOOLEAN, key : Keys \cup {None}, token : Tokens]

PacketFields ==
    [surface : {"AsyncPoll", "CacheInsert", "CacheHit"}, artifact : Keys,
     accepted : BOOLEAN]

\* artifact is None when the response carries no artifact.
ResponseFields ==
    [status : {"Compiled", "Cancelled", "Stale", "Rejected", "Failed"},
     disposition : {"Installable", "ProfileOnly", "Rejected"},
     artifact : Keys \cup {None}, gate : Packets \cup {None}]

TerminalStates == {"CompiledInstallable", "ProfileOnly", "Rejected",
                   "Cancelled", "StaleGeneration", "Failed"}

\* A retained terminal entry: the state and what the response says of its
\* artifact and of the gate packet attached to it.
TerminalEntries ==
    [state : TerminalStates, artifact : Keys \cup {None},
     gate : Packets \cup {None}]

\* AsyncSubmitRejectCode
RejectCodes == {"DuplicateRequest", "Cancelled", "StaleGeneration",
                "DuplicateCacheKey", "QueueFull", "BudgetExceeded"}

ASSUME ConstantsAssumption ==
    /\ Requests \subseteq RequestFields
    /\ Packets \subseteq PacketFields
    /\ Responses \subseteq ResponseFields
    /\ None \notin Ids \cup Keys \cup Requests \cup Packets \cup Responses
    /\ None \notin Nat \cup TerminalEntries \cup RejectCodes
    /\ IsFiniteSet(Ids)
    /\ MaxQueued \in Nat /\ MaxTerminal \in Nat /\ MaxEvicted \in Nat
    /\ Budget \in Nat \cup {None}
    /\ MaxFence \in Nat /\ MaxSubmitCalls \in Nat

VARIABLES
    cancelled,         \* tokens whose atomic flag is set
    fence,             \* CompileGenerationFence::stale_before
    queued,            \* VecDeque of requests waiting for a worker
    running,           \* id -> request handed to a worker, or None
    terminal,          \* id -> retained terminal entry, or None
    terminal_order,    \* ids of terminal, oldest first
    evicted,           \* remembered evicted ids
    evicted_order,     \* ids of evicted, oldest first
    cache_records,     \* id -> cache key of its lookup record, or None
    cache_in_flight,   \* cache key -> id compiling it, or None
    gate_packets,      \* native_install_gate_packets: id -> packet, or None
    gate_blockers,     \* native_install_gate_blockers: id -> code, or None
    accepted_submits,
    summary,           \* telemetry_summary() of the packets pushed so far
    tickets,           \* tickets start_next has returned (they are Clone)
    op                 \* the handler in progress and its locals

terminalVars == <<terminal, terminal_order, evicted, evicted_order,
                  cache_records, cache_in_flight, gate_packets, gate_blockers>>
activeVars == <<queued, running, tickets>>
vars == <<cancelled, fence, activeVars, terminalVars, accepted_submits,
          summary, op>>

BlockerCodes == {"MissingGateMetadata", "GateMetadataMismatch", "GateRejected"}
SummaryFields == {"submit", "cancel", "reject", "stale", "profile_only",
                  "failed", "compiled"}

Present(f) == {i \in Ids : f[i] # None}
IdsOf(q) == {q[j].id : j \in 1..Len(q)}

Handler(kind, r) ==
    [kind |-> kind, request |-> r, ticket |-> None, response |-> None,
     late |-> FALSE]
Idle == Handler("idle", None)
Looping == Handler("start_loop", None)
Submitting(r) == Handler("submit", r)
Starting(r) == Handler("start", r)

\* late is history: the ticket's own token was set before finish was called.
Finishing(r, t, resp) ==
    [kind |-> "finish", request |-> r, ticket |-> t, response |-> resp,
     late |-> t.token \in cancelled]

\* The request a handler has taken out of the queue or out of running.
InHand == IF op.kind \in {"start", "finish"} THEN {op.request} ELSE {}

ActiveRequests ==
    {queued[j] : j \in 1..Len(queued)} \cup
    {running[i] : i \in Present(running)} \cup InHand

Init ==
    /\ cancelled = {}
    /\ fence = 0
    /\ queued = <<>>
    /\ running = [i \in Ids |-> None]
    /\ terminal = [i \in Ids |-> None]
    /\ terminal_order = <<>>
    /\ evicted = {}
    /\ evicted_order = <<>>
    /\ cache_records = [i \in Ids |-> None]
    /\ cache_in_flight = [k \in Keys |-> None]
    /\ gate_packets = [i \in Ids |-> None]
    /\ gate_blockers = [i \in Ids |-> None]
    /\ accepted_submits = 0
    /\ summary = [f \in SummaryFields |-> 0]
    /\ tickets = {}
    /\ op = Idle

-----------------------------------------------------------------------------
(* What the handlers share.                                                *)

Larger(a, b) == IF a < b THEN b ELSE a

\* request_is_stale: the request-local bound and the shared fence, if any.
IsStale(r) ==
    LET local == IF r.stale_before = None THEN 0 ELSE r.stale_before
        shared == IF r.fenced THEN fence ELSE 0
    IN  r.generation < Larger(local, shared)

IsCancelled(r) == r.token \in cancelled

HasActive(i) == i \in IdsOf(queued) \/ running[i] # None

\* Mutant: the ids of retained results are free for reuse.
MutHasRequestId(i) == HasActive(i)

HasRequestId(i) == HasActive(i) \/ terminal[i] # None

Counted(s, f) == [s EXCEPT ![f] = @ + 1]

\* The summary counter of the event a terminal state is reported with.
StateCounter(state) ==
    CASE state = "Cancelled" -> "cancel"
      [] state = "StaleGeneration" -> "stale"
      [] state = "CompiledInstallable" -> "compiled"
      [] state = "ProfileOnly" -> "profile_only"
      [] state = "Failed" -> "failed"
      [] state = "Rejected" -> "reject"

\* terminal_response: no artifact, hence no gate packet.
NoArtifact(state) == [state |-> state, artifact |-> None, gate |-> None]

\* Mutant: an id evicted twice is listed twice.
MutRememberTwice(e) ==
    /\ evicted' = evicted \cup {e}
    /\ evicted_order' = Append(evicted_order, e)

\* remember_evicted.  One id is added at a time, so its trimming loop runs at
\* most once; BoundedRetention shows that one round is always enough.
RememberEvicted(e) ==
    LET ids == evicted \cup {e}
        order == IF e \in evicted THEN evicted_order
                                  ELSE Append(evicted_order, e)
    IN  IF Cardinality(ids) > MaxEvicted /\ order # <<>>
        THEN /\ evicted' = ids \ {Head(order)}
             /\ evicted_order' = Tail(order)
        ELSE /\ evicted' = ids
             /\ evicted_order' = order

OverRetention(f) == Cardinality(Present(f)) > MaxTerminal

\* insert_terminal, given the maps as the caller has just left them.  Its
\* eviction loop runs at most once (BoundedRetention shows one round is enough).
InsertTerminal(i, entry, records, packets, blockers) ==
    LET kept == [terminal EXCEPT ![i] = entry]
        order == IF terminal[i] = None THEN Append(terminal_order, i)
                                       ELSE terminal_order
        full == OverRetention(kept) /\ order # <<>>
        oldest == Head(order)
        evicts == full /\ kept[oldest] # None
        Without(f) == IF evicts THEN [f EXCEPT ![oldest] = None] ELSE f
    IN  /\ cache_in_flight' =
             [k \in Keys |-> IF records[i] = k /\ cache_in_flight[k] = i
                             THEN None ELSE cache_in_flight[k]]
        /\ terminal' = Without(kept)
        /\ terminal_order' = IF full THEN Tail(order) ELSE order
        /\ cache_records' = Without(records)
        /\ gate_packets' = Without(packets)
        /\ gate_blockers' = Without(blockers)
        /\ IF evicts THEN RememberEvicted(oldest)
                     ELSE UNCHANGED <<evicted, evicted_order>>

\* A request that ends without an artifact, reported as Cancel or StaleDrop.
Expire(r, state) ==
    /\ InsertTerminal(r.id, NoArtifact(state), cache_records, gate_packets,
                      gate_blockers)
    /\ summary' = Counted(summary, StateCounter(state))

-----------------------------------------------------------------------------
(* submit                                                                  *)

\* Mutant: the key in flight is not looked up.
MutLateRejectCode(r) ==
    IF IsStale(r) THEN "StaleGeneration"
    ELSE IF Len(queued) >= MaxQueued THEN "QueueFull"
    ELSE IF Budget # None /\ accepted_submits >= Budget THEN "BudgetExceeded"
    ELSE None

\* submit_reject_code after the token has been read as not set.
LateRejectCode(r) ==
    IF IsStale(r) THEN "StaleGeneration"
    ELSE IF r.key # None /\ cache_in_flight[r.key] # None THEN "DuplicateCacheKey"
    ELSE IF Len(queued) >= MaxQueued THEN "QueueFull"
    ELSE IF Budget # None /\ accepted_submits >= Budget THEN "BudgetExceeded"
    ELSE None

\* Mutant: the code itself is stored as the state.
MutRejectState(code) == code

\* AsyncSubmitRejectCode::state
RejectState(code) ==
    CASE code = "StaleGeneration" -> "StaleGeneration"
      [] code = "Cancelled" -> "Cancelled"
      [] OTHER -> "Rejected"

DuplicateActive(r, code) == code = "DuplicateRequest" /\ HasActive(r.id)

\* Mutant: a duplicate's record replaces the active request's.
MutRecordsAfterReject(r, code) ==
    IF r.key # None THEN [cache_records EXCEPT ![r.id] = r.key] ELSE cache_records

RecordsAfterReject(r, code) ==
    IF r.key # None /\ ~DuplicateActive(r, code)
    THEN [cache_records EXCEPT ![r.id] = r.key]
    ELSE cache_records

\* Mutant: a rejected duplicate replaces the retained result.
MutRetainsRejection(r, code) == ~DuplicateActive(r, code)

RetainsRejection(r, code) ==
    /\ ~DuplicateActive(r, code)
    /\ \/ code \notin {"DuplicateRequest", "DuplicateCacheKey"}
       \/ terminal[r.id] = None

\* The rejecting half of submit: every rejection is an ImmediateReject event.
RejectSubmit(r, code) ==
    LET records == RecordsAfterReject(r, code)
    IN  /\ IF RetainsRejection(r, code)
           THEN InsertTerminal(r.id, NoArtifact(RejectState(code)), records,
                               gate_packets, gate_blockers)
           ELSE /\ cache_records' = records
                /\ UNCHANGED <<terminal, terminal_order, evicted, evicted_order,
                               cache_in_flight, gate_packets, gate_blockers>>
        /\ summary' = Counted(Counted(summary, "submit"), "reject")
        /\ op' = Idle
        /\ UNCHANGED <<cancelled, fence, activeVars, accepted_submits>>

\* The accepting half of submit.
AcceptSubmit(r) ==
    /\ IF r.key # None
       THEN /\ cache_in_flight' = [cache_in_flight EXCEPT ![r.key] = r.id]
            /\ cache_records' = [cache_records EXCEPT ![r.id] = r.key]
       ELSE UNCHANGED <<cache_in_flight, cache_records>>
    /\ queued' = Append(queued, r)
    /\ accepted_submits' = accepted_submits + 1
    /\ summary' = Counted(summary, "submit")
    /\ op' = Idle
    /\ UNCHANGED <<cancelled, fence, running, tickets, terminal, terminal_order,
                   evicted, evicted_order, gate_packets, gate_blockers>>

\* submit up to the read of the cancellation token.
Submit(r) ==
    /\ op = Idle
    /\ summary["submit"] < MaxSubmitCalls
    /\ IF HasRequestId(r.id) THEN RejectSubmit(r, "DuplicateRequest")
       ELSE IF IsCancelled(r) THEN RejectSubmit(r, "Cancelled")
       ELSE /\ op' = Submitting(r)
            /\ UNCHANGED <<cancelled, fence, activeVars, terminalVars,
                           accepted_submits, summary>>

\* submit from the read of the generation fence to its return.
SubmitRest ==
    /\ op.kind = "submit"
    /\ IF LateRejectCode(op.request) # None
       THEN RejectSubmit(op.request, LateRejectCode(op.request))
       ELSE AcceptSubmit(op.request)

-----------------------------------------------------------------------------
(* poll, explain_reject and cancel                                         *)

\* The first position of the queue that holds the id.
PositionOf(i) ==
    CHOOSE j \in 1..Len(queued) :
        queued[j].id = i /\ \A h \in 1..(j - 1) : queued[h].id # i

WithoutPosition(q, j) == SubSeq(q, 1, j - 1) \o SubSeq(q, j + 1, Len(q))

DropQueued(i) ==
    /\ queued' = WithoutPosition(queued, PositionOf(i))
    /\ UNCHANGED <<running, tickets>>

DropRunning(i) ==
    /\ running' = [running EXCEPT ![i] = None]
    /\ UNCHANGED <<queued, tickets>>

Expired(r) == IsCancelled(r) \/ IsStale(r)

ExpiredState(r) == IF IsCancelled(r) THEN "Cancelled" ELSE "StaleGeneration"

\* poll changes state only when the polled request turns out to be cancelled or
\* stale.  explain_reject is poll and a telemetry packet the summary ignores.
PollBody(i) ==
    /\ IF i \in IdsOf(queued) /\ Expired(queued[PositionOf(i)])
       THEN /\ DropQueued(i)
            /\ Expire(queued[PositionOf(i)], ExpiredState(queued[PositionOf(i)]))
       ELSE IF i \notin IdsOf(queued) /\ running[i] # None /\ Expired(running[i])
       THEN /\ DropRunning(i)
            /\ Expire(running[i], ExpiredState(running[i]))
       ELSE UNCHANGED <<activeVars, terminalVars, summary>>
    /\ UNCHANGED <<cancelled, fence, accepted_submits, op>>

Poll(i) ==
    /\ op = Idle
    /\ PollBody(i)

\* cancel sets the token of a queued or running request; otherwise it is poll.
Cancel(i) ==
    /\ op = Idle
    /\ IF i \in IdsOf(queued)
       THEN /\ DropQueued(i)
            /\ Expire(queued[PositionOf(i)], "Cancelled")
            /\ cancelled' = cancelled \cup {queued[PositionOf(i)].token}
            /\ UNCHANGED <<fence, accepted_submits, op>>
       ELSE IF running[i] # None
       THEN /\ DropRunning(i)
            /\ Expire(running[i], "Cancelled")
            /\ cancelled' = cancelled \cup {running[i].token}
            /\ UNCHANGED <<fence, accepted_submits, op>>
       ELSE PollBody(i)

-----------------------------------------------------------------------------
(* start_next                                                              *)

\* One turn of start_next's loop up to the read of the popped request's token.
\* An empty queue ends the call with no ticket.
StartNext ==
    /\ op \in {Idle, Looping}
    /\ IF queued = <<>>
       THEN /\ op' = Idle
            /\ UNCHANGED <<queued, terminalVars, summary>>
       ELSE /\ queued' = Tail(queued)
            /\ IF IsCancelled(Head(queued))
               THEN /\ Expire(Head(queued), "Cancelled")
                    /\ op' = Looping
               ELSE /\ op' = Starting(Head(queued))
                    /\ UNCHANGED <<terminalVars, summary>>
    /\ UNCHANGED <<cancelled, fence, running, tickets, accepted_submits>>

\* Mutant: a stale request goes back to the queue.
MutStartRest ==
    /\ op.kind = "start"
    /\ IF IsStale(op.request)
       THEN /\ queued' = Append(queued, op.request)
            /\ op' = Looping
            /\ UNCHANGED <<running, tickets>>
       ELSE /\ running' = [running EXCEPT ![op.request.id] = op.request]
            /\ tickets' = tickets \cup {op.request}
            /\ op' = Idle
            /\ UNCHANGED queued
    /\ UNCHANGED <<cancelled, fence, terminalVars, summary, accepted_submits>>

\* The rest of the turn: drop the request if it is stale, else return a ticket.
StartRest ==
    /\ op.kind = "start"
    /\ IF IsStale(op.request)
       THEN /\ Expire(op.request, "StaleGeneration")
            /\ op' = Looping
            /\ UNCHANGED <<running, tickets>>
       ELSE /\ running' = [running EXCEPT ![op.request.id] = op.request]
            /\ tickets' = tickets \cup {op.request}
            /\ op' = Idle
            /\ UNCHANGED <<terminalVars, summary>>
    /\ UNCHANGED <<cancelled, fence, queued, accepted_submits>>

-----------------------------------------------------------------------------
(* finish                                                                  *)

StateForResponse(resp) ==
    CASE resp.status = "Compiled" ->
            IF resp.artifact = None THEN "Rejected"
            ELSE IF resp.disposition = "Installable" THEN "CompiledInstallable"
            ELSE resp.disposition
      [] resp.status = "Stale" -> "StaleGeneration"
      [] OTHER -> resp.status

\* response_gate_blocker for a response that would be installable.
GateBlocker(artifact, gate) ==
    IF gate = None THEN "MissingGateMetadata"
    ELSE IF gate.surface # "AsyncPoll" \/ gate.artifact # artifact
    THEN "GateMetadataMismatch"
    ELSE IF ~gate.accepted THEN "GateRejected" ELSE None

\* Mutant: the recorded packet is checked but not put into the response.
MutAttach(resp, gate) == resp.gate

\* attach_async_poll_gate_packet
Attach(resp, gate) == gate

\* Mutant: the blocker is reported but the result stays as it was.
MutGateBlocked(wanted, blocker) == wanted

\* gate_blocked_response and the state finish gives it.
GateBlocked(wanted, blocker) == IF blocker = None THEN wanted ELSE "Rejected"

\* The publishing half of finish for a worker's response.  An installable one
\* takes its own gate packet, else the packet recorded for the request id.
Publish(i, resp) ==
    LET wanted == StateForResponse(resp)
        gate == IF wanted = "CompiledInstallable" /\ resp.gate = None
                THEN gate_packets[i] ELSE resp.gate
        blocker == IF wanted = "CompiledInstallable"
                   THEN GateBlocker(resp.artifact, gate) ELSE None
        state == GateBlocked(wanted, blocker)
        packets == IF wanted = "CompiledInstallable" /\ gate # None
                   THEN [gate_packets EXCEPT ![i] = gate] ELSE gate_packets
        blockers == IF blocker = None THEN gate_blockers
                    ELSE [gate_blockers EXCEPT ![i] = blocker]
    IN  /\ InsertTerminal(i, [state |-> state, artifact |-> resp.artifact,
                              gate |-> Attach(resp, gate)],
                          cache_records, packets, blockers)
        /\ summary' = Counted(summary, StateCounter(state))

\* finish up to the read of the running request's token.  A ticket whose id is
\* not running only polls.
Finish(t, resp) ==
    /\ op = Idle
    /\ IF running[t.id] = None
       THEN PollBody(t.id)
       ELSE /\ DropRunning(t.id)
            /\ IF IsCancelled(running[t.id])
               THEN /\ Expire(running[t.id], "Cancelled")
                    /\ op' = Idle
               ELSE /\ op' = Finishing(running[t.id], t, resp)
                    /\ UNCHANGED <<terminalVars, summary>>
            /\ UNCHANGED <<cancelled, fence, accepted_submits>>

\* Mutant: the fence is not read again before the result is published.
MutFinishRest ==
    /\ op.kind = "finish"
    /\ Publish(op.ticket.id, op.response)
    /\ op' = Idle
    /\ UNCHANGED <<cancelled, fence, activeVars, accepted_submits>>

\* finish from the read of the generation fence to its return.
FinishRest ==
    /\ op.kind = "finish"
    /\ IF IsStale(op.request)
       THEN Expire(op.request, "StaleGeneration")
       ELSE Publish(op.ticket.id, op.response)
    /\ op' = Idle
    /\ UNCHANGED <<cancelled, fence, activeVars, accepted_submits>>

-----------------------------------------------------------------------------
(* What other threads and integrations do.                                 *)

\* CancellationToken::cancel by whoever holds a clone of the token.
CancelToken(t) ==
    /\ t \notin cancelled
    /\ cancelled' = cancelled \cup {t}
    /\ UNCHANGED <<fence, activeVars, terminalVars, accepted_submits, summary, op>>

\* CompileGenerationFence::mark_stale_before; it never lowers the fence.
MarkStaleBefore(g) ==
    /\ g > fence
    /\ fence' = g
    /\ UNCHANGED <<cancelled, activeVars, terminalVars, accepted_submits, summary, op>>

\* record_native_install_gate_packet
RecordGatePacket(i, p) ==
    /\ op = Idle
    /\ gate_packets' = [gate_packets EXCEPT ![i] = p]
    /\ UNCHANGED <<cancelled, fence, activeVars, terminal, terminal_order,
                   evicted, evicted_order, cache_records, cache_in_flight,
                   gate_blockers, accepted_submits, summary, op>>

Next ==
    \/ \E r \in Requests : Submit(r)
    \/ SubmitRest
    \/ \E i \in Ids : Poll(i)
    \/ \E i \in Ids : Cancel(i)
    \/ StartNext
    \/ StartRest
    \/ \E t \in tickets, resp \in Responses : Finish(t, resp)
    \/ FinishRest
    \/ \E t \in Tokens : CancelToken(t)
    \/ \E g \in 1..MaxFence : MarkStaleBefore(g)
    \/ \E i \in Ids, p \in Packets : RecordGatePacket(i, p)

Spec == Init /\ [][Next]_vars

\* A handler that has begun runs to its return.  Workers keep asking for work
\* and every ticket's holder calls finish in the end; both must get their turn
\* among the callers of the facade, hence strong fairness.
Fairness ==
    /\ WF_vars(SubmitRest) /\ WF_vars(StartRest) /\ WF_vars(FinishRest)
    /\ SF_vars(StartNext)
    /\ \A r \in Requests :
          SF_vars(running[r.id] = r /\ \E resp \in Responses : Finish(r, resp))

FairSpec == Spec /\ Fairness

-----------------------------------------------------------------------------
(* Properties                                                              *)

Ops ==
    [kind : {"idle", "start_loop", "submit", "start", "finish"},
     request : Requests \cup {None}, ticket : Requests \cup {None},
     response : Responses \cup {None}, late : BOOLEAN]

\* The type of every field of AsyncCompileService and of a handler's locals.
TypeOK ==
    /\ cancelled \subseteq Tokens
    /\ fence \in Nat
    /\ queued \in Seq(Requests)
    /\ running \in [Ids -> Requests \cup {None}]
    /\ terminal \in [Ids -> TerminalEntries \cup {None}]
    /\ terminal_order \in Seq(Ids)
    /\ evicted \subseteq Ids
    /\ evicted_order \in Seq(Ids)
    /\ cache_records \in [Ids -> Keys \cup {None}]
    /\ cache_in_flight \in [Keys -> Ids \cup {None}]
    /\ gate_packets \in [Ids -> Packets \cup {None}]
    /\ gate_blockers \in [Ids -> BlockerCodes \cup {None}]
    /\ accepted_submits \in Nat
    /\ summary \in [SummaryFields -> Nat]
    /\ tickets \subseteq Requests
    /\ op \in Ops

\* A request id is in at most one place: one position of the queue, running,
\* in the hands of start_next or finish, or retained as terminal.
OnePlacePerId ==
    /\ \A j, h \in 1..Len(queued) : queued[j].id = queued[h].id => j = h
    /\ \A i \in Present(running) : running[i].id = i /\ i \notin IdsOf(queued)
    /\ \A r \in InHand : r.id \notin IdsOf(queued) /\ running[r.id] = None
    /\ \A r \in ActiveRequests : terminal[r.id] = None

\* Single flight: cache_in_flight names a key's owner exactly while a queued or
\* running request with that key exists, so no key is leaked when a request
\* ends by any path and no second compile of a key is admitted.
SingleFlight ==
    /\ \A r \in ActiveRequests : r.key # None => cache_in_flight[r.key] = r.id
    /\ \A k \in Keys : cache_in_flight[k] # None =>
          \E r \in ActiveRequests : r.id = cache_in_flight[k] /\ r.key = k

\* insert_terminal finds an active request's own key in cache_records (a
\* rejected submit never overwrites it), and records die with their request.
RecordsFollowRequests ==
    /\ \A r \in ActiveRequests : cache_records[r.id] = r.key
    /\ \A i \in Present(cache_records) :
          terminal[i] # None \/ \E r \in ActiveRequests : r.id = i

Lists(order, ids, max) ==
    /\ \A j, h \in 1..Len(order) : order[j] = order[h] => j = h
    /\ {order[j] : j \in 1..Len(order)} = ids
    /\ Cardinality(ids) <= max

\* terminal and terminal_order list the same ids once each and never more than
\* max_terminal_retained of them, and so do evicted and evicted_order up to
\* max_evicted_retained, through reuse of evicted ids: the trimming loops of
\* insert_terminal and remember_evicted need one round.
BoundedRetention ==
    /\ Lists(terminal_order, Present(terminal), MaxTerminal)
    /\ Lists(evicted_order, evicted, MaxEvicted)

\* A gate blocker is on record only for a retained result it turned into a
\* rejection: none survives eviction to taint a later request with the same id.
BlockersExplainRejections ==
    \A i \in Present(gate_blockers) :
        terminal[i] # None /\ terminal[i].state = "Rejected"

\* A result retained as CompiledInstallable passes the recheck that
\* AsyncCompilePoll::is_installable makes on the retained response, whether its
\* packet came with the response or was recorded for the request id.
InstallablePollAgrees ==
    \A i \in Present(terminal) : terminal[i].state = "CompiledInstallable" =>
        GateBlocker(terminal[i].artifact, terminal[i].gate) = None

\* A terminal result never changes while it is retained: a late finish, a late
\* cancel and a duplicate submit all leave it as it is.
TerminalNeverChanges ==
    [][\A i \in Ids : terminal[i] # None => terminal'[i] \in {terminal[i], None}]_vars

BecomesInstallable(i) ==
    /\ terminal'[i] # None /\ terminal'[i].state = "CompiledInstallable"
    /\ terminal[i] # terminal'[i]

\* No result becomes installable for a request that is stale when it is
\* published, or whose token was set before its own worker called finish.
NoLateInstall ==
    [][\A i \in Ids : BecomesInstallable(i) =>
          /\ ~IsStale(op.request)
          /\ op.ticket = op.request => ~op.late]_vars

Active(i) == \E r \in ActiveRequests : r.id = i

\* Every accepted request ends, whatever callers, token holders and the fence
\* do, as long as workers keep taking tickets and finishing them: start_next and
\* finish neither lose a request nor keep one circulating.
EveryRequestEnds == \A i \in Ids : Active(i) ~> ~Active(i)

\* What finish promises of its caller's request: if the ticket's request was
\* cancelled while the backend worked, the result published is not installable.
CancelledTicketNeverInstalls ==
    [][\A i \in Ids : BecomesInstallable(i) => ~op.late]_vars
=============================================================================
