------------------------- MODULE AsyncCompileProofs -------------------------
(***************************************************************************)
(* Theorems about AsyncCompile for every set of requests, ids, keys,       *)
(* tokens, packets and responses and every capacity: first the inductive   *)
(* invariant LifecycleInv and what the helpers and the moves of a request  *)
(* do to its parts, then one lemma per action, then the theorems, last the *)
(* one that what AsyncCompile remembers stays within its capacities.       *)
(***************************************************************************)
EXTENDS AsyncCompile, Integers, FiniteSetTheorems, TLAPS

\* Most steps are first-order; those that count or compare name SMT.
USE Zenon

\* What a handler in progress holds in its locals.
OpShape ==
    /\ op.kind \in {"submit", "start"} => op.request \in Requests
    /\ op.kind = "finish" =>
          /\ op.request \in Requests
          /\ op.ticket \in Requests
          /\ op.response \in Responses
          /\ op.ticket.id = op.request.id
          /\ op.ticket = op.request => ~op.late
    /\ op.kind = "submit" => ~HasRequestId(op.request.id)

\* The fields of a request, from the assumption on the constants.
LEMMA RequestTypes ==
    ASSUME NEW r \in Requests
    PROVE  /\ r.id \in Ids /\ r.key \in Keys \cup {None} /\ r.token \in Tokens
           /\ r.generation \in Nat /\ r.fenced \in BOOLEAN /\ r # None
BY ConstantsAssumption DEF RequestFields

\* The fields of a response.
LEMMA ResponseTypes ==
    ASSUME NEW s \in Responses
    PROVE  /\ s.artifact \in Keys \cup {None} /\ s.gate \in Packets \cup {None}
           /\ StateForResponse(s) \in TerminalStates
BY ConstantsAssumption DEF ResponseFields, StateForResponse, TerminalStates

\* insert_terminal keeps the types of the maps it writes.
LEMMA InsertTerminalTypes ==
    ASSUME TypeOK, NEW i \in Ids, NEW entry \in TerminalEntries,
           NEW recs \in [Ids -> Keys \cup {None}],
           NEW pkts \in [Ids -> Packets \cup {None}],
           NEW blks \in [Ids -> BlockerCodes \cup {None}],
           InsertTerminal(i, entry, recs, pkts, blks)
    PROVE  /\ terminal' \in [Ids -> TerminalEntries \cup {None}]
           /\ terminal_order' \in Seq(Ids)
           /\ evicted' \subseteq Ids
           /\ evicted_order' \in Seq(Ids)
           /\ cache_records' \in [Ids -> Keys \cup {None}]
           /\ cache_in_flight' \in [Keys -> Ids \cup {None}]
           /\ gate_packets' \in [Ids -> Packets \cup {None}]
           /\ gate_blockers' \in [Ids -> BlockerCodes \cup {None}]
<1> DEFINE kept == [terminal EXCEPT ![i] = entry]
           order == IF terminal[i] = None THEN Append(terminal_order, i)
                                          ELSE terminal_order
           full == OverRetention(kept) /\ order # <<>>
           oldest == Head(order)
           evicts == full /\ kept[oldest] # None
<1>1. /\ kept \in [Ids -> TerminalEntries \cup {None}]
      /\ order \in Seq(Ids)
  BY SMT DEF TypeOK
<1>2. full => oldest \in Ids /\ Tail(order) \in Seq(Ids)
  <2> HIDE DEF order
  <2> QED BY <1>1, SMT
<1> HIDE DEF kept, order
<1>3. /\ terminal' = IF evicts THEN [kept EXCEPT ![oldest] = None] ELSE kept
      /\ terminal_order' = IF full THEN Tail(order) ELSE order
      /\ cache_records' = IF evicts THEN [recs EXCEPT ![oldest] = None] ELSE recs
      /\ gate_packets' = IF evicts THEN [pkts EXCEPT ![oldest] = None] ELSE pkts
      /\ gate_blockers' = IF evicts THEN [blks EXCEPT ![oldest] = None] ELSE blks
      /\ IF evicts THEN RememberEvicted(oldest)
                   ELSE UNCHANGED <<evicted, evicted_order>>
      /\ cache_in_flight' =
             [k \in Keys |-> IF recs[i] = k /\ cache_in_flight[k] = i
                             THEN None ELSE cache_in_flight[k]]
  BY DEF InsertTerminal, kept, order
<1>4. evicted' \subseteq Ids /\ evicted_order' \in Seq(Ids)
  <2>1. CASE ~evicts
    BY <2>1, <1>3 DEF TypeOK
  <2>2. CASE evicts
    <3> DEFINE ids == evicted \cup {oldest}
               eo == IF oldest \in evicted THEN evicted_order
                                           ELSE Append(evicted_order, oldest)
    <3>1. ids \subseteq Ids /\ eo \in Seq(Ids)
      BY <2>2, <1>2, SMT DEF TypeOK
    <3>2. \/ evicted' = ids \ {Head(eo)} /\ evicted_order' = Tail(eo) /\ eo # <<>>
          \/ evicted' = ids /\ evicted_order' = eo
      BY <2>2, <1>3 DEF RememberEvicted
    <3> HIDE DEF ids, eo
    <3> QED BY <3>1, <3>2, SMT
  <2> QED BY <2>1, <2>2
<1>5. cache_in_flight' \in [Keys -> Ids \cup {None}]
  BY <1>3 DEF TypeOK
<1> HIDE DEF full, oldest
<1> QED BY <1>1, <1>2, <1>3, <1>4, <1>5 DEF evicts

-----------------------------------------------------------------------------
(* Type correctness                                                        *)

\* The terminal-side maps are typed.
TerminalSideOK ==
    /\ terminal \in [Ids -> TerminalEntries \cup {None}]
    /\ terminal_order \in Seq(Ids)
    /\ evicted \subseteq Ids
    /\ evicted_order \in Seq(Ids)
    /\ cache_records \in [Ids -> Keys \cup {None}]
    /\ cache_in_flight \in [Keys -> Ids \cup {None}]
    /\ gate_packets \in [Ids -> Packets \cup {None}]
    /\ gate_blockers \in [Ids -> BlockerCodes \cup {None}]

\* Counting an event keeps the summary typed.
LEMMA CountedType ==
    ASSUME NEW s \in [SummaryFields -> Nat], NEW f \in SummaryFields
    PROVE  Counted(s, f) \in [SummaryFields -> Nat]
BY SMT DEF Counted

\* Every terminal state is reported with one of the summary's counters.
LEMMA StateCounterType ==
    ASSUME NEW state \in TerminalStates
    PROVE  StateCounter(state) \in SummaryFields
BY DEF StateCounter, TerminalStates, SummaryFields

\* Ending a request without an artifact keeps the types.
LEMMA ExpireTypes ==
    ASSUME TypeOK, NEW r \in Requests, NEW state \in TerminalStates,
           Expire(r, state)
    PROVE  TerminalSideOK' /\ summary' \in [SummaryFields -> Nat]
<1>1. r.id \in Ids
  BY RequestTypes
<1>2. NoArtifact(state) \in TerminalEntries
  BY DEF NoArtifact, TerminalEntries
<1>3. TerminalSideOK'
  BY <1>1, <1>2, InsertTerminalTypes DEF Expire, TypeOK, TerminalSideOK
<1>4. summary' \in [SummaryFields -> Nat]
  BY CountedType, StateCounterType DEF Expire, TypeOK
<1> QED BY <1>3, <1>4

\* The blockers and the gate of a new entry agree with its state: a blocker is
\* added only for an entry it turned into a rejection, and an installable entry
\* has none.
Explained(i, entry, blks) ==
    /\ \A x \in Ids : blks[x] = gate_blockers[x] \/ (x = i /\ entry.state = "Rejected")
    /\ entry.state = "CompiledInstallable" =>
          GateBlocker(entry.artifact, entry.gate) = None

\* Publishing a worker's response inserts one well-typed terminal entry, with
\* the blocker that explains it.
LEMMA PublishInserts ==
    ASSUME TypeOK, NEW i \in Ids, NEW resp \in Responses, Publish(i, resp)
    PROVE  /\ summary' \in [SummaryFields -> Nat]
           /\ \E e \in TerminalEntries, p \in [Ids -> Packets \cup {None}],
                 b \in [Ids -> BlockerCodes \cup {None}] :
                 InsertTerminal(i, e, cache_records, p, b) /\ Explained(i, e, b)
<1> DEFINE wanted == StateForResponse(resp)
           gate == IF wanted = "CompiledInstallable" /\ resp.gate = None
                   THEN gate_packets[i] ELSE resp.gate
           blocker == IF wanted = "CompiledInstallable"
                      THEN GateBlocker(resp.artifact, gate) ELSE None
           state == GateBlocked(wanted, blocker)
           packets == IF wanted = "CompiledInstallable" /\ gate # None
                      THEN [gate_packets EXCEPT ![i] = gate] ELSE gate_packets
           blockers == IF blocker = None THEN gate_blockers
                       ELSE [gate_blockers EXCEPT ![i] = blocker]
           entry == [state |-> state, artifact |-> resp.artifact, gate |-> gate]
<1>1. InsertTerminal(i, entry, cache_records, packets, blockers)
      /\ summary' = Counted(summary, StateCounter(state))
  BY DEF Publish, Attach
<1>2. /\ wanted \in TerminalStates
      /\ resp.artifact \in Keys \cup {None} /\ resp.gate \in Packets \cup {None}
  BY ResponseTypes
<1> HIDE DEF wanted
<1>3. gate \in Packets \cup {None}
  BY <1>2 DEF TypeOK
<1> HIDE DEF gate
<1>4. blocker \in BlockerCodes \cup {None}
  BY DEF GateBlocker, BlockerCodes
<1>5. state = "CompiledInstallable" => GateBlocker(resp.artifact, gate) = None
  BY DEF GateBlocked
<1> HIDE DEF blocker
<1>8. state \in TerminalStates /\ (blocker # None => state = "Rejected")
  BY <1>2 DEF TerminalStates, GateBlocked
<1> HIDE DEF state
<1>9. Explained(i, entry, blockers)
  <2>1. entry.state = state /\ entry.artifact = resp.artifact /\ entry.gate = gate
    OBVIOUS
  <2>2. \A x \in Ids : blockers[x] = gate_blockers[x] \/ (x = i /\ blocker # None)
    BY DEF TypeOK
  <2> HIDE DEF entry, blockers
  <2> QED BY <1>5, <1>8, <2>1, <2>2 DEF Explained
<1>6. /\ entry \in TerminalEntries
      /\ packets \in [Ids -> Packets \cup {None}]
      /\ blockers \in [Ids -> BlockerCodes \cup {None}]
  BY <1>2, <1>3, <1>4, <1>8 DEF TypeOK, TerminalEntries
<1> HIDE DEF entry, packets, blockers
<1>7. summary' \in [SummaryFields -> Nat]
  BY <1>1, <1>8, CountedType, StateCounterType DEF TypeOK
<1> QED BY <1>1, <1>6, <1>7, <1>9

-----------------------------------------------------------------------------
(* The life cycle of requests                                              *)

\* OnePlacePerId without its part about terminal.
Places ==
    /\ \A j, h \in 1..Len(queued) : queued[j].id = queued[h].id => j = h
    /\ \A i \in Present(running) : running[i].id = i /\ i \notin IdsOf(queued)
    /\ \A r \in InHand : r.id \notin IdsOf(queued) /\ running[r.id] = None

\* How the maps relate to the set A of requests that are queued, running or in
\* a handler's hands: OnePlacePerId, SingleFlight and RecordsFollowRequests.
Coherent(A, term, flight, recs) ==
    /\ \A r \in A : term[r.id] = None /\ recs[r.id] = r.key
    /\ \A r \in A : r.key # None => flight[r.key] = r.id
    /\ \A k \in Keys : flight[k] # None => \E r \in A : r.id = flight[k] /\ r.key = k
    /\ \A i \in Ids : recs[i] # None => term[i] # None \/ \E r \in A : r.id = i

LifecycleInv ==
    /\ TypeOK
    /\ OpShape
    /\ Places
    /\ Coherent(ActiveRequests, terminal, cache_in_flight, cache_records)

\* What insert_terminal does to the maps that matter here: the entry goes in,
\* the ids in gone leave, and what leaves was retained.
Inserted(gone, i, entry, recs, blks) ==
    /\ \A x \in gone : x = i \/ terminal[x] # None
    /\ \A x \in Ids : terminal'[x] = IF x \in gone THEN None
                         ELSE IF x = i THEN entry ELSE terminal[x]
    /\ \A x \in Ids : cache_records'[x] = IF x \in gone THEN None ELSE recs[x]
    /\ \A x \in Ids : gate_blockers'[x] = IF x \in gone THEN None ELSE blks[x]
    /\ \A k \in Keys : cache_in_flight'[k] =
          IF recs[i] = k /\ cache_in_flight[k] = i THEN None ELSE cache_in_flight[k]

\* insert_terminal has that effect for some set of evicted ids.
LEMMA InsertTerminalEffect ==
    ASSUME TypeOK, NEW i \in Ids, NEW entry \in TerminalEntries,
           NEW recs \in [Ids -> Keys \cup {None}],
           NEW pkts \in [Ids -> Packets \cup {None}],
           NEW blks \in [Ids -> BlockerCodes \cup {None}],
           InsertTerminal(i, entry, recs, pkts, blks)
    PROVE  \E gone \in SUBSET Ids : Inserted(gone, i, entry, recs, blks)
<1> DEFINE kept == [terminal EXCEPT ![i] = entry]
           order == IF terminal[i] = None THEN Append(terminal_order, i)
                                          ELSE terminal_order
           full == OverRetention(kept) /\ order # <<>>
           oldest == Head(order)
           evicts == full /\ kept[oldest] # None
           gone == IF evicts THEN {oldest} ELSE {}
<1>1. kept \in [Ids -> TerminalEntries \cup {None}] /\ order \in Seq(Ids)
  BY SMT DEF TypeOK
<1>2. /\ terminal' = IF evicts THEN [kept EXCEPT ![oldest] = None] ELSE kept
      /\ cache_records' = IF evicts THEN [recs EXCEPT ![oldest] = None] ELSE recs
      /\ gate_blockers' = IF evicts THEN [blks EXCEPT ![oldest] = None] ELSE blks
      /\ cache_in_flight' =
             [k \in Keys |-> IF recs[i] = k /\ cache_in_flight[k] = i
                             THEN None ELSE cache_in_flight[k]]
  BY DEF InsertTerminal
<1>3. evicts => oldest \in Ids
  <2> HIDE DEF order, kept
  <2> QED BY <1>1, SMT
<1>4. \A x \in Ids : kept[x] = IF x = i THEN entry ELSE terminal[x]
  BY DEF TypeOK
<1> HIDE DEF order, kept, full, oldest
<1>5. \A x \in gone : x = i \/ terminal[x] # None
  BY <1>3, <1>4
<1> gone \in SUBSET Ids
  BY <1>3
<1> WITNESS gone \in SUBSET Ids
<1> QED BY <1>1, <1>2, <1>3, <1>4, <1>5 DEF Inserted

\* A request that ends takes its key out of flight and nothing else's.
LEMMA EndKeepsCoherent ==
    ASSUME TypeOK, NEW A, A \subseteq Requests,
           Coherent(A, terminal, cache_in_flight, cache_records),
           \A x, y \in A : x.id = y.id => x = y,
           NEW r \in A, NEW entry \in TerminalEntries,
           NEW pkts \in [Ids -> Packets \cup {None}],
           NEW blks \in [Ids -> BlockerCodes \cup {None}],
           InsertTerminal(r.id, entry, cache_records, pkts, blks)
    PROVE  Coherent(A \ {r}, terminal', cache_in_flight', cache_records')
<1>1. /\ r.id \in Ids /\ entry # None
      /\ \A x \in A : x.id \in Ids /\ x.key \in Keys \cup {None}
      /\ cache_records \in [Ids -> Keys \cup {None}]
  BY RequestTypes, ConstantsAssumption DEF TypeOK
<1>2. PICK gone \in SUBSET Ids : Inserted(gone, r.id, entry, cache_records, blks)
  BY <1>1, InsertTerminalEffect
<1>3. \A s \in A \ {r} : s.id # r.id /\ s.id \notin gone
  BY <1>2, SMT DEF Coherent, Inserted
<1>4. \A s \in A \ {r} : terminal'[s.id] = None /\ cache_records'[s.id] = s.key
  BY <1>1, <1>2, <1>3, SMT DEF Coherent, Inserted
<1>5. \A s \in A \ {r} : s.key # None => cache_in_flight'[s.key] = s.id
  BY <1>1, <1>2, <1>3, SMT DEF Coherent, Inserted
<1>6. \A k \in Keys : cache_in_flight'[k] # None =>
          \E s \in A \ {r} : s.id = cache_in_flight'[k] /\ s.key = k
  BY <1>1, <1>2, <1>3, SMT DEF Coherent, Inserted
<1>7. \A i \in Ids : cache_records'[i] # None =>
          terminal'[i] # None \/ \E s \in A \ {r} : s.id = i
  BY <1>1, <1>2, <1>3, SMT DEF Coherent, Inserted
<1> QED BY <1>4, <1>5, <1>6, <1>7 DEF Coherent

\* A terminal entry for an id that is not active (a rejected submit) leaves the
\* active requests' keys in flight.
LEMMA RejectKeepsCoherent ==
    ASSUME TypeOK, NEW A, A \subseteq Requests,
           Coherent(A, terminal, cache_in_flight, cache_records),
           NEW i \in Ids, \A x \in A : x.id # i, NEW entry \in TerminalEntries,
           NEW recs \in [Ids -> Keys \cup {None}],
           \A x \in Ids : x # i => recs[x] = cache_records[x],
           NEW pkts \in [Ids -> Packets \cup {None}],
           NEW blks \in [Ids -> BlockerCodes \cup {None}],
           InsertTerminal(i, entry, recs, pkts, blks)
    PROVE  Coherent(A, terminal', cache_in_flight', cache_records')
<1>1. /\ entry # None
      /\ \A x \in A : x.id \in Ids /\ x.key \in Keys \cup {None}
  BY RequestTypes, ConstantsAssumption
<1>2. PICK gone \in SUBSET Ids : Inserted(gone, i, entry, recs, blks)
  BY InsertTerminalEffect
<1>3. \A s \in A : s.id \notin gone
  BY <1>2 DEF Coherent, Inserted
<1>4. \A k \in Keys : cache_in_flight'[k] = cache_in_flight[k]
  BY <1>2, SMT DEF Coherent, Inserted
<1>5. \A s \in A : terminal'[s.id] = None /\ cache_records'[s.id] = s.key
  BY <1>1, <1>2, <1>3, SMT DEF Coherent, Inserted
<1>6. \A x \in Ids : cache_records'[x] # None =>
          terminal'[x] # None \/ \E s \in A : s.id = x
  BY <1>1, <1>2 DEF Coherent, Inserted
<1>7. \A s \in A : s.key # None => cache_in_flight'[s.key] = s.id
  BY <1>1, <1>4 DEF Coherent
<1>8. \A k \in Keys : cache_in_flight'[k] # None =>
          \E s \in A : s.id = cache_in_flight'[k] /\ s.key = k
  BY <1>4, SMT DEF Coherent
<1> QED BY <1>5, <1>6, <1>7, <1>8 DEF Coherent

\* Active requests are requests, one per id.
LEMMA ActiveUnique ==
    ASSUME TypeOK, OpShape, Places
    PROVE  /\ ActiveRequests \subseteq Requests
           /\ \A x, y \in ActiveRequests : x.id = y.id => x = y
<1> DEFINE Q == {queued[j] : j \in 1..Len(queued)}
           R == {running[i] : i \in Present(running)}
<1>1. Q \subseteq Requests /\ R \subseteq Requests /\ InHand \subseteq Requests
  BY SMT DEF TypeOK, OpShape, InHand, Present
<1>2. \A x, y \in Q : x.id = y.id => x = y
  BY SMT DEF Places
<1>3. \A x, y \in R : x.id = y.id => x = y
  BY SMT DEF Places
<1>4. \A x, y \in InHand : x = y
  BY DEF InHand
<1>5. \A x \in Q, y \in R \cup InHand : x.id # y.id
  BY SMT DEF Places, IdsOf
<1>6. \A x \in R, y \in InHand : x.id # y.id
  BY SMT DEF Places, Present
<1>7. ActiveRequests = Q \cup R \cup InHand
  BY DEF ActiveRequests
<1> HIDE DEF Q, R
<1> QED BY <1>1, <1>2, <1>3, <1>4, <1>5, <1>6, <1>7

\* Putting two sequences together.
LEMMA ConcatFacts ==
    ASSUME NEW S, NEW a \in Seq(S), NEW b \in Seq(S)
    PROVE  /\ a \o b \in Seq(S)
           /\ Len(a \o b) = Len(a) + Len(b)
           /\ \A h \in 1..(Len(a) + Len(b)) :
                 (a \o b)[h] = IF h <= Len(a) THEN a[h] ELSE b[h - Len(a)]
BY SMT

\* Taking one position out of a sequence.
LEMMA WithoutPositionFacts ==
    ASSUME NEW q \in Seq(Requests), NEW j \in 1..Len(q)
    PROVE  /\ WithoutPosition(q, j) \in Seq(Requests)
           /\ Len(WithoutPosition(q, j)) = Len(q) - 1
           /\ \A h \in 1..(Len(q) - 1) :
                 WithoutPosition(q, j)[h] = IF h < j THEN q[h] ELSE q[h + 1]
<1> DEFINE a == SubSeq(q, 1, j - 1)
           b == SubSeq(q, j + 1, Len(q))
<1>1. a \in Seq(Requests) /\ Len(a) = j - 1 /\ \A h \in 1..(j - 1) : a[h] = q[h]
  BY SMT
<1>2. b \in Seq(Requests) /\ Len(b) = Len(q) - j
      /\ \A h \in 1..(Len(q) - j) : b[h] = q[j + h]
  BY SMT
<1> HIDE DEF a, b
<1>3. /\ a \o b \in Seq(Requests)
      /\ Len(a \o b) = Len(a) + Len(b)
      /\ \A h \in 1..(Len(a) + Len(b)) :
            (a \o b)[h] = IF h <= Len(a) THEN a[h] ELSE b[h - Len(a)]
  BY <1>1, <1>2, ConcatFacts
<1>4. /\ Len(q) \in Nat /\ j \in Nat /\ 1 <= j /\ j <= Len(q)
      /\ Len(a) = j - 1 /\ Len(b) = Len(q) - j
  BY <1>1, <1>2, SMT
<1>5. Len(a) + Len(b) = Len(q) - 1
  BY <1>4, SMT
<1>6. ASSUME NEW h \in 1..(Len(q) - 1)
      PROVE  (a \o b)[h] = IF h < j THEN q[h] ELSE q[h + 1]
  <2>1. (a \o b)[h] = IF h <= Len(a) THEN a[h] ELSE b[h - Len(a)]
    BY <1>3, <1>5
  <2>2. CASE h < j
    <3>1. h <= Len(a) /\ h \in 1..(j - 1)
      BY <2>2, <1>4, SMT
    <3> QED BY <2>1, <2>2, <3>1, <1>1
  <2>3. CASE ~(h < j)
    <3>1. /\ h - Len(a) \in 1..(Len(q) - j) /\ j + (h - Len(a)) = h + 1
          /\ ~(h <= Len(a))
      BY <2>3, <1>4, SMT
    <3>2. b[h - Len(a)] = q[j + (h - Len(a))]
      BY <3>1, <1>2
    <3> QED BY <2>1, <2>3, <3>1, <3>2
  <2> QED BY <2>2, <2>3
<1> QED BY <1>3, <1>5, <1>6 DEF WithoutPosition, a, b

\* The position poll and cancel find is the one that holds the id.
LEMMA PositionOfFacts ==
    ASSUME TypeOK, Places, NEW i \in IdsOf(queued)
    PROVE  /\ PositionOf(i) \in 1..Len(queued)
           /\ queued[PositionOf(i)].id = i
           /\ queued[PositionOf(i)] \in Requests
<1>1. PICK j \in 1..Len(queued) : queued[j].id = i
  BY DEF IdsOf
<1>a. Len(queued) \in Nat
  BY SMT DEF TypeOK
<1>2. \A h \in 1..(j - 1) : queued[h].id # i
  <2> SUFFICES ASSUME NEW h \in 1..(j - 1), queued[h].id = i PROVE FALSE
    OBVIOUS
  <2>1. h \in 1..Len(queued) /\ h # j
    BY <1>a, SMT
  <2> QED BY <1>1, <2>1 DEF Places
<1>3. PositionOf(i) \in 1..Len(queued) /\ queued[PositionOf(i)].id = i
  BY <1>1, <1>2 DEF PositionOf
<1> QED BY <1>3, SMT DEF TypeOK

\* Taking one request out of the queue takes it, and only it, out of the active
\* ones, unless start_next keeps it in hand.
LEMMA QueueRemoval ==
    ASSUME TypeOK, OpShape, Places, NEW p \in 1..Len(queued),
           queued' \in Seq(Requests), Len(queued') = Len(queued) - 1,
           \A h \in 1..(Len(queued) - 1) :
               queued'[h] = IF h < p THEN queued[h] ELSE queued[h + 1],
           running' = running,
           InHand = {}, InHand' \in {{}, {queued[p]}}
    PROVE  /\ Places'
           /\ queued[p] \in Requests /\ queued[p] \in ActiveRequests
           /\ ActiveRequests' = (ActiveRequests \ {queued[p]}) \cup InHand'
<1> DEFINE q == queued'
           n == Len(queued)
<1>1. p \in 1..n /\ n \in Nat /\ queued[p] \in Requests
  BY SMT DEF TypeOK
<1>2. /\ q \in Seq(Requests) /\ Len(q) = n - 1
      /\ \A h \in 1..(n - 1) : q[h] = IF h < p THEN queued[h] ELSE queued[h + 1]
  OBVIOUS
<1>3. queued' = q /\ running' = running
  OBVIOUS
<1> HIDE DEF q
<1>4. \A h \in 1..(n - 1) : \E g \in 1..n : g # p /\ q[h] = queued[g]
  <2> SUFFICES ASSUME NEW h \in 1..(n - 1)
               PROVE  \E g \in 1..n : g # p /\ q[h] = queued[g]
    OBVIOUS
  <2>1. CASE h < p
    BY <2>1, <1>1, <1>2, SMT
  <2>2. CASE ~(h < p)
    BY <2>2, <1>1, <1>2, SMT
  <2> QED BY <2>1, <2>2
<1>5. \A g \in 1..n : g # p => \E h \in 1..(n - 1) : q[h] = queued[g]
  <2> SUFFICES ASSUME NEW g \in 1..n, g # p
               PROVE  \E h \in 1..(n - 1) : q[h] = queued[g]
    OBVIOUS
  <2>1. CASE g < p
    BY <2>1, <1>1, <1>2, SMT
  <2>2. CASE ~(g < p)
    <3>1. g - 1 \in 1..(n - 1) /\ ~(g - 1 < p) /\ (g - 1) + 1 = g
      BY <2>2, <1>1, SMT
    <3> QED BY <3>1, <1>2
  <2> QED BY <2>1, <2>2
<1>6. \A g, h \in 1..(n - 1) : q[g].id = q[h].id => g = h
  <2> SUFFICES ASSUME NEW g \in 1..(n - 1), NEW h \in 1..(n - 1), q[g].id = q[h].id
               PROVE  g = h
    OBVIOUS
  <2> DEFINE G == IF g < p THEN g ELSE g + 1
             H == IF h < p THEN h ELSE h + 1
  <2>1. G \in 1..n /\ H \in 1..n /\ q[g] = queued[G] /\ q[h] = queued[H]
    BY <1>1, <1>2, SMT
  <2>2. G = H
    <3> HIDE DEF G, H
    <3> QED BY <2>1 DEF Places
  <2>3. g \in Int /\ h \in Int /\ p \in Int
    BY <1>1, SMT
  <2> QED BY <2>2, <2>3, SMT
<1>7. {q[h] : h \in 1..(n - 1)} = {queued[g] : g \in 1..n} \ {queued[p]}
  <2>1. \A g \in 1..n : g # p => queued[g] # queued[p]
    BY <1>1 DEF Places
  <2>2. ASSUME NEW x \in {q[h] : h \in 1..(n - 1)}
        PROVE  x \in {queued[g] : g \in 1..n} \ {queued[p]}
    <3>1. PICK h \in 1..(n - 1) : x = q[h]
      OBVIOUS
    <3>2. PICK g \in 1..n : g # p /\ q[h] = queued[g]
      BY <1>4
    <3> QED BY <3>1, <3>2, <2>1
  <2>3. ASSUME NEW x \in {queued[g] : g \in 1..n} \ {queued[p]}
        PROVE  x \in {q[h] : h \in 1..(n - 1)}
    <3>1. PICK g \in 1..n : x = queued[g] /\ g # p
      OBVIOUS
    <3>2. PICK h \in 1..(n - 1) : q[h] = queued[g]
      BY <3>1, <1>5
    <3> QED BY <3>1, <3>2
  <2> QED BY <2>2, <2>3
<1>8. IdsOf(queued)' \subseteq IdsOf(queued) \ {queued[p].id}
  <2> SUFFICES ASSUME NEW h \in 1..(n - 1)
               PROVE  q[h].id \in IdsOf(queued) \ {queued[p].id}
    BY <1>2, <1>3 DEF IdsOf
  <2>1. PICK g \in 1..n : g # p /\ q[h] = queued[g]
    BY <1>4
  <2> QED BY <2>1, <1>1, SMT DEF IdsOf, Places
<1>9. Places'
  <2>1. \A g, h \in 1..Len(queued)' : queued'[g].id = queued'[h].id => g = h
    BY <1>2, <1>3, <1>6
  <2>2. Present(running)' = Present(running)
    BY <1>3 DEF Present
  <2>3. running[queued[p].id] = None
    <3>1. queued[p].id \in Ids /\ queued[p].id \in IdsOf(queued)
      BY <1>1, RequestTypes DEF IdsOf
    <3> QED BY <3>1 DEF Places, Present
  <2>4. \A r \in InHand' : r.id \notin IdsOf(queued)' /\ running'[r.id] = None
    BY <2>3, <1>3, <1>8
  <2> QED BY <2>1, <2>2, <2>4, <1>3, <1>8 DEF Places
<1>10. queued[p] \notin {running[x] : x \in Present(running)}
  BY <1>1, SMT DEF Places, IdsOf
<1>11. ActiveRequests' = (ActiveRequests \ {queued[p]}) \cup InHand'
  <2>1. ActiveRequests' = {q[h] : h \in 1..(n - 1)} \cup
                          {running[x] : x \in Present(running)} \cup InHand'
    BY <1>2, <1>3, SMT DEF ActiveRequests, Present
  <2>2. ActiveRequests = {queued[g] : g \in 1..n} \cup
                         {running[x] : x \in Present(running)}
    BY DEF ActiveRequests
  <2> QED BY <2>1, <2>2, <1>7, <1>10
<1>12. queued[p] \in ActiveRequests
  BY <1>1 DEF ActiveRequests
<1> QED BY <1>1, <1>9, <1>11, <1>12

\* The drop made by poll and cancel.
LEMMA DropQueuedFacts ==
    ASSUME TypeOK, OpShape, Places, NEW i \in IdsOf(queued), DropQueued(i),
           InHand = {}, InHand' = {}
    PROVE  /\ queued' \in Seq(Requests) /\ Places'
           /\ queued[PositionOf(i)] \in Requests
           /\ queued[PositionOf(i)] \in ActiveRequests
           /\ ActiveRequests' = ActiveRequests \ {queued[PositionOf(i)]}
<1>1. PositionOf(i) \in 1..Len(queued) /\ queued \in Seq(Requests)
  BY PositionOfFacts DEF TypeOK
<1>2. queued' = WithoutPosition(queued, PositionOf(i)) /\ running' = running
  BY DEF DropQueued
<1>3. /\ queued' \in Seq(Requests) /\ Len(queued') = Len(queued) - 1
      /\ \A h \in 1..(Len(queued) - 1) :
            queued'[h] = IF h < PositionOf(i) THEN queued[h] ELSE queued[h + 1]
  BY <1>1, <1>2, WithoutPositionFacts
<1> QED BY <1>1, <1>2, <1>3, QueueRemoval

\* The pop made by start_next.
LEMMA PopFacts ==
    ASSUME TypeOK, OpShape, Places, queued # <<>>, queued' = Tail(queued),
           running' = running, InHand = {}, InHand' \in {{}, {Head(queued)}}
    PROVE  /\ queued' \in Seq(Requests) /\ Places'
           /\ Head(queued) \in Requests /\ Head(queued) \in ActiveRequests
           /\ ActiveRequests' = (ActiveRequests \ {Head(queued)}) \cup InHand'
<1>1. queued \in Seq(Requests) /\ Len(queued) \in Nat /\ 1 \in 1..Len(queued)
      /\ Head(queued) = queued[1]
  BY SMT DEF TypeOK
<1>2. /\ queued' \in Seq(Requests) /\ Len(queued') = Len(queued) - 1
      /\ \A h \in 1..(Len(queued) - 1) :
            queued'[h] = IF h < 1 THEN queued[h] ELSE queued[h + 1]
  BY <1>1, SMT
<1> QED BY <1>1, <1>2, QueueRemoval

\* Taking a request out of running: it leaves the active ones, unless finish
\* keeps it in hand.
LEMMA DropRunningFacts ==
    ASSUME TypeOK, OpShape, Places, NEW i \in Present(running), DropRunning(i),
           InHand = {}, InHand' \in {{}, {running[i]}}
    PROVE  /\ running' \in [Ids -> Requests \cup {None}]
           /\ Places'
           /\ running[i] \in Requests /\ running[i].id = i
           /\ running[i] \in ActiveRequests
           /\ ActiveRequests' = (ActiveRequests \ {running[i]}) \cup InHand'
<1>1. /\ running[i] \in Requests /\ running[i].id = i /\ i \in Ids
      /\ running' = [running EXCEPT ![i] = None] /\ queued' = queued
  BY DEF Present, TypeOK, Places, DropRunning
<1>2. running' \in [Ids -> Requests \cup {None}]
  BY <1>1 DEF TypeOK
<1>3. Present(running)' = Present(running) \ {i}
      /\ \A x \in Ids : x # i => running'[x] = running[x]
  BY <1>1 DEF Present, TypeOK
<1>4. IdsOf(queued)' = IdsOf(queued)
  BY <1>1 DEF IdsOf
<1>5. Places'
  <2>1. \A x \in Present(running)' : running'[x].id = x /\ x \notin IdsOf(queued)'
    BY <1>3, <1>4 DEF Places, Present
  <2>2. \A r \in InHand' : r.id \notin IdsOf(queued)' /\ running'[r.id] = None
    BY <1>1, <1>4, SMT DEF Places, TypeOK
  <2>3. \A g, h \in 1..Len(queued)' : queued'[g].id = queued'[h].id => g = h
    BY <1>1 DEF Places
  <2> QED BY <2>1, <2>2, <2>3 DEF Places
<1>6. {running'[x] : x \in Present(running)'} =
      {running[x] : x \in Present(running)} \ {running[i]}
  <2>1. \A x \in Present(running) : x # i => running[x] # running[i]
    BY SMT DEF Places
  <2> QED BY <2>1, <1>3 DEF Present
<1>7. running[i] \notin {queued[j] : j \in 1..Len(queued)}
  BY <1>1, SMT DEF Places, IdsOf
<1>8. ActiveRequests' = (ActiveRequests \ {running[i]}) \cup InHand'
  <2>1. ActiveRequests' = {queued[j] : j \in 1..Len(queued)} \cup
                          {running'[x] : x \in Present(running)'} \cup InHand'
    BY <1>1 DEF ActiveRequests
  <2>2. ActiveRequests = {queued[j] : j \in 1..Len(queued)} \cup
                         {running[x] : x \in Present(running)}
    BY DEF ActiveRequests
  <2> QED BY <2>1, <2>2, <1>6, <1>7
<1>9. running[i] \in ActiveRequests
  BY DEF ActiveRequests
<1> QED BY <1>1, <1>2, <1>5, <1>8, <1>9

\* A request that ends without an artifact keeps the terminal side right.
LEMMA ExpireStep ==
    ASSUME LifecycleInv, NEW r \in ActiveRequests, NEW state \in TerminalStates,
           Expire(r, state), ActiveRequests' = ActiveRequests \ {r}
    PROVE  /\ TerminalSideOK' /\ summary' \in [SummaryFields -> Nat]
           /\ Coherent(ActiveRequests, terminal, cache_in_flight, cache_records)'
<1>1. TypeOK /\ OpShape /\ Places
      /\ Coherent(ActiveRequests, terminal, cache_in_flight, cache_records)
  BY DEF LifecycleInv
<1>2. ActiveRequests \subseteq Requests
      /\ \A x, y \in ActiveRequests : x.id = y.id => x = y
  BY <1>1, ActiveUnique
<1>3. NoArtifact(state) \in TerminalEntries
  BY DEF NoArtifact, TerminalEntries
<1>4. /\ gate_packets \in [Ids -> Packets \cup {None}]
      /\ gate_blockers \in [Ids -> BlockerCodes \cup {None}]
  BY <1>1 DEF TypeOK
<1>5. InsertTerminal(r.id, NoArtifact(state), cache_records, gate_packets, gate_blockers)
  BY DEF Expire
<1>6. Coherent(ActiveRequests \ {r}, terminal', cache_in_flight', cache_records')
  BY <1>1, <1>2, <1>3, <1>4, <1>5, EndKeepsCoherent
<1> QED BY <1>1, <1>2, <1>6, ExpireTypes

\* With no handler in progress nothing is in hand.
LEMMA IdleFacts ==
    /\ Idle \in Ops /\ Looping \in Ops
    /\ op \in {Idle, Looping} => InHand = {} /\ OpShape
BY SMT DEF Idle, Looping, Handler, Ops, InHand, OpShape

\* The rest of the types: the shared atomics and the active requests.
EnvOK == cancelled \subseteq Tokens /\ fence \in Nat /\ accepted_submits \in Nat
ActiveOK ==
    /\ queued \in Seq(Requests)
    /\ running \in [Ids -> Requests \cup {None}]
    /\ tickets \subseteq Requests
SummaryOK == summary \in [SummaryFields -> Nat]

\* TypeOK is the conjunction of its parts, before and after a step.
LEMMA TypeParts ==
    /\ TypeOK => EnvOK /\ ActiveOK /\ TerminalSideOK /\ SummaryOK
    /\ EnvOK' /\ ActiveOK' /\ TerminalSideOK' /\ SummaryOK' /\ (op \in Ops)' => TypeOK'
BY DEF TypeOK, EnvOK, ActiveOK, TerminalSideOK, SummaryOK

\* A part whose variables do not change keeps its type.
LEMMA PartsKept ==
    /\ EnvOK /\ UNCHANGED <<cancelled, fence, accepted_submits>> => EnvOK'
    /\ ActiveOK /\ UNCHANGED activeVars => ActiveOK'
    /\ TerminalSideOK /\ UNCHANGED terminalVars => TerminalSideOK'
    /\ SummaryOK /\ UNCHANGED summary => SummaryOK'
<1>1. EnvOK /\ UNCHANGED <<cancelled, fence, accepted_submits>> => EnvOK'
  BY DEF EnvOK
<1>2. ActiveOK /\ UNCHANGED activeVars => ActiveOK'
  BY DEF ActiveOK, activeVars
<1>3. TerminalSideOK /\ UNCHANGED terminalVars => TerminalSideOK'
  BY DEF TerminalSideOK, terminalVars
<1>4. SummaryOK /\ UNCHANGED summary => SummaryOK'
  BY DEF SummaryOK
<1> QED BY <1>1, <1>2, <1>3, <1>4

\* A step that moves no request keeps the active ones and their places.
LEMMA ActiveKept ==
    ASSUME queued' = queued, running' = running, InHand' = InHand
    PROVE  ActiveRequests' = ActiveRequests /\ (Places => Places')
<1>1. Present(running)' = Present(running) /\ IdsOf(queued)' = IdsOf(queued)
  BY DEF Present, IdsOf
<1>2. ActiveRequests' = ActiveRequests
  BY <1>1 DEF ActiveRequests
<1>3. Places => Places'
  BY <1>1 DEF Places
<1> QED BY <1>2, <1>3

\* Appending to a sequence.
LEMMA AppendFacts ==
    ASSUME NEW S, NEW q \in Seq(S), NEW e \in S
    PROVE  /\ Len(q) \in Nat
           /\ Append(q, e) \in Seq(S) /\ Len(Append(q, e)) = Len(q) + 1
           /\ \A j \in 1..Len(q) : Append(q, e)[j] = q[j]
           /\ Append(q, e)[Len(q) + 1] = e
BY SMT

-----------------------------------------------------------------------------
(* One lemma per action                                                    *)

\* poll keeps the invariant.
LEMMA PollStep ==
    ASSUME LifecycleInv, op = Idle, NEW i \in Ids, PollBody(i)
    PROVE  LifecycleInv'
<1>1. TypeOK /\ OpShape /\ Places /\ op' = Idle /\ InHand = {} /\ InHand' = {}
      /\ OpShape' /\ op' \in Ops
  BY IdleFacts DEF LifecycleInv, PollBody, InHand, OpShape, Idle, Handler
<1>2. cancelled' = cancelled /\ fence' = fence /\ accepted_submits' = accepted_submits
  BY DEF PollBody
<1>3. CASE /\ i \in IdsOf(queued) /\ Expired(queued[PositionOf(i)])
           /\ DropQueued(i)
           /\ Expire(queued[PositionOf(i)], ExpiredState(queued[PositionOf(i)]))
  <2> DEFINE r == queued[PositionOf(i)]
  <2>1. /\ queued' \in Seq(Requests) /\ Places' /\ r \in ActiveRequests
        /\ ActiveRequests' = ActiveRequests \ {r}
        /\ running' = running /\ tickets' = tickets
    BY <1>1, <1>3, DropQueuedFacts DEF DropQueued
  <2>2. ExpiredState(r) \in TerminalStates
    BY DEF ExpiredState, TerminalStates
  <2>3. Expire(r, ExpiredState(r))
    BY <1>3
  <2> HIDE DEF r
  <2>4. /\ TerminalSideOK' /\ summary' \in [SummaryFields -> Nat]
        /\ Coherent(ActiveRequests, terminal, cache_in_flight, cache_records)'
    BY <2>1, <2>2, <2>3, ExpireStep
  <2>5. TypeOK'
    BY <1>1, <1>2, <2>1, <2>4, TypeParts, PartsKept
       DEF EnvOK, ActiveOK, SummaryOK, activeVars, terminalVars
  <2> QED BY <1>1, <2>1, <2>4, <2>5 DEF LifecycleInv
<1>4. CASE /\ running[i] # None /\ Expired(running[i])
           /\ DropRunning(i) /\ Expire(running[i], ExpiredState(running[i]))
  <2>0. i \in Present(running)
    BY <1>4 DEF Present
  <2>1. /\ running' \in [Ids -> Requests \cup {None}] /\ Places'
        /\ running[i] \in ActiveRequests
        /\ ActiveRequests' = ActiveRequests \ {running[i]}
        /\ queued' = queued /\ tickets' = tickets
    BY <1>1, <1>4, <2>0, DropRunningFacts DEF DropRunning
  <2>2. ExpiredState(running[i]) \in TerminalStates
    BY DEF ExpiredState, TerminalStates
  <2>4. /\ TerminalSideOK' /\ summary' \in [SummaryFields -> Nat]
        /\ Coherent(ActiveRequests, terminal, cache_in_flight, cache_records)'
    BY <1>4, <2>1, <2>2, ExpireStep
  <2>5. TypeOK'
    BY <1>1, <1>2, <2>1, <2>4, TypeParts, PartsKept
       DEF EnvOK, ActiveOK, SummaryOK, activeVars, terminalVars
  <2> QED BY <1>1, <2>1, <2>4, <2>5 DEF LifecycleInv
<1>5. CASE UNCHANGED <<activeVars, terminalVars, summary>>
  <2>1. UNCHANGED <<queued, running, tickets, terminal, terminal_order, evicted,
                    evicted_order, cache_records, cache_in_flight, gate_packets,
                    gate_blockers, summary, op>>
    BY <1>1, <1>5 DEF activeVars, terminalVars
  <2>2. ActiveRequests' = ActiveRequests /\ Places'
    BY <1>1, <2>1, ActiveKept
  <2>3. TypeOK'
    BY <1>1, <1>2, <1>5, TypeParts, PartsKept
  <2>4. Coherent(ActiveRequests, terminal, cache_in_flight, cache_records)'
    BY <2>1, <2>2 DEF LifecycleInv
  <2> QED BY <1>1, <2>2, <2>3, <2>4 DEF LifecycleInv
<1> QED BY <1>3, <1>4, <1>5 DEF PollBody

\* cancel keeps the invariant.
LEMMA CancelStep ==
    ASSUME LifecycleInv, NEW i \in Ids, Cancel(i)
    PROVE  LifecycleInv'
<1>0. op = Idle
  BY DEF Cancel
<1>1. CASE PollBody(i)
  BY <1>0, <1>1, PollStep
<1>2. CASE /\ ~PollBody(i) /\ i \in IdsOf(queued)
  <2> DEFINE r == queued[PositionOf(i)]
  <2>1. /\ DropQueued(i) /\ Expire(r, "Cancelled")
        /\ cancelled' = cancelled \cup {r.token}
        /\ UNCHANGED <<fence, accepted_submits, op>>
    BY <1>2 DEF Cancel
  <2>2. TypeOK /\ OpShape /\ Places /\ InHand = {} /\ InHand' = {}
        /\ OpShape' /\ op' \in Ops
    BY <1>0, <2>1, IdleFacts DEF LifecycleInv, InHand, OpShape, Idle, Handler
  <2>3. /\ queued' \in Seq(Requests) /\ Places' /\ r \in ActiveRequests
        /\ r \in Requests
        /\ ActiveRequests' = ActiveRequests \ {r}
        /\ running' = running /\ tickets' = tickets
    BY <1>2, <2>1, <2>2, DropQueuedFacts DEF DropQueued
  <2> HIDE DEF r
  <2>4. r.token \in Tokens /\ "Cancelled" \in TerminalStates
    BY <2>3, RequestTypes DEF TerminalStates
  <2>5. /\ TerminalSideOK' /\ summary' \in [SummaryFields -> Nat]
        /\ Coherent(ActiveRequests, terminal, cache_in_flight, cache_records)'
    BY <2>1, <2>3, <2>4, ExpireStep
  <2>6. TypeOK'
    BY <2>1, <2>2, <2>3, <2>4, <2>5, TypeParts, PartsKept
       DEF EnvOK, ActiveOK, SummaryOK, activeVars, terminalVars
  <2> QED BY <2>2, <2>3, <2>5, <2>6 DEF LifecycleInv
<1>3. CASE /\ ~PollBody(i) /\ i \notin IdsOf(queued)
  <2>1. /\ DropRunning(i) /\ Expire(running[i], "Cancelled")
        /\ cancelled' = cancelled \cup {running[i].token}
        /\ UNCHANGED <<fence, accepted_submits, op>>
        /\ i \in Present(running)
    BY <1>3 DEF Cancel, Present
  <2>2. TypeOK /\ OpShape /\ Places /\ InHand = {} /\ InHand' = {}
        /\ OpShape' /\ op' \in Ops
    BY <1>0, <2>1, IdleFacts DEF LifecycleInv, InHand, OpShape, Idle, Handler
  <2>3. /\ running' \in [Ids -> Requests \cup {None}] /\ Places'
        /\ running[i] \in ActiveRequests /\ running[i] \in Requests
        /\ ActiveRequests' = ActiveRequests \ {running[i]}
        /\ queued' = queued /\ tickets' = tickets
    BY <2>1, <2>2, DropRunningFacts DEF DropRunning
  <2>4. running[i].token \in Tokens /\ "Cancelled" \in TerminalStates
    BY <2>3, RequestTypes DEF TerminalStates
  <2>5. /\ TerminalSideOK' /\ summary' \in [SummaryFields -> Nat]
        /\ Coherent(ActiveRequests, terminal, cache_in_flight, cache_records)'
    BY <2>1, <2>3, <2>4, ExpireStep
  <2>6. TypeOK'
    BY <2>1, <2>2, <2>3, <2>4, <2>5, TypeParts, PartsKept
       DEF EnvOK, ActiveOK, SummaryOK, activeVars, terminalVars
  <2> QED BY <2>2, <2>3, <2>5, <2>6 DEF LifecycleInv
<1> QED BY <1>1, <1>2, <1>3

\* start_next, first half, keeps the invariant.
LEMMA StartNextStep ==
    ASSUME LifecycleInv, StartNext
    PROVE  LifecycleInv'
<1>1. /\ TypeOK /\ OpShape /\ Places /\ InHand = {} /\ op \in {Idle, Looping}
      /\ UNCHANGED <<cancelled, fence, running, tickets, accepted_submits>>
  BY IdleFacts DEF LifecycleInv, StartNext
<1>2. CASE queued = <<>>
  <2>1. op' = Idle /\ UNCHANGED <<queued, terminal, terminal_order, evicted,
                    evicted_order, cache_records, cache_in_flight, gate_packets,
                    gate_blockers, summary>>
    BY <1>2 DEF StartNext, terminalVars
  <2>2. InHand' = {} /\ OpShape' /\ op' \in Ops
    BY <2>1, IdleFacts DEF InHand, OpShape, Idle, Handler
  <2>3. ActiveRequests' = ActiveRequests /\ Places'
    BY <1>1, <2>1, <2>2, ActiveKept
  <2>4. TypeOK'
    BY <1>1, <2>1, <2>2, TypeParts, PartsKept DEF activeVars, terminalVars
  <2>5. Coherent(ActiveRequests, terminal, cache_in_flight, cache_records)'
    BY <2>1, <2>3 DEF LifecycleInv
  <2> QED BY <2>2, <2>3, <2>4, <2>5 DEF LifecycleInv
<1>3. CASE queued # <<>> /\ IsCancelled(Head(queued))
  <2>1. queued' = Tail(queued) /\ Expire(Head(queued), "Cancelled") /\ op' = Looping
    BY <1>3 DEF StartNext
  <2>2. InHand' = {} /\ OpShape' /\ op' \in Ops
    BY <2>1, IdleFacts DEF InHand, OpShape, Looping, Handler
  <2>3. /\ queued' \in Seq(Requests) /\ Places' /\ Head(queued) \in ActiveRequests
        /\ ActiveRequests' = ActiveRequests \ {Head(queued)}
    BY <1>1, <1>3, <2>1, <2>2, PopFacts
  <2>4. "Cancelled" \in TerminalStates
    BY DEF TerminalStates
  <2>5. /\ TerminalSideOK' /\ summary' \in [SummaryFields -> Nat]
        /\ Coherent(ActiveRequests, terminal, cache_in_flight, cache_records)'
    BY <2>1, <2>3, <2>4, ExpireStep
  <2>6. TypeOK'
    BY <1>1, <2>2, <2>3, <2>5, TypeParts, PartsKept
       DEF EnvOK, ActiveOK, SummaryOK, activeVars, terminalVars
  <2> QED BY <2>2, <2>3, <2>5, <2>6 DEF LifecycleInv
<1>4. CASE queued # <<>> /\ ~IsCancelled(Head(queued))
  <2>1. queued' = Tail(queued) /\ op' = Starting(Head(queued))
        /\ UNCHANGED <<terminal, terminal_order, evicted,
                    evicted_order, cache_records, cache_in_flight, gate_packets,
                    gate_blockers, summary>>
    BY <1>4 DEF StartNext, terminalVars
  <2>2. InHand' = {Head(queued)}
    BY <2>1 DEF InHand, Starting, Handler
  <2>3. /\ queued' \in Seq(Requests) /\ Places' /\ Head(queued) \in Requests
        /\ Head(queued) \in ActiveRequests
        /\ ActiveRequests' = (ActiveRequests \ {Head(queued)}) \cup {Head(queued)}
    BY <1>1, <1>4, <2>1, <2>2, PopFacts
  <2>4. ActiveRequests' = ActiveRequests
    BY <2>3
  <2>5. OpShape' /\ op' \in Ops
    BY <2>1, <2>3 DEF OpShape, Starting, Handler, Ops
  <2>6. TypeOK'
    BY <1>1, <2>1, <2>3, <2>5, TypeParts, PartsKept
       DEF EnvOK, ActiveOK, SummaryOK, activeVars, terminalVars
  <2>7. Coherent(ActiveRequests, terminal, cache_in_flight, cache_records)'
    BY <2>1, <2>4 DEF LifecycleInv
  <2> QED BY <2>3, <2>5, <2>6, <2>7 DEF LifecycleInv
<1> QED BY <1>2, <1>3, <1>4

\* A handler that lets go of the request in its hands takes it out of the
\* active ones.
LEMMA LetGo ==
    ASSUME TypeOK, OpShape, Places, op.kind \in {"start", "finish"},
           queued' = queued, running' = running, InHand' = {}
    PROVE  /\ Places' /\ op.request \in Requests /\ op.request \in ActiveRequests
           /\ ActiveRequests' = ActiveRequests \ {op.request}
<1>1. InHand = {op.request} /\ op.request \in Requests
  BY DEF InHand, OpShape
<1>2. Places'
  BY SMT DEF Places, Present, IdsOf
<1>3. op.request \notin {queued[j] : j \in 1..Len(queued)}
  BY <1>1, SMT DEF Places, IdsOf
<1>4. op.request \notin {running[i] : i \in Present(running)}
  BY <1>1, SMT DEF Places, Present
<1>5. /\ ActiveRequests = {queued[j] : j \in 1..Len(queued)} \cup
                           {running[i] : i \in Present(running)} \cup {op.request}
      /\ ActiveRequests' = {queued[j] : j \in 1..Len(queued)} \cup
                            {running[i] : i \in Present(running)}
  BY <1>1 DEF ActiveRequests, Present
<1> QED BY <1>1, <1>2, <1>3, <1>4, <1>5

\* start_next, second half, keeps the invariant.
LEMMA StartRestStep ==
    ASSUME LifecycleInv, StartRest
    PROVE  LifecycleInv'
<1> DEFINE r == op.request
<1>1. /\ TypeOK /\ OpShape /\ Places /\ op.kind = "start"
      /\ UNCHANGED <<cancelled, fence, queued, accepted_submits>>
      /\ Coherent(ActiveRequests, terminal, cache_in_flight, cache_records)
  BY DEF LifecycleInv, StartRest
<1>2. InHand = {r} /\ r \in Requests /\ r.id \in Ids /\ r # None
  BY <1>1, RequestTypes DEF InHand, OpShape
<1>3. CASE IsStale(r)
  <2>1. Expire(r, "StaleGeneration") /\ op' = Looping
        /\ UNCHANGED <<running, tickets>>
    BY <1>3 DEF StartRest
  <2>2. InHand' = {} /\ OpShape' /\ op' \in Ops
    BY <2>1, IdleFacts DEF InHand, OpShape, Looping, Handler
  <2>3. /\ Places' /\ r \in ActiveRequests
        /\ ActiveRequests' = ActiveRequests \ {r}
    BY <1>1, <2>1, <2>2, LetGo
  <2>4. "StaleGeneration" \in TerminalStates
    BY DEF TerminalStates
  <2>5. /\ TerminalSideOK' /\ summary' \in [SummaryFields -> Nat]
        /\ Coherent(ActiveRequests, terminal, cache_in_flight, cache_records)'
    BY <2>1, <2>3, <2>4, ExpireStep
  <2>6. TypeOK'
    BY <1>1, <2>1, <2>2, <2>5, TypeParts, PartsKept
       DEF EnvOK, ActiveOK, SummaryOK, activeVars, terminalVars
  <2> QED BY <2>2, <2>3, <2>5, <2>6 DEF LifecycleInv
<1>4. CASE ~IsStale(r)
  <2>1. /\ running' = [running EXCEPT ![r.id] = r]
        /\ tickets' = tickets \cup {r} /\ op' = Idle
        /\ UNCHANGED <<terminal, terminal_order, evicted,
                    evicted_order, cache_records, cache_in_flight, gate_packets,
                    gate_blockers, summary>>
    BY <1>4 DEF StartRest, terminalVars
  <2>2. InHand' = {} /\ OpShape' /\ op' \in Ops
    BY <2>1, IdleFacts DEF InHand, OpShape, Idle, Handler
  <2>3. /\ running' \in [Ids -> Requests \cup {None}]
        /\ Present(running)' = Present(running) \cup {r.id}
        /\ running[r.id] = None /\ r.id \notin IdsOf(queued) /\ running'[r.id] = r
        /\ \A x \in Ids : x # r.id => running'[x] = running[x]
    <3>1. running \in [Ids -> Requests \cup {None}]
      BY <1>1 DEF TypeOK
    <3>2. running[r.id] = None /\ r.id \notin IdsOf(queued)
      BY <1>1, <1>2 DEF Places
    <3> QED BY <1>2, <2>1, <3>1, <3>2 DEF Present
  <2>4. Places'
    <3>1. IdsOf(queued)' = IdsOf(queued)
      BY <1>1 DEF IdsOf
    <3>2. \A x \in Present(running)' : running'[x].id = x /\ x \notin IdsOf(queued)'
      BY <1>1, <2>3, <3>1 DEF Places, Present
    <3> QED BY <1>1, <2>2, <3>2 DEF Places
  <2>5. {running'[x] : x \in Present(running)'} =
        {running[x] : x \in Present(running)} \cup {r}
    <3>1. \A x \in Present(running) : x \in Ids /\ x # r.id
      BY <2>3 DEF Present
    <3> QED BY <2>3, <3>1, SMT
  <2>6. ActiveRequests' = ActiveRequests
    BY <1>1, <1>2, <2>2, <2>5 DEF ActiveRequests
  <2>7. TypeOK'
    BY <1>1, <1>2, <2>1, <2>2, <2>3, TypeParts, PartsKept
       DEF EnvOK, ActiveOK, SummaryOK, activeVars, terminalVars
  <2>8. Coherent(ActiveRequests, terminal, cache_in_flight, cache_records)'
    BY <1>1, <2>1, <2>6
  <2> QED BY <2>2, <2>4, <2>7, <2>8 DEF LifecycleInv
<1> QED BY <1>3, <1>4

\* finish, first half, keeps the invariant.
LEMMA FinishStep ==
    ASSUME LifecycleInv, NEW t \in tickets, NEW resp \in Responses, Finish(t, resp)
    PROVE  LifecycleInv'
<1>1. TypeOK /\ OpShape /\ Places /\ op = Idle /\ InHand = {}
      /\ t \in Requests /\ t.id \in Ids
      /\ Coherent(ActiveRequests, terminal, cache_in_flight, cache_records)
  BY IdleFacts, RequestTypes DEF LifecycleInv, Finish, TypeOK
<1>2. CASE running[t.id] = None
  BY <1>1, <1>2, PollStep DEF Finish
<1>3. CASE running[t.id] # None /\ IsCancelled(running[t.id])
  <2>1. /\ DropRunning(t.id) /\ Expire(running[t.id], "Cancelled") /\ op' = Idle
        /\ UNCHANGED <<cancelled, fence, accepted_submits>>
    BY <1>3 DEF Finish
  <2>2. InHand' = {} /\ OpShape' /\ op' \in Ops /\ t.id \in Present(running)
    BY <1>1, <1>3, <2>1, IdleFacts DEF InHand, OpShape, Idle, Handler, Present
  <2>3. /\ running' \in [Ids -> Requests \cup {None}] /\ Places'
        /\ running[t.id] \in ActiveRequests
        /\ ActiveRequests' = ActiveRequests \ {running[t.id]}
        /\ queued' = queued /\ tickets' = tickets
    BY <1>1, <2>1, <2>2, DropRunningFacts DEF DropRunning
  <2>4. "Cancelled" \in TerminalStates
    BY DEF TerminalStates
  <2>5. /\ TerminalSideOK' /\ summary' \in [SummaryFields -> Nat]
        /\ Coherent(ActiveRequests, terminal, cache_in_flight, cache_records)'
    BY <2>1, <2>3, <2>4, ExpireStep
  <2>6. TypeOK'
    BY <1>1, <2>1, <2>2, <2>3, <2>5, TypeParts, PartsKept
       DEF EnvOK, ActiveOK, SummaryOK, activeVars, terminalVars
  <2> QED BY <2>2, <2>3, <2>5, <2>6 DEF LifecycleInv
<1>4. CASE running[t.id] # None /\ ~IsCancelled(running[t.id])
  <2>1. /\ DropRunning(t.id) /\ op' = Finishing(running[t.id], t, resp)
        /\ UNCHANGED <<cancelled, fence, accepted_submits, terminal, terminal_order,
                       evicted, evicted_order, cache_records, cache_in_flight,
                       gate_packets, gate_blockers, summary>>
    BY <1>4 DEF Finish, terminalVars
  <2>2. InHand' = {running[t.id]} /\ t.id \in Present(running)
    BY <1>1, <1>4, <2>1 DEF InHand, Finishing, Present
  <2>3. /\ running' \in [Ids -> Requests \cup {None}] /\ Places'
        /\ running[t.id] \in ActiveRequests /\ running[t.id] \in Requests
        /\ running[t.id].id = t.id
        /\ ActiveRequests' = (ActiveRequests \ {running[t.id]}) \cup {running[t.id]}
        /\ queued' = queued /\ tickets' = tickets
    BY <1>1, <2>1, <2>2, DropRunningFacts DEF DropRunning
  <2>4. ActiveRequests' = ActiveRequests
    BY <2>3
  <2>5. OpShape' /\ op' \in Ops
    <3>1. /\ op'.kind = "finish" /\ op'.request = running[t.id] /\ op'.ticket = t
          /\ op'.response = resp /\ op'.late = (t.token \in cancelled)
          /\ op' \in Ops
      <4>1. op' = [kind |-> "finish", request |-> running[t.id], ticket |-> t,
                   response |-> resp, late |-> t.token \in cancelled]
        BY <2>1 DEF Finishing
      <4> QED BY <1>1, <2>3, <4>1, SMT DEF Ops
    <3>2. running[t.id] = t => ~(t.token \in cancelled)
      BY <1>4 DEF IsCancelled
    <3> QED BY <1>1, <2>3, <3>1, <3>2, ZenonT(30) DEF OpShape
  <2>6. TypeOK'
    BY <1>1, <2>1, <2>3, <2>5, TypeParts, PartsKept
       DEF EnvOK, ActiveOK, SummaryOK, activeVars, terminalVars
  <2>7. Coherent(ActiveRequests, terminal, cache_in_flight, cache_records)'
    BY <1>1, <2>1, <2>4
  <2> QED BY <2>3, <2>5, <2>6, <2>7 DEF LifecycleInv
<1> QED BY <1>2, <1>3, <1>4

\* finish, second half, keeps the invariant.
LEMMA FinishRestStep ==
    ASSUME LifecycleInv, FinishRest
    PROVE  LifecycleInv'
<1> DEFINE r == op.request
<1>1. /\ TypeOK /\ OpShape /\ Places /\ op.kind = "finish" /\ op' = Idle
      /\ UNCHANGED <<cancelled, fence, queued, running, tickets, accepted_submits>>
      /\ Coherent(ActiveRequests, terminal, cache_in_flight, cache_records)
  BY DEF LifecycleInv, FinishRest, activeVars
<1>2. InHand' = {} /\ OpShape' /\ op' \in Ops
  BY <1>1, IdleFacts DEF InHand, OpShape, Idle, Handler
<1>3. /\ Places' /\ r \in Requests /\ r \in ActiveRequests
      /\ ActiveRequests' = ActiveRequests \ {r}
  BY <1>1, <1>2, LetGo
<1>4. CASE IsStale(r)
  <2>1. Expire(r, "StaleGeneration") /\ "StaleGeneration" \in TerminalStates
    BY <1>4 DEF FinishRest, TerminalStates
  <2>2. /\ TerminalSideOK' /\ summary' \in [SummaryFields -> Nat]
        /\ Coherent(ActiveRequests, terminal, cache_in_flight, cache_records)'
    BY <1>3, <2>1, ExpireStep
  <2>3. TypeOK'
    BY <1>1, <1>2, <2>2, TypeParts, PartsKept
       DEF EnvOK, ActiveOK, SummaryOK, activeVars, terminalVars
  <2> QED BY <1>2, <1>3, <2>2, <2>3 DEF LifecycleInv
<1>5. CASE ~IsStale(r)
  <2>1. /\ Publish(op.ticket.id, op.response) /\ op.ticket.id = r.id
        /\ r.id \in Ids /\ op.response \in Responses
    BY <1>1, <1>3, <1>5, RequestTypes DEF FinishRest, OpShape
  <2>2. Publish(r.id, op.response)
    BY <2>1
  <2>3. /\ summary' \in [SummaryFields -> Nat]
        /\ \E e \in TerminalEntries, p \in [Ids -> Packets \cup {None}],
              b \in [Ids -> BlockerCodes \cup {None}] :
              InsertTerminal(r.id, e, cache_records, p, b) /\ Explained(r.id, e, b)
    BY <1>1, <2>1, <2>2, PublishInserts
  <2>4. PICK e \in TerminalEntries, p \in [Ids -> Packets \cup {None}],
             b \in [Ids -> BlockerCodes \cup {None}] :
             InsertTerminal(r.id, e, cache_records, p, b)
    BY <2>3
  <2>5. cache_records \in [Ids -> Keys \cup {None}]
    BY <1>1 DEF TypeOK
  <2>6. TerminalSideOK'
    BY <1>1, <2>1, <2>4, <2>5, InsertTerminalTypes DEF TerminalSideOK
  <2>7. ActiveRequests \subseteq Requests
        /\ \A x, y \in ActiveRequests : x.id = y.id => x = y
    BY <1>1, ActiveUnique
  <2>8. Coherent(ActiveRequests \ {r}, terminal', cache_in_flight', cache_records')
    BY <1>1, <1>3, <2>4, <2>7, EndKeepsCoherent
  <2>9. TypeOK'
    BY <1>1, <1>2, <2>3, <2>6, TypeParts, PartsKept
       DEF EnvOK, ActiveOK, SummaryOK, activeVars, terminalVars
  <2> QED BY <1>2, <1>3, <2>8, <2>9 DEF LifecycleInv
<1> QED BY <1>4, <1>5

\* An id is active exactly when a queued or running request has it, as long as
\* no handler holds a request.
LEMMA HasActiveFacts ==
    ASSUME TypeOK, Places, InHand = {}, NEW i \in Ids
    PROVE  HasActive(i) <=> \E r \in ActiveRequests : r.id = i
<1>1. ActiveRequests = {queued[j] : j \in 1..Len(queued)} \cup
                       {running[x] : x \in Present(running)}
  BY DEF ActiveRequests
<1>2. i \in IdsOf(queued) <=> \E r \in {queued[j] : j \in 1..Len(queued)} : r.id = i
  BY DEF IdsOf
<1>3. running[i] # None <=> \E r \in {running[x] : x \in Present(running)} : r.id = i
  BY SMT DEF Places, Present
<1> QED BY <1>1, <1>2, <1>3 DEF HasActive

\* A rejected submit keeps the invariant.
LEMMA RejectStep ==
    ASSUME LifecycleInv, InHand = {}, NEW r \in Requests, NEW code,
           code # "DuplicateRequest" => ~HasRequestId(r.id),
           RejectSubmit(r, code)
    PROVE  LifecycleInv'
<1> DEFINE duplicateActive == DuplicateActive(r, code)
           recs == RecordsAfterReject(r, code)
           inserts == RetainsRejection(r, code)
<1> USE DEF DuplicateActive, RecordsAfterReject, RetainsRejection
<1>1. /\ TypeOK /\ OpShape /\ Places /\ op' = Idle
      /\ UNCHANGED <<cancelled, fence, queued, running, tickets, accepted_submits>>
      /\ Coherent(ActiveRequests, terminal, cache_in_flight, cache_records)
      /\ summary' = Counted(Counted(summary, "submit"), "reject")
  BY DEF LifecycleInv, RejectSubmit, activeVars
<1>2. InHand' = {} /\ OpShape' /\ op' \in Ops
  BY <1>1, IdleFacts DEF InHand, OpShape, Idle, Handler
<1>3. /\ Places' /\ ActiveRequests' = ActiveRequests
  BY <1>1, <1>2, ActiveKept
<1>4. /\ r.id \in Ids /\ r.key \in Keys \cup {None}
      /\ cache_records \in [Ids -> Keys \cup {None}]
      /\ gate_packets \in [Ids -> Packets \cup {None}]
      /\ gate_blockers \in [Ids -> BlockerCodes \cup {None}]
      /\ summary \in [SummaryFields -> Nat]
  BY <1>1, RequestTypes DEF TypeOK
<1>5. summary' \in [SummaryFields -> Nat]
  <2>1. "submit" \in SummaryFields /\ "reject" \in SummaryFields
    BY DEF SummaryFields
  <2>2. Counted(summary, "submit") \in [SummaryFields -> Nat]
    BY <1>4, <2>1, CountedType
  <2> QED BY <1>1, <2>1, <2>2, CountedType
<1>6. recs \in [Ids -> Keys \cup {None}]
  BY <1>4
<1>6a. \A x \in Ids : x # r.id => recs[x] = cache_records[x]
  BY <1>4
<1>6b. duplicateActive => recs = cache_records
  OBVIOUS
<1>7. ~duplicateActive => \A x \in ActiveRequests : x.id # r.id
  BY <1>1, <1>4, HasActiveFacts DEF HasRequestId
<1>8. ActiveRequests \subseteq Requests
  BY <1>1, ActiveUnique
<1>9. NoArtifact(RejectState(code)) \in TerminalEntries
  <2>1. RejectState(code) \in {"StaleGeneration", "Cancelled", "Rejected"}
    BY DEF RejectState
  <2> QED BY <2>1 DEF NoArtifact, TerminalEntries, TerminalStates
<1>10. IF inserts
       THEN InsertTerminal(r.id, NoArtifact(RejectState(code)), recs,
                           gate_packets, gate_blockers)
       ELSE /\ cache_records' = recs
            /\ UNCHANGED <<terminal, terminal_order, evicted, evicted_order,
                           cache_in_flight, gate_packets, gate_blockers>>
  BY DEF RejectSubmit
<1>11. ~inserts /\ ~duplicateActive => terminal[r.id] # None
  OBVIOUS
<1>12. inserts => ~duplicateActive
  OBVIOUS
<1> HIDE DEF recs, inserts, duplicateActive,
             DuplicateActive, RecordsAfterReject, RetainsRejection
<1>13. CASE inserts
  <2>1. InsertTerminal(r.id, NoArtifact(RejectState(code)), recs,
                       gate_packets, gate_blockers)
    BY <1>10, <1>13
  <2>2. TerminalSideOK'
    BY <1>1, <1>4, <1>6, <1>9, <2>1, InsertTerminalTypes DEF TerminalSideOK
  <2>3. \A x \in ActiveRequests : x.id # r.id
    BY <1>7, <1>12, <1>13
  <2>4. Coherent(ActiveRequests, terminal', cache_in_flight', cache_records')
    BY <1>1, <1>4, <1>6, <1>6a, <1>8, <1>9, <2>1, <2>3, RejectKeepsCoherent
  <2>5. TypeOK'
    BY <1>1, <1>2, <1>5, <2>2, TypeParts, PartsKept
       DEF EnvOK, ActiveOK, SummaryOK, activeVars, terminalVars
  <2> QED BY <1>2, <1>3, <2>4, <2>5 DEF LifecycleInv
<1>14. CASE ~inserts
  <2>1. /\ cache_records' = recs
        /\ UNCHANGED <<terminal, terminal_order, evicted, evicted_order,
                       cache_in_flight, gate_packets, gate_blockers>>
    BY <1>10, <1>14
  <2>2. TypeOK'
    <3>1. TerminalSideOK'
      BY <1>1, <1>6, <2>1, TypeParts DEF TerminalSideOK
    <3> QED BY <1>1, <1>2, <1>5, <3>1, TypeParts, PartsKept
            DEF EnvOK, ActiveOK, SummaryOK
  <2>3. \A x \in ActiveRequests : x.id \in Ids /\ recs[x.id] = cache_records[x.id]
    <3>1. \A x \in ActiveRequests : x.id \in Ids
      BY <1>8, RequestTypes
    <3>2. CASE duplicateActive
      BY <3>1, <3>2, <1>6b
    <3>3. CASE ~duplicateActive
      BY <3>1, <3>3, <1>6a, <1>7
    <3> QED BY <3>2, <3>3
  <2>4. \A i \in Ids : recs[i] # None => terminal[i] # None
                                        \/ \E x \in ActiveRequests : x.id = i
    <3>1. \A i \in Ids : cache_records[i] # None =>
             terminal[i] # None \/ \E x \in ActiveRequests : x.id = i
      BY <1>1 DEF Coherent
    <3>2. CASE duplicateActive
      BY <3>1, <3>2, <1>6b
    <3>3. CASE ~duplicateActive
      BY <3>1, <3>3, <1>6a, <1>11, <1>14
    <3> QED BY <3>2, <3>3
  <2>5. Coherent(ActiveRequests, terminal, cache_in_flight, recs)
    BY <1>1, <2>3, <2>4 DEF Coherent
  <2> QED BY <1>2, <1>3, <2>1, <2>2, <2>5 DEF LifecycleInv
<1> QED BY <1>13, <1>14

\* An accepted submit keeps the invariant.
LEMMA AcceptStep ==
    ASSUME LifecycleInv, InHand = {}, NEW r \in Requests, ~HasRequestId(r.id),
           LateRejectCode(r) = None, AcceptSubmit(r)
    PROVE  LifecycleInv'
<1>1. /\ TypeOK /\ OpShape /\ Places /\ op' = Idle
      /\ queued' = Append(queued, r) /\ accepted_submits' = accepted_submits + 1
      /\ summary' = Counted(summary, "submit")
      /\ UNCHANGED <<cancelled, fence, running, tickets, terminal, terminal_order,
                     evicted, evicted_order, gate_packets, gate_blockers>>
      /\ Coherent(ActiveRequests, terminal, cache_in_flight, cache_records)
  BY DEF LifecycleInv, AcceptSubmit
<1>2. InHand' = {} /\ OpShape' /\ op' \in Ops
  BY <1>1, IdleFacts DEF InHand, OpShape, Idle, Handler
<1>3. /\ r.id \in Ids /\ r.key \in Keys \cup {None} /\ r # None
      /\ terminal[r.id] = None /\ r.id \notin IdsOf(queued) /\ running[r.id] = None
      /\ \A x \in ActiveRequests : x.id # r.id
  BY <1>1, RequestTypes, HasActiveFacts DEF HasRequestId, HasActive
<1>4. r.key # None => cache_in_flight[r.key] = None
  <2> SUFFICES ASSUME r.key # None, cache_in_flight[r.key] # None PROVE FALSE
    OBVIOUS
  <2>1. LateRejectCode(r) \in {"StaleGeneration", "DuplicateCacheKey"}
    BY DEF LateRejectCode
  <2> QED BY <2>1, ConstantsAssumption DEF RejectCodes
<1>5. ActiveRequests \subseteq Requests
      /\ \A x \in ActiveRequests : x.id \in Ids /\ x.key \in Keys \cup {None}
  BY <1>1, ActiveUnique, RequestTypes
<1>6. /\ queued \in Seq(Requests) /\ Len(queued) \in Nat
      /\ queued' \in Seq(Requests) /\ Len(queued') = Len(queued) + 1
      /\ \A j \in 1..Len(queued) : queued'[j] = queued[j]
      /\ queued'[Len(queued) + 1] = r
  <2>1. queued \in Seq(Requests)
    BY <1>1 DEF TypeOK
  <2>2. queued' = Append(queued, r)
    BY DEF AcceptSubmit
  <2> QED BY <2>1, <2>2, SMT
<1>7. {queued'[j] : j \in 1..Len(queued')} = {queued[j] : j \in 1..Len(queued)} \cup {r}
  <2>1. 1..Len(queued') = 1..Len(queued) \cup {Len(queued) + 1}
    BY <1>6, SMT
  <2> QED BY <1>6, <2>1, SMT
<1>8. IdsOf(queued)' = IdsOf(queued) \cup {r.id}
  <2>1. 1..Len(queued') = 1..Len(queued) \cup {Len(queued) + 1}
    BY <1>6, SMT
  <2> QED BY <1>6, <2>1, SMT DEF IdsOf
<1>9. ActiveRequests' = ActiveRequests \cup {r}
  <2> DEFINE inQueue == {queued[j] : j \in 1..Len(queued)}
             inRun == {running[i] : i \in Present(running)}
  <2>1. inQueue' = inQueue \cup {r}
    BY <1>7
  <2>2. inRun' = inRun
    BY <1>1 DEF Present
  <2>3. ActiveRequests = inQueue \cup inRun \cup InHand
    BY DEF ActiveRequests
  <2>4. ActiveRequests' = inQueue' \cup inRun' \cup InHand'
    BY DEF ActiveRequests
  <2> HIDE DEF inQueue, inRun
  <2> QED BY <1>2, <2>1, <2>2, <2>3, <2>4
<1>10. Places'
  <2>1. ASSUME NEW g \in 1..Len(queued'), NEW h \in 1..Len(queued'),
               queued'[g].id = queued'[h].id
        PROVE  g = h
    <3>1. \A j \in 1..Len(queued) : queued[j].id # r.id
      BY <1>3 DEF IdsOf
    <3>2. g \in 1..Len(queued) \/ g = Len(queued) + 1
      BY <1>6, SMT
    <3>3. h \in 1..Len(queued) \/ h = Len(queued) + 1
      BY <1>6, SMT
    <3> QED BY <1>1, <1>6, <2>1, <3>1, <3>2, <3>3, ZenonT(30) DEF Places
  <2>2. \A x \in Present(running)' : running'[x].id = x /\ x \notin IdsOf(queued)'
    <3>1. Present(running)' = Present(running) /\ running' = running
      BY <1>1 DEF Present
    <3>2. \A x \in Present(running) : running[x].id = x /\ x \notin IdsOf(queued) /\ x # r.id
      BY <1>1, <1>3 DEF Places, Present
    <3> QED BY <1>8, <3>1, <3>2
  <2> QED BY <1>2, <2>1, <2>2 DEF Places
<1>11. cache_records[r.id] = None
  BY <1>1, <1>3 DEF Coherent
<1>a. EnvOK' /\ ActiveOK' /\ SummaryOK'
  <2>1. EnvOK /\ ActiveOK /\ SummaryOK
    BY <1>1, TypeParts
  <2>2. EnvOK'
    BY <1>1, <2>1, SMT DEF EnvOK
  <2>3. ActiveOK'
    BY <1>1, <1>6, <2>1 DEF ActiveOK
  <2>4. SummaryOK'
    BY <1>1, CountedType DEF TypeOK, SummaryFields, SummaryOK
  <2> QED BY <2>2, <2>3, <2>4
<1>12. CASE r.key = None
  <2>1. UNCHANGED <<cache_in_flight, cache_records>>
    BY <1>12 DEF AcceptSubmit
  <2>2. Coherent(ActiveRequests \cup {r}, terminal, cache_in_flight, cache_records)
    BY <1>1, <1>3, <1>11, <1>12 DEF Coherent
  <2>3. TypeOK'
    <3>1. TerminalSideOK'
      BY <1>1, <2>1, TypeParts, PartsKept DEF terminalVars
    <3> QED BY <1>2, <1>a, <3>1, TypeParts
  <2> QED BY <1>1, <1>2, <1>9, <1>10, <2>1, <2>2, <2>3 DEF LifecycleInv
<1>13. CASE r.key # None
  <2>1. /\ cache_in_flight' = [cache_in_flight EXCEPT ![r.key] = r.id]
        /\ cache_records' = [cache_records EXCEPT ![r.id] = r.key]
    BY <1>13 DEF AcceptSubmit
  <2>2. TypeOK'
    <3>1. TerminalSideOK'
      BY <1>1, <1>3, <1>13, <2>1, TypeParts DEF TerminalSideOK
    <3> QED BY <1>2, <1>a, <3>1, TypeParts
  <2>3. /\ r.key \in Keys /\ cache_in_flight'[r.key] = r.id
        /\ cache_records'[r.id] = r.key
        /\ \A k \in Keys : k # r.key => cache_in_flight'[k] = cache_in_flight[k]
        /\ \A i \in Ids : i # r.id => cache_records'[i] = cache_records[i]
    BY <1>1, <1>3, <1>13, <2>1 DEF TypeOK
  <2>4. \A x \in ActiveRequests : x.key # None => x.key # r.key
    <3>1. \A x \in ActiveRequests : x.key # None => cache_in_flight[x.key] = x.id
      BY <1>1 DEF Coherent
    <3>2. None \notin Ids
      BY ConstantsAssumption
    <3> QED BY <1>4, <1>5, <1>13, <3>1, <3>2
  <2>5. \A x \in ActiveRequests \cup {r} :
           /\ terminal[x.id] = None /\ cache_records'[x.id] = x.key
           /\ x.key # None => cache_in_flight'[x.key] = x.id
    BY <1>1, <1>3, <1>5, <1>13, <2>3, <2>4 DEF Coherent
  <2>6. \A k \in Keys : cache_in_flight'[k] # None =>
           \E x \in ActiveRequests \cup {r} : x.id = cache_in_flight'[k] /\ x.key = k
    <3>1. \A k \in Keys : cache_in_flight[k] # None =>
             \E x \in ActiveRequests : x.id = cache_in_flight[k] /\ x.key = k
      BY <1>1 DEF Coherent
    <3> QED BY <2>3, <3>1, ZenonT(30)
  <2>7. \A i \in Ids : cache_records'[i] # None =>
           terminal[i] # None \/ \E x \in ActiveRequests \cup {r} : x.id = i
    <3>1. \A i \in Ids : cache_records[i] # None =>
             terminal[i] # None \/ \E x \in ActiveRequests : x.id = i
      BY <1>1 DEF Coherent
    <3> QED BY <2>3, <3>1
  <2>8. Coherent(ActiveRequests \cup {r}, terminal, cache_in_flight', cache_records')
    BY <2>5, <2>6, <2>7 DEF Coherent
  <2> QED BY <1>1, <1>2, <1>9, <1>10, <2>2, <2>8 DEF LifecycleInv
<1> QED BY <1>12, <1>13

\* submit keeps the invariant, both halves.
LEMMA SubmitStep ==
    ASSUME LifecycleInv, NEW r \in Requests, Submit(r)
    PROVE  LifecycleInv'
<1>1. TypeOK /\ OpShape /\ Places /\ op = Idle /\ InHand = {}
      /\ Coherent(ActiveRequests, terminal, cache_in_flight, cache_records)
  BY IdleFacts DEF LifecycleInv, Submit
<1>2. CASE HasRequestId(r.id)
  BY <1>1, <1>2, RejectStep DEF Submit
<1>3. CASE ~HasRequestId(r.id) /\ IsCancelled(r)
  BY <1>1, <1>3, RejectStep DEF Submit
<1>4. CASE ~HasRequestId(r.id) /\ ~IsCancelled(r)
  <2>1. op' = Submitting(r)
        /\ UNCHANGED <<cancelled, fence, queued, running, tickets, terminal,
                       terminal_order, evicted, evicted_order, cache_records,
                       cache_in_flight, gate_packets, gate_blockers,
                       accepted_submits, summary>>
    BY <1>4 DEF Submit, activeVars, terminalVars
  <2>2. InHand' = {} /\ op' \in Ops /\ op'.kind = "submit" /\ op'.request = r
    BY <2>1 DEF InHand, Submitting, Handler, Ops
  <2>3. HasRequestId(r.id)' <=> HasRequestId(r.id)
    BY <2>1 DEF HasRequestId, HasActive, IdsOf
  <2>4. OpShape'
    BY <1>4, <2>2, <2>3 DEF OpShape
  <2>5. ActiveRequests' = ActiveRequests /\ Places'
    BY <1>1, <2>1, <2>2, ActiveKept
  <2>6. TypeOK'
    BY <1>1, <2>1, <2>2, TypeParts, PartsKept
       DEF EnvOK, ActiveOK, SummaryOK, activeVars, terminalVars
  <2>7. Coherent(ActiveRequests, terminal, cache_in_flight, cache_records)'
    BY <1>1, <2>1, <2>5
  <2> QED BY <2>4, <2>5, <2>6, <2>7 DEF LifecycleInv
<1> QED BY <1>2, <1>3, <1>4

LEMMA SubmitRestStep ==
    ASSUME LifecycleInv, SubmitRest
    PROVE  LifecycleInv'
<1>1. InHand = {} /\ op.request \in Requests /\ ~HasRequestId(op.request.id)
  BY DEF LifecycleInv, SubmitRest, OpShape, InHand
<1>2. CASE LateRejectCode(op.request) # None
  BY <1>1, <1>2, RejectStep DEF SubmitRest
<1>3. CASE LateRejectCode(op.request) = None
  BY <1>1, <1>3, AcceptStep DEF SubmitRest
<1> QED BY <1>2, <1>3

\* A step that leaves requests, results and the handler's locals alone keeps the
\* invariant if it keeps the types: token and fence writers, recorded packets.
LEMMA OtherStep ==
    ASSUME LifecycleInv,
           UNCHANGED <<queued, running, tickets, terminal, cache_records,
                       cache_in_flight, op>>,
           TypeOK'
    PROVE  LifecycleInv'
<1>1. InHand' = InHand
  BY DEF InHand
<1>2. ActiveRequests' = ActiveRequests /\ Places'
  BY <1>1, ActiveKept DEF LifecycleInv
<1>3. OpShape'
  BY DEF LifecycleInv, OpShape, HasRequestId, HasActive, IdsOf
<1> QED BY <1>2, <1>3 DEF LifecycleInv

-----------------------------------------------------------------------------
(* The theorems                                                            *)

\* The service starts empty.
LEMMA InitInv == Init => LifecycleInv
<1> SUFFICES ASSUME Init PROVE LifecycleInv
  OBVIOUS
<1>1. op = Idle /\ InHand = {} /\ OpShape /\ op \in Ops
  BY IdleFacts DEF Init
<1>2. Present(running) = {} /\ Len(queued) = 0 /\ queued \in Seq(Requests)
      /\ terminal_order \in Seq(Ids) /\ evicted_order \in Seq(Ids)
  BY SMT DEF Init, Present
<1>3. ActiveRequests = {}
  BY <1>1, <1>2, SMT DEF ActiveRequests
<1>4. TypeOK
  <2>1. cancelled \subseteq Tokens /\ fence \in Nat /\ accepted_submits \in Nat
        /\ evicted \subseteq Ids /\ tickets \subseteq Requests
        /\ running \in [Ids -> Requests \cup {None}]
    BY DEF Init
  <2>2. /\ terminal \in [Ids -> TerminalEntries \cup {None}]
        /\ cache_records \in [Ids -> Keys \cup {None}]
        /\ cache_in_flight \in [Keys -> Ids \cup {None}]
    BY DEF Init
  <2>3. /\ gate_packets \in [Ids -> Packets \cup {None}]
        /\ gate_blockers \in [Ids -> BlockerCodes \cup {None}]
        /\ summary \in [SummaryFields -> Nat]
    BY DEF Init
  <2> QED BY <1>1, <1>2, <2>1, <2>2, <2>3 DEF TypeOK
<1>5. Places
  BY <1>1, <1>2, SMT DEF Places
<1>6. Coherent({}, terminal, cache_in_flight, cache_records)
  BY DEF Init, Coherent
<1> QED BY <1>1, <1>3, <1>4, <1>5, <1>6 DEF LifecycleInv

\* Every step keeps the invariant, one case per action.
LEMMA NextInv == LifecycleInv /\ [Next]_vars => LifecycleInv'
<1> SUFFICES ASSUME LifecycleInv, [Next]_vars PROVE LifecycleInv'
  OBVIOUS
<1>1. CASE \E r \in Requests : Submit(r)
  BY <1>1, SubmitStep
<1>2. CASE SubmitRest
  BY <1>2, SubmitRestStep
<1>3. CASE \E i \in Ids : Poll(i)
  BY <1>3, PollStep DEF Poll
<1>4. CASE \E i \in Ids : Cancel(i)
  BY <1>4, CancelStep
<1>5. CASE StartNext
  BY <1>5, StartNextStep
<1>6. CASE StartRest
  BY <1>6, StartRestStep
<1>7. CASE \E t \in tickets, resp \in Responses : Finish(t, resp)
  BY <1>7, FinishStep
<1>8. CASE FinishRest
  BY <1>8, FinishRestStep
<1>9. CASE \E t \in Tokens : CancelToken(t)
  <2>1. TypeOK'
    <3>1. TypeOK /\ op' \in Ops /\ EnvOK'
      BY <1>9, TypeParts DEF LifecycleInv, CancelToken, EnvOK, TypeOK
    <3> QED BY <1>9, <3>1, TypeParts, PartsKept DEF CancelToken
  <2> QED BY <1>9, <2>1, OtherStep DEF CancelToken, activeVars, terminalVars
<1>10. CASE \E g \in 1..MaxFence : MarkStaleBefore(g)
  <2>1. TypeOK'
    <3>1. TypeOK /\ op' \in Ops
      BY <1>10 DEF LifecycleInv, MarkStaleBefore, TypeOK
    <3>2. EnvOK'
      BY <1>10, <3>1, TypeParts, ConstantsAssumption, SMT DEF MarkStaleBefore, EnvOK
    <3> QED BY <1>10, <3>1, <3>2, TypeParts, PartsKept DEF MarkStaleBefore
  <2> QED BY <1>10, <2>1, OtherStep DEF MarkStaleBefore, activeVars, terminalVars
<1>11. CASE \E i \in Ids, p \in Packets : RecordGatePacket(i, p)
  <2>1. TypeOK'
    <3>1. TypeOK /\ op' \in Ops
      BY <1>11 DEF LifecycleInv, RecordGatePacket, TypeOK
    <3>2. TerminalSideOK'
      BY <1>11, <3>1, TypeParts DEF RecordGatePacket, TerminalSideOK
    <3> QED BY <1>11, <3>1, <3>2, TypeParts, PartsKept DEF RecordGatePacket
  <2> QED BY <1>11, <2>1, OtherStep DEF RecordGatePacket, activeVars
<1>12. CASE UNCHANGED vars
  <2>1. TypeOK'
    <3>1. TypeOK /\ op' \in Ops
      BY <1>12 DEF LifecycleInv, TypeOK, vars
    <3> QED BY <1>12, <3>1, TypeParts, PartsKept DEF vars
  <2> QED BY <1>12, <2>1, OtherStep DEF vars, activeVars, terminalVars
<1> QED BY <1>1, <1>2, <1>3, <1>4, <1>5, <1>6, <1>7, <1>8, <1>9, <1>10, <1>11,
           <1>12 DEF Next

\* The inductive invariant holds throughout, whatever callers, workers, token
\* holders and fence writers do.
THEOREM Lifecycle == Spec => []LifecycleInv
BY InitInv, NextInv, PTL DEF Spec

\* Every field of the service keeps its type.
THEOREM TypeCorrect == Spec => []TypeOK
<1>1. LifecycleInv => TypeOK
  BY DEF LifecycleInv
<1> QED BY <1>1, Lifecycle, PTL

\* submit, start_next, finish, poll and cancel keep a request id in one place.
THEOREM OnePlace == Spec => []OnePlacePerId
<1>1. LifecycleInv => OnePlacePerId
  BY DEF LifecycleInv, Places, Coherent, OnePlacePerId
<1> QED BY <1>1, Lifecycle, PTL

\* A manifest cache key is in flight exactly while a request with it is active.
THEOREM SingleFlightHolds == Spec => []SingleFlight
<1>1. LifecycleInv => SingleFlight
  BY DEF LifecycleInv, Coherent, SingleFlight
<1> QED BY <1>1, Lifecycle, PTL

\* insert_terminal finds the key of the request it ends in cache_records.
THEOREM RecordsFollow == Spec => []RecordsFollowRequests
<1>1. LifecycleInv => RecordsFollowRequests
  BY DEF LifecycleInv, Coherent, RecordsFollowRequests, Present
<1> QED BY <1>1, Lifecycle, PTL

-----------------------------------------------------------------------------
(* What the steps do to retained results                                   *)

\* A new terminal entry is for an id without a retained result; it is
\* explained, and installable only if finish publishes it for a request that is
\* not stale.
Writes(i, entry, blks) ==
    /\ terminal[i] = None
    /\ Explained(i, entry, blks)
    /\ entry.state = "CompiledInstallable" => op.kind = "finish" /\ ~IsStale(op.request)

\* insert_terminal is called with such an entry.
Inserts ==
    \E i \in Ids, entry \in TerminalEntries, recs \in [Ids -> Keys \cup {None}],
       pkts \in [Ids -> Packets \cup {None}], blks \in [Ids -> BlockerCodes \cup {None}] :
        Writes(i, entry, blks) /\ InsertTerminal(i, entry, recs, pkts, blks)

\* Nothing is inserted.
Rests == UNCHANGED <<terminal, terminal_order, evicted, evicted_order, gate_blockers>>

\* An entry without an artifact and with the blockers as they were.
LEMMA QuietInserts ==
    ASSUME TypeOK, NEW i \in Ids, terminal[i] = None, NEW state \in TerminalStates,
           state # "CompiledInstallable", NEW recs \in [Ids -> Keys \cup {None}],
           InsertTerminal(i, NoArtifact(state), recs, gate_packets, gate_blockers)
    PROVE  Inserts
<1>1. /\ gate_packets \in [Ids -> Packets \cup {None}]
      /\ gate_blockers \in [Ids -> BlockerCodes \cup {None}]
  BY DEF TypeOK
<1>2. NoArtifact(state) \in TerminalEntries /\ NoArtifact(state).state = state
  BY DEF NoArtifact, TerminalEntries
<1>3. Writes(i, NoArtifact(state), gate_blockers)
  BY <1>2 DEF Writes, Explained
<1> QED BY <1>1, <1>2, <1>3 DEF Inserts

\* Ending an active request without an artifact.
LEMMA ExpireInserts ==
    ASSUME LifecycleInv, NEW r \in ActiveRequests, NEW state \in TerminalStates,
           state # "CompiledInstallable", Expire(r, state)
    PROVE  Inserts
<1>1. /\ TypeOK /\ OpShape /\ Places
      /\ Coherent(ActiveRequests, terminal, cache_in_flight, cache_records)
  BY DEF LifecycleInv
<1>2. r \in Requests
  BY <1>1, ActiveUnique
<1>3. r.id \in Ids /\ terminal[r.id] = None
  BY <1>1, <1>2, RequestTypes DEF Coherent
<1>4. cache_records \in [Ids -> Keys \cup {None}]
  BY <1>1 DEF TypeOK
<1>5. InsertTerminal(r.id, NoArtifact(state), cache_records, gate_packets, gate_blockers)
  BY DEF Expire
<1> QED BY <1>1, <1>3, <1>4, <1>5, QuietInserts

\* A rejected submit.
LEMMA RejectInserts ==
    ASSUME LifecycleInv, NEW r \in Requests, NEW code,
           code # "DuplicateRequest" => ~HasRequestId(r.id),
           RejectSubmit(r, code)
    PROVE  Inserts \/ Rests
<1> DEFINE recs == RecordsAfterReject(r, code)
<1>1. TypeOK /\ r.id \in Ids /\ recs \in [Ids -> Keys \cup {None}]
  BY RequestTypes DEF LifecycleInv, TypeOK, RecordsAfterReject
<1>2. RejectState(code) \in TerminalStates /\ RejectState(code) # "CompiledInstallable"
  <2>1. RejectState(code) \in {"StaleGeneration", "Cancelled", "Rejected"}
    BY DEF RejectState
  <2> QED BY <2>1 DEF TerminalStates
<1>3. \/ Rests
      \/ /\ terminal[r.id] = None
         /\ InsertTerminal(r.id, NoArtifact(RejectState(code)), recs,
                           gate_packets, gate_blockers)
  BY DEF RejectSubmit, HasRequestId, RetainsRejection, DuplicateActive, Rests
<1> HIDE DEF recs
<1> QED BY <1>1, <1>2, <1>3, QuietInserts

\* poll.
LEMMA PollInserts ==
    ASSUME LifecycleInv, op = Idle, NEW i \in Ids, PollBody(i)
    PROVE  Inserts \/ Rests
<1>1. TypeOK /\ Places
  BY DEF LifecycleInv
<1>2. \A r : ExpiredState(r) \in TerminalStates /\ ExpiredState(r) # "CompiledInstallable"
  BY DEF ExpiredState, TerminalStates
<1>3. CASE /\ i \in IdsOf(queued)
           /\ Expire(queued[PositionOf(i)], ExpiredState(queued[PositionOf(i)]))
  <2>1. queued[PositionOf(i)] \in ActiveRequests
    BY <1>1, <1>3, PositionOfFacts DEF ActiveRequests
  <2> QED BY <1>2, <1>3, <2>1, ExpireInserts
<1>4. CASE running[i] # None /\ Expire(running[i], ExpiredState(running[i]))
  <2>1. running[i] \in ActiveRequests
    BY <1>4 DEF ActiveRequests, Present
  <2> QED BY <1>2, <1>4, <2>1, ExpireInserts
<1> QED BY <1>3, <1>4 DEF PollBody, terminalVars, Rests

\* The publishing half of finish.
LEMMA PublishWrites ==
    ASSUME LifecycleInv, op.kind = "finish", ~IsStale(op.request),
           Publish(op.ticket.id, op.response)
    PROVE  Inserts
<1>1. /\ TypeOK /\ OpShape
      /\ Coherent(ActiveRequests, terminal, cache_in_flight, cache_records)
  BY DEF LifecycleInv
<1>2. /\ op.request \in Requests /\ op.ticket.id = op.request.id
      /\ op.response \in Responses /\ op.request \in ActiveRequests
  BY <1>1 DEF OpShape, ActiveRequests, InHand
<1>3. op.ticket.id \in Ids /\ terminal[op.ticket.id] = None
  BY <1>1, <1>2, RequestTypes, SMT DEF Coherent
<1>4. \E e \in TerminalEntries, p \in [Ids -> Packets \cup {None}],
         b \in [Ids -> BlockerCodes \cup {None}] :
         InsertTerminal(op.ticket.id, e, cache_records, p, b)
         /\ Explained(op.ticket.id, e, b)
  BY <1>1, <1>2, <1>3, PublishInserts
<1>5. cache_records \in [Ids -> Keys \cup {None}]
  BY <1>1 DEF TypeOK
<1> QED BY <1>3, <1>4, <1>5 DEF Inserts, Writes

\* Every step inserts one such entry or leaves the retained results alone.
LEMMA StepInserts ==
    ASSUME LifecycleInv, [Next]_vars
    PROVE  Inserts \/ Rests
<1>0. /\ TypeOK /\ OpShape /\ Places
      /\ Coherent(ActiveRequests, terminal, cache_in_flight, cache_records)
      /\ "Cancelled" \in TerminalStates /\ "StaleGeneration" \in TerminalStates
  BY DEF LifecycleInv, TerminalStates
<1>a. UNCHANGED terminalVars => Rests
  BY DEF Rests, terminalVars
<1>1. ASSUME NEW r \in Requests, Submit(r)
      PROVE  Inserts \/ Rests
  <2>1. CASE HasRequestId(r.id)
    BY <1>1, <2>1, RejectInserts DEF Submit
  <2>2. CASE ~HasRequestId(r.id)
    BY <1>1, <2>2, <1>a, RejectInserts DEF Submit, terminalVars
  <2> QED BY <2>1, <2>2
<1>2. CASE SubmitRest
  <2>1. op.request \in Requests /\ ~HasRequestId(op.request.id)
    BY <1>0, <1>2 DEF SubmitRest, OpShape
  <2>2. CASE AcceptSubmit(op.request)
    BY <2>2 DEF AcceptSubmit, Rests
  <2>3. CASE RejectSubmit(op.request, LateRejectCode(op.request))
    BY <2>1, <2>3, RejectInserts
  <2> QED BY <1>2, <2>2, <2>3 DEF SubmitRest
<1>3. ASSUME NEW i \in Ids, Poll(i)
      PROVE  Inserts \/ Rests
  BY <1>3, PollInserts DEF Poll
<1>4. ASSUME NEW i \in Ids, Cancel(i)
      PROVE  Inserts \/ Rests
  <2>1. CASE i \in IdsOf(queued)
    <3>1. queued[PositionOf(i)] \in ActiveRequests
      BY <1>0, <2>1, PositionOfFacts DEF ActiveRequests
    <3> QED BY <1>0, <1>4, <2>1, <3>1, ExpireInserts DEF Cancel
  <2>2. CASE i \notin IdsOf(queued) /\ running[i] # None
    <3>1. running[i] \in ActiveRequests
      BY <2>2 DEF ActiveRequests, Present
    <3> QED BY <1>0, <1>4, <2>2, <3>1, ExpireInserts DEF Cancel
  <2>3. CASE i \notin IdsOf(queued) /\ running[i] = None
    BY <1>4, <2>3, PollInserts DEF Cancel
  <2> QED BY <2>1, <2>2, <2>3
<1>5. CASE StartNext
  <2>1. CASE UNCHANGED terminalVars
    BY <1>a, <2>1 DEF terminalVars
  <2>2. CASE queued # <<>> /\ Expire(Head(queued), "Cancelled")
    <3>1. Head(queued) = queued[1] /\ 1 \in 1..Len(queued)
      BY <1>0, <2>2, SMT DEF TypeOK
    <3>2. Head(queued) \in ActiveRequests
      BY <3>1 DEF ActiveRequests
    <3> QED BY <1>0, <2>2, <3>2, ExpireInserts
  <2> QED BY <1>5, <2>1, <2>2 DEF StartNext
<1>6. CASE StartRest
  <2>1. CASE UNCHANGED terminalVars
    BY <1>a, <2>1 DEF terminalVars
  <2>2. CASE Expire(op.request, "StaleGeneration")
    <3>1. op.request \in ActiveRequests
      BY <1>6 DEF ActiveRequests, InHand, StartRest
    <3> QED BY <1>0, <2>2, <3>1, ExpireInserts
  <2> QED BY <1>6, <2>1, <2>2 DEF StartRest
<1>7. ASSUME NEW t \in tickets, NEW resp \in Responses, Finish(t, resp)
      PROVE  Inserts \/ Rests
  <2>0. t.id \in Ids
    BY <1>0, RequestTypes DEF TypeOK
  <2>1. CASE running[t.id] = None
    BY <1>7, <2>0, <2>1, PollInserts DEF Finish
  <2>2. CASE running[t.id] # None /\ UNCHANGED terminalVars
    BY <1>a, <2>2 DEF terminalVars
  <2>3. CASE running[t.id] # None /\ Expire(running[t.id], "Cancelled")
    <3>1. running[t.id] \in ActiveRequests
      BY <2>0, <2>3 DEF ActiveRequests, Present
    <3> QED BY <1>0, <2>3, <3>1, ExpireInserts
  <2> QED BY <1>7, <2>1, <2>2, <2>3, ZenonT(30) DEF Finish
<1>8. CASE FinishRest
  <2>0. op.request \in ActiveRequests /\ op.kind = "finish"
    BY <1>8 DEF ActiveRequests, InHand, FinishRest
  <2>1. CASE Expire(op.request, "StaleGeneration")
    BY <1>0, <2>0, <2>1, ExpireInserts
  <2>2. CASE ~IsStale(op.request) /\ Publish(op.ticket.id, op.response)
    BY <2>0, <2>2, PublishWrites
  <2> QED BY <1>8, <2>1, <2>2 DEF FinishRest
<1>9. CASE \/ \E t \in Tokens : CancelToken(t)
           \/ \E g \in 1..MaxFence : MarkStaleBefore(g)
           \/ \E i \in Ids, p \in Packets : RecordGatePacket(i, p)
           \/ UNCHANGED vars
  BY <1>9 DEF CancelToken, MarkStaleBefore, RecordGatePacket, vars, terminalVars, Rests
<1> QED BY <1>1, <1>2, <1>3, <1>4, <1>5, <1>6, <1>7, <1>8, <1>9 DEF Next

\* What is inserted is an entry that Writes describes, and ids may leave.
LEMMA InsertsEffect ==
    ASSUME TypeOK, Inserts
    PROVE  \E i \in Ids, entry \in TerminalEntries,
              blks \in [Ids -> BlockerCodes \cup {None}], gone \in SUBSET Ids :
              /\ Writes(i, entry, blks)
              /\ \A x \in Ids : terminal'[x] = IF x \in gone THEN None
                                  ELSE IF x = i THEN entry ELSE terminal[x]
              /\ \A x \in Ids : gate_blockers'[x] = IF x \in gone THEN None ELSE blks[x]
<1>1. PICK i \in Ids, entry \in TerminalEntries, recs \in [Ids -> Keys \cup {None}],
           pkts \in [Ids -> Packets \cup {None}], blks \in [Ids -> BlockerCodes \cup {None}] :
           Writes(i, entry, blks) /\ InsertTerminal(i, entry, recs, pkts, blks)
  BY DEF Inserts
<1>2. PICK gone \in SUBSET Ids : Inserted(gone, i, entry, recs, blks)
  BY <1>1, InsertTerminalEffect
<1>3. /\ \A x \in Ids : terminal'[x] = IF x \in gone THEN None
                            ELSE IF x = i THEN entry ELSE terminal[x]
      /\ \A x \in Ids : gate_blockers'[x] = IF x \in gone THEN None ELSE blks[x]
  BY <1>2 DEF Inserted
<1> WITNESS i \in Ids, entry \in TerminalEntries,
            blks \in [Ids -> BlockerCodes \cup {None}], gone \in SUBSET Ids
<1> QED BY <1>1, <1>3

\* A late finish, a late cancel, a poll and a duplicate submit never change a
\* retained result.
THEOREM ResultsNeverChange == Spec => TerminalNeverChanges
<1>1. LifecycleInv /\ [Next]_vars =>
         [\A i \in Ids : terminal[i] # None => terminal'[i] \in {terminal[i], None}]_vars
  <2> SUFFICES ASSUME LifecycleInv, [Next]_vars
               PROVE  \A i \in Ids : terminal[i] # None =>
                         terminal'[i] \in {terminal[i], None}
    OBVIOUS
  <2>1. CASE Rests
    BY <2>1 DEF Rests
  <2>2. CASE Inserts
    BY <2>2, InsertsEffect DEF LifecycleInv, Writes
  <2> QED BY <2>1, <2>2, StepInserts
<1> QED BY <1>1, Lifecycle, PTL DEF Spec, TerminalNeverChanges

\* finish publishes nothing installable for a request that is stale at that
\* moment, or whose token its own worker's call would have read as set.
THEOREM NothingInstallsLate == Spec => NoLateInstall
<1>1. LifecycleInv /\ [Next]_vars =>
         [\A i \in Ids : BecomesInstallable(i) =>
             /\ ~IsStale(op.request)
             /\ op.ticket = op.request => ~op.late]_vars
  <2> SUFFICES ASSUME LifecycleInv, [Next]_vars, NEW i \in Ids, BecomesInstallable(i)
               PROVE  ~IsStale(op.request) /\ (op.ticket = op.request => ~op.late)
    OBVIOUS
  <2>1. ~Rests
    BY DEF Rests, BecomesInstallable
  <2>2. op.kind = "finish" /\ ~IsStale(op.request)
    BY <2>1, StepInserts, InsertsEffect DEF LifecycleInv, BecomesInstallable, Writes
  <2> QED BY <2>2 DEF LifecycleInv, OpShape
<1> QED BY <1>1, Lifecycle, PTL DEF Spec, NoLateInstall

\* The gate packets and blockers of retained results agree with their states.
GateInv == BlockersExplainRejections /\ InstallablePollAgrees

\* Every step keeps them in agreement: a new result comes with its own blocker,
\* and an evicted one takes its blocker along.
LEMMA GateStep ==
    ASSUME LifecycleInv, GateInv, [Next]_vars
    PROVE  GateInv'
<1>1. CASE Rests
  BY <1>1 DEF Rests, GateInv, BlockersExplainRejections, InstallablePollAgrees, Present,
     GateBlocker
<1>2. CASE Inserts
  <2>1. PICK i \in Ids, entry \in TerminalEntries,
             blks \in [Ids -> BlockerCodes \cup {None}], gone \in SUBSET Ids :
             /\ Writes(i, entry, blks)
             /\ \A x \in Ids : terminal'[x] = IF x \in gone THEN None
                                 ELSE IF x = i THEN entry ELSE terminal[x]
             /\ \A x \in Ids : gate_blockers'[x] = IF x \in gone THEN None ELSE blks[x]
    BY <1>2, InsertsEffect DEF LifecycleInv
  <2>2. entry # None
    BY ConstantsAssumption
  <2>3. gate_blockers[i] = None
    BY <2>1 DEF Writes, GateInv, BlockersExplainRejections, Present
  <2>4. BlockersExplainRejections'
    <3> SUFFICES ASSUME NEW x \in Ids, gate_blockers'[x] # None
                 PROVE  terminal'[x] # None /\ terminal'[x].state = "Rejected"
      BY DEF BlockersExplainRejections, Present
    <3>1. x \notin gone /\ blks[x] # None
      BY <2>1
    <3>2. CASE x = i
      BY <2>1, <2>2, <2>3, <3>1, <3>2 DEF Writes, Explained
    <3>3. CASE x # i
      BY <2>1, <3>1, <3>3 DEF Writes, Explained, GateInv, BlockersExplainRejections, Present
    <3> QED BY <3>2, <3>3
  <2>5. InstallablePollAgrees'
    <3> SUFFICES ASSUME NEW x \in Ids, terminal'[x] # None,
                        terminal'[x].state = "CompiledInstallable"
                 PROVE  GateBlocker(terminal'[x].artifact, terminal'[x].gate) = None
      BY DEF InstallablePollAgrees, Present, GateBlocker
    <3>1. CASE x = i
      BY <2>1, <3>1 DEF Writes, Explained
    <3>2. CASE x # i
      BY <2>1, <3>2 DEF GateInv, InstallablePollAgrees, Present
    <3> QED BY <3>1, <3>2
  <2> QED BY <2>4, <2>5 DEF GateInv
<1> QED BY <1>1, <1>2, StepInserts

\* The agreement holds throughout.
LEMMA GateInvariant == Spec => []GateInv
<1>1. Init => GateInv
  BY DEF Init, GateInv, BlockersExplainRejections, InstallablePollAgrees, Present
<1>2. LifecycleInv /\ GateInv /\ [Next]_vars => GateInv'
  BY GateStep
<1> QED BY <1>1, <1>2, Lifecycle, PTL DEF Spec

\* A recorded gate blocker is that of a retained rejection: eviction and reuse of
\* a request id leave none behind (insert_terminal, finish).
THEOREM BlockersExplain == Spec => []BlockersExplainRejections
<1>1. GateInv => BlockersExplainRejections
  BY DEF GateInv
<1> QED BY <1>1, GateInvariant, PTL

\* A retained installable result passes the recheck of is_installable.
THEOREM PollAgrees == Spec => []InstallablePollAgrees
<1>1. GateInv => InstallablePollAgrees
  BY DEF GateInv
<1> QED BY <1>1, GateInvariant, PTL

-----------------------------------------------------------------------------
(* What is remembered                                                      *)

\* Lists without its bound.
Listing(order, ids) ==
    /\ \A j, h \in 1..Len(order) : order[j] = order[h] => j = h
    /\ {order[j] : j \in 1..Len(order)} = ids

\* The two, for any bound.
LEMMA ListsIs ==
    ASSUME NEW order, NEW ids, NEW max
    PROVE  Lists(order, ids, max) <=> Listing(order, ids) /\ Cardinality(ids) <= max
BY DEF Lists, Listing

\* Appending an id that is not listed (insert_terminal, remember_evicted).
LEMMA ListGrows ==
    ASSUME NEW S, NEW q \in Seq(S), NEW ids, NEW x \in S, x \notin ids, Listing(q, ids)
    PROVE  Append(q, x) \in Seq(S) /\ Listing(Append(q, x), ids \cup {x})
<1> DEFINE w == Append(q, x)
           n == Len(q)
<1>1. /\ n \in Nat /\ w \in Seq(S) /\ Len(w) = n + 1 /\ w[n + 1] = x
      /\ \A j \in 1..n : w[j] = q[j]
  BY SMT
<1>2. \A j, h \in 1..n : q[j] = q[h] => j = h
  BY DEF Listing
<1>3. \A j \in 1..n : w[j] \in ids
  BY <1>1 DEF Listing
<1> HIDE DEF w, n
<1>4. 1..(n + 1) = 1..n \cup {n + 1}
  <2>1. n \in Nat
    BY <1>1
  <2> QED BY <2>1, SMT
<1>5. \A j, h \in 1..Len(w) : w[j] = w[h] => j = h
  <2> SUFFICES ASSUME NEW j \in 1..n \cup {n + 1}, NEW h \in 1..n \cup {n + 1}, w[j] = w[h]
               PROVE  j = h
    BY <1>1, <1>4
  <2>1. CASE j \in 1..n /\ h \in 1..n
    BY <1>1, <1>2, <2>1
  <2>2. CASE j = n + 1 \/ h = n + 1
    BY <1>1, <1>3, <2>2
  <2> QED BY <2>1, <2>2
<1>6. {w[j] : j \in 1..Len(w)} = ids \cup {x}
  <2>1. {w[j] : j \in 1..Len(w)} = {w[j] : j \in 1..n} \cup {x}
    BY <1>1, <1>4
  <2>2. {w[j] : j \in 1..n} = {q[j] : j \in 1..n}
    BY <1>1
  <2> QED BY <2>1, <2>2 DEF Listing, n
<1> QED BY <1>1, <1>5, <1>6 DEF Listing, w

\* Dropping the first of a list (the trimming loops).
LEMMA ListShrinks ==
    ASSUME NEW S, NEW q \in Seq(S), NEW ids, q # <<>>, Listing(q, ids)
    PROVE  /\ Head(q) \in ids /\ Tail(q) \in Seq(S)
           /\ Listing(Tail(q), ids \ {Head(q)})
<1> DEFINE w == Tail(q)
           n == Len(q)
<1>1. /\ n \in Nat /\ 1 \in 1..n /\ w \in Seq(S) /\ Len(w) = n - 1 /\ Head(q) = q[1]
      /\ \A j \in 1..(n - 1) : w[j] = q[j + 1] /\ j + 1 \in 1..n /\ j + 1 # 1
      /\ \A j \in 1..n : j # 1 => j - 1 \in 1..(n - 1) /\ (j - 1) + 1 = j
  BY SMT
<1>2. \A j, h \in 1..n : q[j] = q[h] => j = h
  BY DEF Listing
<1>3. ids = {q[j] : j \in 1..n}
  BY DEF Listing
<1> HIDE DEF w, n
<1>4. \A j, h \in 1..Len(w) : w[j] = w[h] => j = h
  BY <1>1, <1>2, SMT
<1>5. ASSUME NEW y \in ids \ {q[1]}
      PROVE  y \in {w[j] : j \in 1..(n - 1)}
  <2>1. PICK j \in 1..n : y = q[j] /\ j # 1
    BY <1>3
  <2>2. j - 1 \in 1..(n - 1) /\ w[j - 1] = q[(j - 1) + 1] /\ (j - 1) + 1 = j
    BY <1>1, <2>1
  <2> QED BY <2>1, <2>2
<1>6. ASSUME NEW j \in 1..(n - 1)
      PROVE  w[j] \in ids \ {q[1]}
  <2>1. w[j] = q[j + 1] /\ j + 1 \in 1..n /\ j + 1 # 1 /\ 1 \in 1..n
    BY <1>1
  <2> QED BY <1>2, <1>3, <2>1
<1>7. {w[j] : j \in 1..Len(w)} = ids \ {q[1]}
  BY <1>1, <1>5, <1>6, SMT
<1>8. Head(q) \in ids /\ Head(q) = q[1]
  BY <1>1, <1>3
<1> QED BY <1>1, <1>4, <1>7, <1>8 DEF Listing, w

\* One round of a trimming loop is enough when at most one id is too many.
LEMMA Trimmed ==
    ASSUME NEW q \in Seq(Ids), NEW ids \in SUBSET Ids, Listing(q, ids),
           NEW max \in Nat, Cardinality(ids) <= max + 1
    PROVE  IF Cardinality(ids) > max /\ q # <<>>
           THEN Lists(Tail(q), ids \ {Head(q)}, max)
           ELSE Lists(q, ids, max)
<1>1. IsFiniteSet(ids)
  BY ConstantsAssumption, FS_Subset
<1>2. Cardinality(ids) \in Nat
  BY <1>1, FS_CardinalityType
<1>3. CASE Cardinality(ids) > max /\ q # <<>>
  <2>1. Head(q) \in ids /\ Listing(Tail(q), ids \ {Head(q)})
    BY <1>3, ListShrinks
  <2>2. Cardinality(ids \ {Head(q)}) = Cardinality(ids) - 1
    BY <1>1, <2>1, FS_RemoveElement
  <2>3. Cardinality(ids \ {Head(q)}) <= max
    BY <1>2, <2>2, SMT
  <2> QED BY <1>3, <2>1, <2>3, ListsIs
<1>4. CASE ~(Cardinality(ids) > max)
  <2>1. Cardinality(ids) <= max
    BY <1>2, <1>4, SMT
  <2> QED BY <1>4, <2>1, ListsIs
<1>5. CASE q = <<>>
  <2>1. 1..Len(q) = {} /\ 0 <= max
    BY <1>5, SMT
  <2>2. ids = {}
    BY <2>1 DEF Listing
  <2>3. Cardinality(ids) <= max
    BY <2>1, <2>2, FS_EmptySet
  <2> QED BY <1>5, <2>3, ListsIs
<1> QED BY <1>3, <1>4, <1>5

\* remember_evicted, of an id it may already hold.
LEMMA RememberKeeps ==
    ASSUME evicted \in SUBSET Ids, evicted_order \in Seq(Ids),
           Lists(evicted_order, evicted, MaxEvicted),
           NEW e \in Ids, RememberEvicted(e)
    PROVE  Lists(evicted_order, evicted, MaxEvicted)'
<1> DEFINE ids == evicted \cup {e}
           order == IF e \in evicted THEN evicted_order
                                     ELSE Append(evicted_order, e)
<1>0. /\ Listing(evicted_order, evicted) /\ Cardinality(evicted) <= MaxEvicted
      /\ MaxEvicted \in Nat /\ ids \in SUBSET Ids
  BY ListsIs, ConstantsAssumption
<1>1. IsFiniteSet(evicted) /\ Cardinality(evicted) \in Nat
  BY ConstantsAssumption, FS_Subset, FS_CardinalityType
<1>2. order \in Seq(Ids) /\ Listing(order, ids) /\ Cardinality(ids) <= MaxEvicted + 1
  <2>1. CASE e \in evicted
    <3>1. ids = evicted /\ order = evicted_order
      BY <2>1
    <3>2. Cardinality(evicted) <= MaxEvicted + 1
      BY <1>0, <1>1, SMT
    <3> QED BY <1>0, <3>1, <3>2
  <2>2. CASE e \notin evicted
    <3>1. order = Append(evicted_order, e)
      BY <2>2
    <3>2. order \in Seq(Ids) /\ Listing(order, ids)
      BY <1>0, <2>2, <3>1, ListGrows
    <3>3. Cardinality(ids) = Cardinality(evicted) + 1
      BY <1>1, <2>2, FS_AddElement
    <3>4. Cardinality(ids) <= MaxEvicted + 1
      BY <1>0, <1>1, <3>3, SMT
    <3> QED BY <3>2, <3>4
  <2> QED BY <2>1, <2>2
<1>3. IF Cardinality(ids) > MaxEvicted /\ order # <<>>
      THEN evicted' = ids \ {Head(order)} /\ evicted_order' = Tail(order)
      ELSE evicted' = ids /\ evicted_order' = order
  BY DEF RememberEvicted
<1> HIDE DEF ids, order
<1>4. IF Cardinality(ids) > MaxEvicted /\ order # <<>>
      THEN Lists(Tail(order), ids \ {Head(order)}, MaxEvicted)
      ELSE Lists(order, ids, MaxEvicted)
  BY <1>0, <1>2, Trimmed
<1>5. Lists(evicted_order', evicted', MaxEvicted)
  BY <1>3, <1>4
<1> QED BY <1>5 DEF Lists

\* insert_terminal, of an id that has no result yet.
LEMMA InsertKeeps ==
    ASSUME TypeOK, BoundedRetention, NEW i \in Ids, terminal[i] = None,
           NEW entry \in TerminalEntries, NEW recs, NEW pkts, NEW blks,
           InsertTerminal(i, entry, recs, pkts, blks)
    PROVE  BoundedRetention'
<1> DEFINE kept == [terminal EXCEPT ![i] = entry]
           order == Append(terminal_order, i)
           full == OverRetention(kept) /\ order # <<>>
           evicts == full /\ kept[Head(order)] # None
           ids == Present(terminal) \cup {i}
<1>0. /\ terminal \in [Ids -> TerminalEntries \cup {None}]
      /\ terminal_order \in Seq(Ids)
      /\ evicted \in SUBSET Ids /\ evicted_order \in Seq(Ids)
      /\ Listing(terminal_order, Present(terminal))
      /\ Cardinality(Present(terminal)) <= MaxTerminal
      /\ Lists(evicted_order, evicted, MaxEvicted)
      /\ MaxTerminal \in Nat /\ entry # None
  BY ListsIs, ConstantsAssumption DEF TypeOK, BoundedRetention
<1>1. /\ kept \in [Ids -> TerminalEntries \cup {None}]
      /\ \A x \in Ids : kept[x] = IF x = i THEN entry ELSE terminal[x]
  BY <1>0
<1>2. /\ terminal' = IF evicts THEN [kept EXCEPT ![Head(order)] = None] ELSE kept
      /\ terminal_order' = IF full THEN Tail(order) ELSE order
      /\ IF evicts THEN RememberEvicted(Head(order))
                   ELSE UNCHANGED <<evicted, evicted_order>>
  BY DEF InsertTerminal
<1>3. i \notin Present(terminal) /\ Present(terminal) \in SUBSET Ids /\ ids \in SUBSET Ids
  BY DEF Present
<1>4. Present(kept) = ids
  BY <1>0, <1>1 DEF Present
<1>5. order \in Seq(Ids) /\ Listing(order, ids)
  BY <1>0, <1>3, ListGrows
<1>6. Cardinality(ids) <= MaxTerminal + 1
  <2>1. IsFiniteSet(Present(terminal)) /\ Cardinality(Present(terminal)) \in Nat
    BY <1>3, ConstantsAssumption, FS_Subset, FS_CardinalityType
  <2>2. Cardinality(ids) = Cardinality(Present(terminal)) + 1
    BY <1>3, <2>1, FS_AddElement
  <2> QED BY <1>0, <2>1, <2>2, SMT
<1>7. IF Cardinality(ids) > MaxTerminal /\ order # <<>>
      THEN Lists(Tail(order), ids \ {Head(order)}, MaxTerminal)
      ELSE Lists(order, ids, MaxTerminal)
  BY <1>0, <1>3, <1>5, <1>6, Trimmed
<1>8. full <=> Cardinality(ids) > MaxTerminal /\ order # <<>>
  BY <1>4 DEF OverRetention
<1>9. full => Head(order) \in ids /\ evicts
  <2>1. full => Head(order) \in ids
    BY <1>5, <1>8, ListShrinks
  <2> QED BY <1>4, <2>1 DEF Present
<1> HIDE DEF kept, order, full, evicts, ids
<1>10. CASE full
  <2>1. /\ terminal' = [kept EXCEPT ![Head(order)] = None]
        /\ terminal_order' = Tail(order) /\ RememberEvicted(Head(order))
        /\ Head(order) \in Ids
    BY <1>2, <1>3, <1>9, <1>10
  <2>2. \A x \in Ids : terminal'[x] = IF x = Head(order) THEN None ELSE kept[x]
    BY <1>1, <2>1
  <2>3. Present(terminal') = ids \ {Head(order)}
    BY <1>4, <2>2 DEF Present
  <2>4. Lists(terminal_order', Present(terminal'), MaxTerminal)
    BY <1>7, <1>8, <1>10, <2>1, <2>3
  <2>5. Lists(evicted_order, evicted, MaxEvicted)'
    BY <1>0, <2>1, RememberKeeps
  <2> QED BY <2>4, <2>5 DEF BoundedRetention, Lists, Present
<1>11. CASE ~full
  <2>1. /\ terminal' = kept /\ terminal_order' = order
        /\ evicted' = evicted /\ evicted_order' = evicted_order
    BY <1>2, <1>11 DEF evicts
  <2>2. Lists(terminal_order', Present(terminal'), MaxTerminal)
    BY <1>4, <1>7, <1>8, <1>11, <2>1
  <2>3. Lists(evicted_order', evicted', MaxEvicted)
    BY <1>0, <2>1
  <2> QED BY <2>2, <2>3 DEF BoundedRetention, Lists, Present
<1> QED BY <1>10, <1>11

\* Every step ends at most one request, which has no result yet.
LEMMA RetentionStep ==
    ASSUME LifecycleInv, BoundedRetention, [Next]_vars
    PROVE  BoundedRetention'
<1>1. CASE Rests
  <2>1. /\ terminal' = terminal /\ terminal_order' = terminal_order
        /\ evicted' = evicted /\ evicted_order' = evicted_order
    BY <1>1 DEF Rests
  <2>2. /\ Lists(terminal_order', Present(terminal'), MaxTerminal)
        /\ Lists(evicted_order', evicted', MaxEvicted)
    BY <2>1 DEF BoundedRetention
  <2> QED BY <2>2 DEF BoundedRetention, Lists, Present
<1>2. CASE Inserts
  <2>1. PICK i \in Ids, entry \in TerminalEntries, recs \in [Ids -> Keys \cup {None}],
             pkts \in [Ids -> Packets \cup {None}],
             blks \in [Ids -> BlockerCodes \cup {None}] :
             Writes(i, entry, blks) /\ InsertTerminal(i, entry, recs, pkts, blks)
    BY <1>2 DEF Inserts
  <2>2. TypeOK /\ terminal[i] = None
    BY <2>1 DEF LifecycleInv, Writes
  <2> QED BY <2>1, <2>2, InsertKeeps
<1> QED BY <1>1, <1>2, StepInserts

\* insert_terminal keeps the results within max_terminal_retained and
\* remember_evicted the evicted ids within max_evicted_retained, each listed once
\* in its order and nothing else listed, through any reuse of evicted ids: the
\* one round of each trimming loop that the model takes is all the code can take.
THEOREM RetentionBounded == Spec => []BoundedRetention
<1>1. Init => BoundedRetention
  <2> SUFFICES ASSUME Init PROVE BoundedRetention
    OBVIOUS
  <2>1. /\ terminal_order = <<>> /\ Present(terminal) = {}
        /\ evicted_order = <<>> /\ evicted = {}
    BY DEF Init, Present
  <2>2. 1..Len(<<>>) = {} /\ 0 <= MaxTerminal /\ 0 <= MaxEvicted
    BY ConstantsAssumption, SMT
  <2> QED BY <2>1, <2>2, FS_EmptySet DEF BoundedRetention, Lists
<1>2. LifecycleInv /\ BoundedRetention /\ [Next]_vars => BoundedRetention'
  BY RetentionStep
<1> QED BY <1>1, <1>2, Lifecycle, PTL DEF Spec
=============================================================================
