-------------------------- MODULE SolverHostProofs --------------------------
(***************************************************************************)
(* The compile cache answers with providers of the requested formula, and  *)
(* the host's kernel calls run over the formula their session was opened   *)
(* for, for every set of formulas, hash function and capacity.             *)
(***************************************************************************)
EXTENDS SolverHost, FiniteSetTheorems, TLAPS

\* Most steps are first-order; those that count or compare name SMT.
USE Zenon

\* id names a provider that was built for a formula with key k.
BuiltFor(id, k) == id \in 1..Len(heap) /\ FormulaKey(heap[id]) = k

\* The inductive invariant of the cache: what it holds, and what it answers,
\* was built for the key it is filed or asked under.
CacheInv ==
    /\ heap \in Seq(Formulas)
    /\ \A h \in Hashes : entries[h] # None => BuiltFor(entries[h].provider, entries[h].key)
    /\ call.at \in {"build", "done", "failed"} => call.formula \in Formulas
    /\ call.at = "done" => BuiltFor(call.provider, FormulaKey(call.formula))

\* Appending a provider changes no other one (Build).
LEMMA HeapGrows ==
    ASSUME heap \in Seq(Formulas), NEW p \in Formulas, heap' = Append(heap, p)
    PROVE  /\ heap' \in Seq(Formulas) /\ Len(heap') = Len(heap) + 1
           /\ heap'[Len(heap) + 1] = p
           /\ \A id, k : BuiltFor(id, k) => BuiltFor(id, k)'
BY SMT DEF BuiltFor

\* Every formula key has its bucket.
LEMMA BucketOf == \A f \in Formulas : Hash[FormulaKey(f)] \in Hashes
BY DEF Hashes, FormulaKeys

-----------------------------------------------------------------------------
(* The cache                                                               *)

\* A hit in memory answers with what the bucket was filled for (Request).
LEMMA RequestStep ==
    ASSUME CacheInv, NEW f \in Formulas, Request(f)
    PROVE  CacheInv'
<1> DEFINE k == FormulaKey(f)
<1>1. CASE Hit(k)
  <2>1. BuiltFor(entries[Hash[k]].provider, k)
    BY <1>1, BucketOf DEF Hit, CacheInv
  <2>2. call'.at = "done" /\ call'.formula = f /\ call'.provider = entries[Hash[k]].provider
    BY <1>1, SMT DEF Request
  <2> QED
    BY <2>1, <2>2 DEF Request, CacheInv, BuiltFor
<1>2. CASE ~Hit(k)
  <2>1. call'.at = "build" /\ call'.formula = f
    BY <1>2, SMT DEF Request
  <2> QED
    BY <2>1 DEF Request, CacheInv, BuiltFor
<1> QED
  BY <1>1, <1>2

\* insert_in_memory files the new provider under the key it was built for and
\* otherwise only removes entries (Build).
LEMMA BuildStep ==
    ASSUME CacheInv, Build
    PROVE  CacheInv'
<1> DEFINE f == call.formula
           k == FormulaKey(f)
           id == Len(heap) + 1
           p == f
<1>1. f \in Formulas /\ p \in Formulas /\ heap \in Seq(Formulas)
  BY DEF Build, CacheInv
<1>2. heap' = Append(heap, p) /\ InsertInMemory(k, id)
  BY DEF Build
<1>3. /\ heap' \in Seq(Formulas) /\ Len(heap') = id /\ heap'[id] = p
      /\ \A i, j : BuiltFor(i, j) => BuiltFor(i, j)'
  BY <1>1, <1>2, HeapGrows
<1>4. id \in 1..id
  BY <1>1, SMT
<1>5. id \in 1..Len(heap') /\ FormulaKey(heap'[id]) = k
  BY <1>3, <1>4, SMT
<1>6. \A h \in Hashes : entries'[h] # None =>
         \/ entries'[h] = [key |-> k, provider |-> id]
         \/ entries'[h] = entries[h]
  BY <1>2 DEF InsertInMemory
<1>7. ASSUME NEW h \in Hashes, entries'[h] # None
      PROVE  entries'[h].provider \in 1..Len(heap')
             /\ FormulaKey(heap'[entries'[h].provider]) = entries'[h].key
  <2>1. CASE entries'[h] = [key |-> k, provider |-> id]
    BY <2>1, <1>5, SMT
  <2>2. CASE entries'[h] = entries[h]
    <3>1. BuiltFor(entries[h].provider, entries[h].key)
      BY <2>2, <1>7 DEF CacheInv
    <3> QED
      BY <3>1, <2>2, <1>3 DEF BuiltFor
  <2> QED
    BY <2>1, <2>2, <1>6, <1>7
<1>8. call'.at = "done" /\ call'.formula = f /\ call'.provider = id
  BY DEF Build
<1> QED
  BY <1>1, <1>3, <1>5, <1>7, <1>8 DEF CacheInv, BuiltFor

\* The other steps of the cache answer nothing and file nothing.
LEMMA QuietStep ==
    ASSUME CacheInv,
           BuildFails \/ Return \/ ClearCache \/ UNCHANGED cacheVars
           \/ \E b \in BOOLEAN : SetDiskBacked(b)
    PROVE  CacheInv'
<1>1. CASE BuildFails
  BY <1>1 DEF BuildFails, CacheInv, BuiltFor
<1>2. CASE Return
  BY <1>2 DEF Return, CacheInv, BuiltFor
<1>3. CASE ClearCache
  BY <1>3 DEF ClearCache, CacheInv, BuiltFor
<1>4. CASE UNCHANGED cacheVars
  BY <1>4 DEF cacheVars, CacheInv, BuiltFor
<1>5. CASE \E b \in BOOLEAN : SetDiskBacked(b)
  BY <1>5 DEF SetDiskBacked, CacheInv, BuiltFor
<1> QED
  BY <1>1, <1>2, <1>3, <1>4, <1>5

-----------------------------------------------------------------------------
(* The host                                                                *)

\* The inductive invariant of the host: a compile in progress is for the solve in
\* progress, and a session's provider and the kernel calls on it are of the formula
\* whose translation table it holds.
HostInv ==
    /\ CacheInv
    /\ solver \in Formulas \cup {None}
    /\ InPropagate => solver # None
    /\ call.at # "idle" => InPropagate /\ session = None /\ call.formula = solver
    /\ session # None /\ session.provider # None =>
          BuiltFor(session.provider, FormulaKey(session.translation))
    /\ session # None =>
          \A r \in runs : BuiltFor(r.provider, FormulaKey(session.translation))
    /\ InPropagate /\ session = None => runs = {}

\* Kernel calls on the session's provider keep the invariant (Replace, Compare).
LEMMA KernelStep ==
    ASSUME HostInv, InPropagate, session # None,
           UNCHANGED cacheVars, UNCHANGED <<solver, session>>,
           runs' = runs \/ \A r \in runs' : session.provider # None /\ r.provider = session.provider
    PROVE  HostInv'
<1>1. CacheInv'
  BY QuietStep DEF HostInv
<1>2. call.at = "idle" /\ solver # None
  BY DEF HostInv
<1> QED
  BY <1>1, <1>2 DEF HostInv, BuiltFor, cacheVars

\* Each step of the host keeps the invariant.
LEMMA HostStep ==
    ASSUME HostInv, [HostNext]_<<cacheVars, hostVars>>
    PROVE  HostInv'
<1> USE DEF hostVars
<1>1. ASSUME NEW f \in Formulas, StartSolve(f) PROVE HostInv'
  <2>1. CacheInv'
    BY <1>1, QuietStep DEF StartSolve, HostInv
  <2> QED
    BY <1>1, <2>1 DEF StartSolve, HostInv, InPropagate, Out, cacheVars, BuiltFor
<1>2. CASE EndSolve
  <2>1. CacheInv'
    BY <1>2, QuietStep DEF EndSolve, HostInv
  <2> QED
    BY <1>2, <2>1 DEF EndSolve, HostInv, InPropagate, Out, cacheVars, BuiltFor
<1>3. CASE Reset
  <2>1. CacheInv'
    BY <1>3, QuietStep DEF Reset, HostInv
  <2> QED
    BY <1>3, <2>1 DEF Reset, HostInv, InPropagate, Out, cacheVars, BuiltFor
<1>4. CASE ResetCaches
  <2>1. CacheInv'
    BY <1>4, QuietStep DEF ResetCaches, HostInv
  <2> QED
    BY <1>4, <2>1 DEF ResetCaches, ClearCache, HostInv, InPropagate, Out, BuiltFor
<1>11. ASSUME NEW b \in BOOLEAN, ConfigureCache(b) PROVE HostInv'
  <2>1. CacheInv'
    BY <1>11, QuietStep DEF ConfigureCache, HostInv
  <2> QED
    BY <1>11, <2>1 DEF ConfigureCache, SetDiskBacked, HostInv, InPropagate, Out, BuiltFor
<1>5. ASSUME NEW a \in BOOLEAN, NEW n \in BOOLEAN, NEW o \in BOOLEAN, Propagate(a, n, o)
      PROVE  HostInv'
  <2>1. CacheInv'
    BY <1>5, QuietStep DEF Propagate, HostInv
  <2> QED
    BY <1>5, <2>1 DEF Propagate, HostInv, InPropagate, Out, cacheVars, BuiltFor
<1>6. CASE Compile
  <2>1. solver \in Formulas
    BY <1>6 DEF Compile, HostInv
  <2>2. CacheInv'
    BY <1>6, <2>1, RequestStep, BuildStep, QuietStep DEF Compile, HostInv
  <2>3. \A id, k : BuiltFor(id, k) => BuiltFor(id, k)'
    <3>1. CASE Build
      <4>1. heap \in Seq(Formulas) /\ call.formula \in Formulas
        BY <3>1 DEF HostInv, CacheInv, Build
      <4>2. heap' = Append(heap, call.formula)
        BY <3>1 DEF Build
      <4> QED
        BY <4>1, <4>2, HeapGrows
    <3>2. CASE UNCHANGED heap
      BY <3>2 DEF BuiltFor
    <3> QED
      BY <1>6, <3>1, <3>2 DEF Compile, Request, BuildFails
  <2>4. call'.formula = solver
    BY <1>6, SMT DEF Compile, Request, Build, BuildFails, HostInv
  <2> QED
    BY <1>6, <2>2, <2>3, <2>4 DEF Compile, HostInv, InPropagate
<1>7. CASE OpenSession
  <2>1. CacheInv'
    BY <1>7, QuietStep DEF OpenSession, HostInv
  <2>2. call'.at = "idle" /\ UNCHANGED <<heap, solver, stage, runs>>
    BY <1>7 DEF OpenSession, Return
  <2>3. session'.provider # None => BuiltFor(session'.provider, FormulaKey(solver))
    BY <1>7 DEF OpenSession, HostInv, CacheInv
  <2> QED
    BY <1>7, <2>1, <2>2, <2>3 DEF OpenSession, HostInv, InPropagate, BuiltFor
<1>8. CASE Replace
  <2>1. runs' = runs \/ \A r \in runs' : session.provider # None /\ r.provider = session.provider
    BY <1>8, SMT DEF Replace, KernelRun, SupportsPrimary
  <2> QED
    BY <1>8, <2>1, KernelStep DEF Replace, InPropagate
<1>9. CASE Compare
  <2>1. \A r \in runs' : session.provider # None /\ r.provider = session.provider
    BY <1>9, SMT DEF Compare, KernelRun, RunsShadow, RunsPrimary, SupportsPrimary
  <2> QED
    BY <1>9, <2>1, KernelStep DEF Compare, InPropagate
<1>10. CASE UNCHANGED <<cacheVars, hostVars>>
  <2>1. CacheInv'
    BY <1>10, QuietStep DEF HostInv
  <2> QED
    BY <1>10, <2>1 DEF HostInv, InPropagate, cacheVars, BuiltFor
<1> QED
  BY <1>1, <1>2, <1>3, <1>4, <1>5, <1>6, <1>7, <1>8, <1>9, <1>10, <1>11
  DEF HostNext

\* The invariant holds of every host.
LEMMA HostInvariant == HostSpec => []HostInv
<1>1. HostInit => HostInv
  BY SMT DEF HostInit, CacheInit, HostInv, CacheInv, InPropagate, Out
<1>2. HostInv /\ [HostNext]_<<cacheVars, hostVars>> => HostInv'
  BY HostStep
<1> QED
  BY <1>1, <1>2, PTL DEF HostSpec

\* The cache answers every call with a provider of the requested formula, whatever
\* collides, is evicted or cleared (get_or_compile_with_buffer_disk).
THEOREM CacheServes == HostSpec => []ServesRequestedFormula
<1>1. HostInv => ServesRequestedFormula
  BY DEF HostInv, CacheInv, ServesRequestedFormula, BuiltFor
<1> QED
  BY <1>1, HostInvariant, PTL

\* Every kernel call runs over the clauses of the formula whose translation table the
\* session holds, whatever shared its bucket in the cache, was evicted, cleared or
\* failed to compile (trust_cg_propagate).
THEOREM KernelRuns == HostSpec => []KernelRunsSessionFormula
<1>1. HostInv => KernelRunsSessionFormula
  BY DEF HostInv, KernelRunsSessionFormula, BuiltFor
<1> QED
  BY <1>1, HostInvariant, PTL

-----------------------------------------------------------------------------
(* Types                                                                   *)

\* What the cache files under a bucket, when the heap has n providers.
Filed(n) == [key : FormulaKeys, provider : 1..n]

Answers(n) ==
    [at : {"idle"}] \cup [at : {"build"}, formula : Formulas, text : DiskTexts]
    \cup [at : {"done"}, formula : Formulas, provider : 1..n, stored : BOOLEAN]
    \cup [at : {"failed"}, formula : Formulas]

\* The providers of a larger heap include those of a smaller one (Build).
LEMMA MoreProviders ==
    ASSUME NEW n \in Nat, NEW m \in Nat, n <= m
    PROVE  1..n \subseteq 1..m /\ Filed(n) \subseteq Filed(m) /\ Answers(n) \subseteq Answers(m)
<1>1. 1..n \subseteq 1..m
  BY SMT
<1>2. Filed(n) \subseteq Filed(m)
  BY <1>1 DEF Filed
<1>3. [at : {"done"}, formula : Formulas, provider : 1..n, stored : BOOLEAN] \subseteq
      [at : {"done"}, formula : Formulas, provider : 1..m, stored : BOOLEAN]
  BY <1>1
<1> QED
  BY <1>1, <1>2, <1>3 DEF Answers

\* CacheTypeOK in these terms.
CacheParts ==
    /\ entries \in [Hashes -> Filed(Len(heap)) \cup {None}]
    /\ order \in Seq(Hashes)
    /\ disk_backed \in BOOLEAN
    /\ heap \in Seq(Formulas)
    /\ call \in Answers(Len(heap))

\* The two say the same, before and after a step.
LEMMA CacheTypes == (CacheTypeOK <=> CacheParts) /\ (CacheTypeOK' <=> CacheParts')
BY DEF CacheTypeOK, CacheParts, Filed, Answers

\* A lookup answers with a provider of the heap or begins a build.
LEMMA RequestTypes ==
    ASSUME CacheTypeOK, NEW f \in Formulas, Request(f)
    PROVE  CacheTypeOK'
<1> DEFINE k == FormulaKey(f)
<1>1. UNCHANGED <<entries, order, disk_backed, heap>>
  BY DEF Request
<1>2. call' \in Answers(Len(heap))
  <2>1. CASE Hit(k)
    <3>1. entries[Hash[k]] \in Filed(Len(heap))
      BY <2>1, BucketOf, CacheTypes DEF Hit, CacheParts
    <3>2. entries[Hash[k]].provider \in 1..Len(heap)
      BY <3>1 DEF Filed
    <3>3. call' = [at |-> "done", formula |-> f,
                   provider |-> entries[Hash[k]].provider, stored |-> FALSE]
      BY <2>1 DEF Request
    <3> QED
      BY <3>2, <3>3 DEF Answers
  <2>2. CASE ~Hit(k)
    <3>1. PICK t \in DiskTexts : call' = [at |-> "build", formula |-> f, text |-> t]
      BY <2>2 DEF Request, DiskTexts
    <3> QED
      BY <3>1 DEF Answers
  <2> QED
    BY <2>1, <2>2
<1> QED
  BY <1>1, <1>2, CacheTypes DEF CacheParts

\* OrderTracksEntries, with the order free of duplicates in place of a count.
OrderInv ==
    /\ Len(order) <= MaxEntries
    /\ \A i, j \in 1..Len(order) : order[i] = order[j] => i = j
    /\ {order[i] : i \in 1..Len(order)} = Held

\* OrderInv is about the buckets and their order only.
LEMMA OrderKept == OrderInv /\ UNCHANGED <<entries, order>> => OrderInv'
<1> SUFFICES ASSUME OrderInv, entries' = entries, order' = order
             PROVE  OrderInv'
  OBVIOUS
<1>1. Held' = Held
  BY DEF Held
<1> QED
  BY <1>1 DEF OrderInv

\* What the eviction loop of insert_in_memory pops: nothing while the cache has
\* room, and exactly one hash when it is full.
EvictsOne == Evictions = IF Len(order) < MaxEntries THEN 0 ELSE 1

\* insert_in_memory, by the bucket it fills: an occupied one keeps its place in
\* the order, a free one goes last, and the first leaves if the cache was full.
LEMMA InsertCases ==
    ASSUME CacheTypeOK, OrderInv, EvictsOne, NEW k \in FormulaKeys, NEW id,
           InsertInMemory(k, id)
    PROVE  \/ /\ Hash[k] \in Held /\ order' = order
              /\ entries' = [g \in Hashes |-> IF g = Hash[k] THEN [key |-> k, provider |-> id]
                                              ELSE entries[g]]
           \/ /\ Hash[k] \notin Held /\ Len(order) < MaxEntries
              /\ order' = Append(order, Hash[k])
              /\ entries' = [g \in Hashes |-> IF g = Hash[k] THEN [key |-> k, provider |-> id]
                                              ELSE entries[g]]
           \/ /\ Hash[k] \notin Held /\ Len(order) = MaxEntries
              /\ order' = Append(Tail(order), Hash[k])
              /\ entries' = [g \in Hashes |-> IF g = Hash[k] THEN [key |-> k, provider |-> id]
                                              ELSE IF g = order[1] THEN None ELSE entries[g]]
<1> DEFINE h == Hash[k]
           new == [key |-> k, provider |-> id]
<1>1. h \in Hashes /\ order \in Seq(Hashes) /\ Len(order) \in Nat /\ MaxEntries \in Nat
      /\ MaxEntries # 0 /\ Len(order) <= MaxEntries
  BY CacheAssumption, SMT DEF CacheTypeOK, Hashes, OrderInv
<1>2. Oldest(0) = {}
  BY SMT DEF Oldest
<1>3. CASE entries[h] # None
  <2>1. order' = order
        /\ entries' = [g \in Hashes |-> IF g = h THEN new
                                        ELSE IF g \in Oldest(0) THEN None ELSE entries[g]]
    BY <1>3 DEF InsertInMemory
  <2> HIDE DEF new
  <2>2. entries' = [g \in Hashes |-> IF g = h THEN new ELSE entries[g]]
    BY <2>1, <1>2
  <2> QED
    BY <1>1, <1>3, <2>1, <2>2 DEF Held, new
<1>4. CASE entries[h] = None /\ Len(order) < MaxEntries
  <2>1. Evictions = 0
    BY <1>4 DEF EvictsOne
  <2>2. order' = Append(SubSeq(order, 0 + 1, Len(order)), h)
        /\ entries' = [g \in Hashes |-> IF g = h THEN new
                                        ELSE IF g \in Oldest(0) THEN None ELSE entries[g]]
    BY <1>4, <2>1 DEF InsertInMemory
  <2> HIDE DEF new
  <2>3. entries' = [g \in Hashes |-> IF g = h THEN new ELSE entries[g]]
    BY <2>2, <1>2
  <2>4. SubSeq(order, 0 + 1, Len(order)) = order
    BY <1>1, SMT
  <2> QED
    BY <1>4, <2>2, <2>3, <2>4 DEF Held, new
<1>5. CASE entries[h] = None /\ ~(Len(order) < MaxEntries)
  <2>1. Len(order) = MaxEntries /\ order # <<>>
    BY <1>1, <1>5, SMT
  <2>2. Evictions = 1
    BY <1>5 DEF EvictsOne
  <2>3. order' = Append(SubSeq(order, 1 + 1, Len(order)), h)
        /\ entries' = [g \in Hashes |-> IF g = h THEN new
                                        ELSE IF g \in Oldest(1) THEN None ELSE entries[g]]
    BY <1>5, <2>2 DEF InsertInMemory
  <2> HIDE DEF new
  <2>4. Oldest(1) = {order[1]}
    BY SMT DEF Oldest
  <2>5. entries' = [g \in Hashes |-> IF g = h THEN new
                                     ELSE IF g = order[1] THEN None ELSE entries[g]]
    BY <2>3, <2>4
  <2>6. SubSeq(order, 1 + 1, Len(order)) = Tail(order)
    BY <1>1, <2>1, SMT
  <2> QED
    BY <1>5, <2>1, <2>3, <2>5, <2>6 DEF Held, new
<1> QED
  BY <1>3, <1>4, <1>5

\* insert_in_memory keeps the order in step with the buckets.
LEMMA InsertOrder ==
    ASSUME CacheTypeOK, OrderInv, EvictsOne, NEW k \in FormulaKeys, NEW id \in Nat,
           InsertInMemory(k, id)
    PROVE  order' \in Seq(Hashes) /\ OrderInv'
<1> DEFINE h == Hash[k]
           new == [key |-> k, provider |-> id]
<1>1. /\ h \in Hashes /\ order \in Seq(Hashes) /\ Len(order) \in Nat
      /\ MaxEntries \in Nat /\ MaxEntries # 0 /\ Len(order) <= MaxEntries
  BY CacheAssumption, SMT DEF CacheTypeOK, Hashes, OrderInv
<1>2. new # None
  <2>1. new \in [key : FormulaKeys, provider : Nat]
    OBVIOUS
  <2> QED
    BY <2>1, CacheAssumption
<1>3. /\ \A i, j \in 1..Len(order) : order[i] = order[j] => i = j
      /\ {order[i] : i \in 1..Len(order)} = Held
  BY DEF OrderInv
<1>4. CASE /\ h \in Held /\ order' = order
           /\ entries' = [g \in Hashes |-> IF g = h THEN new ELSE entries[g]]
  <2> HIDE DEF new
  <2>1. Held' = Held
    BY <1>1, <1>2, <1>4 DEF Held
  <2> QED
    BY <1>1, <1>3, <1>4, <2>1 DEF OrderInv
<1>5. CASE /\ h \notin Held /\ Len(order) < MaxEntries /\ order' = Append(order, h)
           /\ entries' = [g \in Hashes |-> IF g = h THEN new ELSE entries[g]]
  <2> HIDE DEF new
  <2>1. Held' = Held \cup {h}
    BY <1>1, <1>2, <1>5 DEF Held
  <2> HIDE DEF h
  <2>2. /\ order' \in Seq(Hashes) /\ Len(order') = Len(order) + 1
        /\ \A i \in 1..Len(order) : order'[i] = order[i]
        /\ order'[Len(order) + 1] = h
    BY <1>1, <1>5, SMT
  <2>3. Len(order') <= MaxEntries
    BY <1>1, <1>5, <2>2, SMT
  <2>4. \A i, j \in 1..Len(order') : order'[i] = order'[j] => i = j
    BY <1>1, <1>3, <1>5, <2>2, SMT
  <2>5. {order'[i] : i \in 1..Len(order')} = Held'
    <3>1. 1..Len(order') = 1..Len(order) \cup {Len(order) + 1}
      BY <1>1, <2>2, SMT
    <3>2. {order'[i] : i \in 1..Len(order')} = {order'[i] : i \in 1..Len(order)} \cup {h}
      BY <3>1, <2>2
    <3>3. {order'[i] : i \in 1..Len(order)} = {order[i] : i \in 1..Len(order)}
      BY <2>2
    <3> QED
      BY <3>2, <3>3, <1>3, <2>1
  <2> QED
    BY <2>2, <2>3, <2>4, <2>5 DEF OrderInv
<1>6. CASE /\ h \notin Held /\ Len(order) = MaxEntries /\ order' = Append(Tail(order), h)
           /\ entries' = [g \in Hashes |-> IF g = h THEN new
                                           ELSE IF g = order[1] THEN None ELSE entries[g]]
  <2> HIDE DEF new
  <2>1. 1 \in 1..Len(order) /\ order # <<>>
    BY <1>1, <1>6, SMT
  <2>2. Held' = (Held \ {order[1]}) \cup {h}
    BY <1>1, <1>2, <1>6 DEF Held
  <2> HIDE DEF h
  <2>3. /\ order' \in Seq(Hashes) /\ Len(order') = Len(order)
        /\ \A i \in 1..(Len(order) - 1) : order'[i] = order[i + 1]
        /\ order'[Len(order)] = h
    BY <1>1, <1>6, <2>1, SMT
  <2>4. \A i \in 1..(Len(order) - 1) : i + 1 \in 1..Len(order) /\ order[i + 1] # order[1]
    BY <1>1, <1>3, <2>1, SMT
  <2>5. \A i, j \in 1..Len(order') : order'[i] = order'[j] => i = j
    <3>1. \A i \in 1..(Len(order) - 1) : order'[i] # h
      BY <1>3, <1>6, <2>3, <2>4, SMT
    <3>2. \A i, j \in 1..(Len(order) - 1) : order'[i] = order'[j] => i + 1 = j + 1
      BY <1>3, <2>3, <2>4, SMT
    <3> SUFFICES ASSUME NEW i \in 1..Len(order'), NEW j \in 1..Len(order'),
                        order'[i] = order'[j]
                 PROVE  i = j
      OBVIOUS
    <3>3. /\ i \in Int /\ j \in Int
          /\ i = Len(order) \/ i \in 1..(Len(order) - 1)
          /\ j = Len(order) \/ j \in 1..(Len(order) - 1)
      BY <1>1, <2>3, SMT
    <3>4. i = j \/ i + 1 = j + 1
      BY <3>1, <3>2, <3>3, <2>3
    <3> QED
      BY <3>3, <3>4, SMT
  <2>6. {order'[i] : i \in 1..Len(order')} = Held'
    <3>1. ASSUME NEW x \in Held'
          PROVE  \E i \in 1..Len(order') : x = order'[i]
      <4>1. CASE x = h
        BY <4>1, <2>1, <2>3, <1>1, SMT
      <4>2. CASE x # h
        <5>1. PICK j \in 1..Len(order) : x = order[j]
          BY <3>1, <4>2, <2>2, <1>3
        <5>2. j # 1
          BY <3>1, <4>2, <2>2, <5>1
        <5>3. j - 1 \in 1..(Len(order) - 1) /\ j - 1 \in 1..Len(order) /\ (j - 1) + 1 = j
          BY <5>2, <1>1, SMT
        <5> QED
          BY <5>1, <5>3, <2>3
      <4> QED
        BY <4>1, <4>2
    <3>2. ASSUME NEW i \in 1..Len(order')
          PROVE  order'[i] \in Held'
      <4>1. CASE i = Len(order)
        BY <4>1, <2>2, <2>3
      <4>2. CASE i # Len(order)
        <5>1. i \in 1..(Len(order) - 1)
          BY <4>2, <1>1, <2>3, SMT
        <5>2. order'[i] = order[i + 1] /\ order[i + 1] # order[1] /\ i + 1 \in 1..Len(order)
          BY <5>1, <2>3, <2>4
        <5>3. order[i + 1] \in Held
          BY <5>2, <1>3
        <5> QED
          BY <5>2, <5>3, <2>2
      <4> QED
        BY <4>1, <4>2
    <3> QED
      BY <3>1, <3>2
  <2> QED
    BY <1>1, <1>6, <2>3, <2>5, <2>6 DEF OrderInv
<1> HIDE DEF new
<1> QED
  BY <1>4, <1>5, <1>6, InsertCases DEF new

\* A build adds a provider, files it and answers with it.
LEMMA BuildTypes ==
    ASSUME CacheTypeOK, OrderInv, EvictsOne, Build
    PROVE  CacheTypeOK' /\ OrderInv' /\ Len(heap) \in Nat /\ Len(heap') = Len(heap) + 1
<1> DEFINE f == call.formula
           k == FormulaKey(f)
           id == Len(heap) + 1
           p == f
<1>1. CacheParts
  BY CacheTypes
<1>2. f \in Formulas /\ call.at = "build"
  BY <1>1 DEF CacheParts, Answers, Build
<1>3. k \in FormulaKeys /\ p \in Formulas
  BY <1>2 DEF FormulaKeys
<1>4. /\ heap' = Append(heap, p) /\ InsertInMemory(k, id) /\ disk_backed' = disk_backed
      /\ call' = [at |-> "done", formula |-> f, provider |-> id,
                  stored |-> disk_backed /\ call.text # "fresh"]
  BY DEF Build
<1> HIDE DEF p, k, f
<1>5. /\ heap' \in Seq(Formulas) /\ Len(heap') = id /\ Len(heap) \in Nat /\ id \in Nat
      /\ id \in 1..id /\ Len(heap) <= id
  BY <1>1, <1>3, <1>4, SMT DEF CacheParts
<1> HIDE DEF id
<1>6. order' \in Seq(Hashes) /\ OrderInv'
  BY <1>3, <1>4, <1>5, InsertOrder
<1>7. call' \in Answers(id)
  <2> DEFINE stored == disk_backed /\ call.text # "fresh"
  <2>1. stored \in BOOLEAN
    OBVIOUS
  <2> HIDE DEF stored
  <2>2. [at |-> "done", formula |-> f, provider |-> id, stored |-> stored] \in Answers(id)
    BY <1>2, <1>5, <2>1 DEF Answers
  <2> QED
    BY <1>4, <2>2 DEF stored
<1>8. entries' \in [Hashes -> Filed(id) \cup {None}]
  <2> DEFINE new == [key |-> k, provider |-> id]
             n == IF entries[Hash[k]] # None THEN 0 ELSE Evictions
  <2>1. new \in Filed(id)
    BY <1>3, <1>5 DEF Filed
  <2>2. Filed(Len(heap)) \subseteq Filed(id)
    BY <1>5, MoreProviders
  <2>3. entries' = [g \in Hashes |-> IF g = Hash[k] THEN new
                                     ELSE IF g \in Oldest(n) THEN None ELSE entries[g]]
    BY <1>4 DEF InsertInMemory
  <2> HIDE DEF new, n
  <2>4. \A g \in Hashes : entries[g] \in Filed(id) \cup {None}
    BY <1>1, <2>2 DEF CacheParts
  <2> QED
    BY <2>1, <2>3, <2>4
<1>9. disk_backed' \in BOOLEAN
  BY <1>1, <1>4 DEF CacheParts
<1> QED
  BY <1>5, <1>6, <1>7, <1>8, <1>9, CacheTypes DEF CacheParts, id

\* The other steps of the cache leave the heap alone and keep the types.
LEMMA QuietTypes ==
    ASSUME CacheTypeOK, OrderInv,
           BuildFails \/ Return \/ ClearCache \/ UNCHANGED cacheVars
           \/ (\E b \in BOOLEAN : SetDiskBacked(b)) \/ (\E f \in Formulas : Request(f))
    PROVE  CacheTypeOK' /\ OrderInv' /\ heap' = heap
<1>1. CacheParts
  BY CacheTypes
<1>2. UNCHANGED <<entries, order>> => OrderInv'
  BY OrderKept
<1>3. CASE BuildFails
  <2>1. call.formula \in Formulas
    BY <1>1, <1>3 DEF BuildFails, CacheParts, Answers
  <2>2. call' \in Answers(Len(heap))
    BY <1>3, <2>1 DEF BuildFails, Answers
  <2> QED
    BY <1>1, <1>2, <1>3, <2>2, CacheTypes DEF BuildFails, CacheParts
<1>4. CASE Return
  <2>1. call' \in Answers(Len(heap))
    BY <1>4 DEF Return, Answers
  <2> QED
    BY <1>1, <1>2, <1>4, <2>1, CacheTypes DEF Return, CacheParts
<1>5. CASE ClearCache
  <2>1. entries' \in [Hashes -> Filed(Len(heap)) \cup {None}]
    BY <1>5 DEF ClearCache
  <2>2. order' \in Seq(Hashes) /\ Len(order') = 0 /\ 1..0 = {} /\ 0 <= MaxEntries
    BY <1>5, CacheAssumption, SMT DEF ClearCache
  <2>3. Held' = {}
    BY <1>5 DEF ClearCache, Held
  <2>4. OrderInv'
    BY <2>2, <2>3 DEF OrderInv
  <2> QED
    BY <1>1, <1>5, <2>1, <2>2, <2>4, CacheTypes DEF ClearCache, CacheParts
<1>6. CASE UNCHANGED cacheVars
  BY <1>1, <1>2, <1>6, CacheTypes DEF cacheVars, CacheParts
<1>7. CASE \E b \in BOOLEAN : SetDiskBacked(b)
  BY <1>1, <1>2, <1>7, CacheTypes DEF SetDiskBacked, CacheParts
<1>8. CASE \E f \in Formulas : Request(f)
  BY <1>2, <1>8, RequestTypes DEF Request
<1> QED
  BY <1>3, <1>4, <1>5, <1>6, <1>7, <1>8

\* The kernel calls and the sessions there can be on a heap of n providers.
RunsOn(n) == [path : {"applied", "surrendered", "shadow", "primary"},
              provider : 1..n]
SessionsOn(n) == [translation : Formulas, provider : 1..n \cup {None}]
Stages == [at : {"out", "panicked"}]
          \cup [at : {"replace", "compare"}, authoritative : BOOLEAN]

HostSide ==
    /\ solver \in Formulas \cup {None}
    /\ session \in SessionsOn(Len(heap)) \cup {None}
    /\ evaluated \in BOOLEAN
    /\ stage \in Stages
    /\ runs \subseteq RunsOn(Len(heap))
    /\ successes \in 0..Warmup

\* HostTypeOK in these terms, before and after a step.
LEMMA HostTypes ==
    /\ HostTypeOK <=> CacheTypeOK /\ HostSide
    /\ HostTypeOK' <=> CacheTypeOK' /\ HostSide'
BY DEF HostTypeOK, HostSide, Runs, RunsOn, SessionsOn, Stages

\* The inductive invariant for the types: with HostInv, so that a session is
\* opened for a formula, and OrderInv, so that an eviction takes one hash.
TypedInv == HostInv /\ HostTypeOK /\ OrderInv

\* A growing heap keeps the host's side (Build).
LEMMA HostSideGrows ==
    ASSUME HostSide, Len(heap) \in Nat, Len(heap') \in Nat, Len(heap) <= Len(heap'),
           UNCHANGED hostVars
    PROVE  HostSide'
<1>1. 1..Len(heap) \subseteq 1..Len(heap')
  BY MoreProviders
<1>2. RunsOn(Len(heap)) \subseteq RunsOn(Len(heap'))
      /\ SessionsOn(Len(heap)) \subseteq SessionsOn(Len(heap'))
  BY <1>1 DEF RunsOn, SessionsOn
<1> QED
  BY <1>2 DEF HostSide, hostVars

\* Counting a successful run stays within the warm-up.
LEMMA BumpTypes == \A n \in 0..Warmup : Bump(n) \in 0..Warmup
BY HostAssumption, SMT DEF Bump

\* A kernel call is recorded with the session's provider.
LEMMA KernelRunTypes ==
    ASSUME session.provider \in 1..Len(heap),
           NEW path \in {"applied", "surrendered", "shadow", "primary"}
    PROVE  KernelRun(path) \in RunsOn(Len(heap))
BY DEF KernelRun, RunsOn

\* The steps between propagate calls.
LEMMA BetweenTypes ==
    ASSUME TypedInv,
           \/ \E f \in Formulas : StartSolve(f)
           \/ EndSolve \/ Reset \/ ResetCaches
           \/ \E b \in BOOLEAN : ConfigureCache(b)
           \/ \E a, n, o \in BOOLEAN : Propagate(a, n, o)
    PROVE  CacheTypeOK' /\ OrderInv' /\ HostSide'
<1>1. CacheTypeOK /\ OrderInv /\ HostSide
  BY HostTypes DEF TypedInv
<1>2. UNCHANGED cacheVars \/ ClearCache \/ \E b \in BOOLEAN : SetDiskBacked(b)
  BY DEF StartSolve, EndSolve, Reset, ResetCaches, ConfigureCache, Propagate
<1>3. CacheTypeOK' /\ OrderInv' /\ heap' = heap
  BY <1>1, <1>2, QuietTypes
<1>4. ASSUME NEW f \in Formulas, StartSolve(f)
      PROVE  HostSide'
  BY <1>1, <1>3, <1>4 DEF StartSolve, HostSide
<1>5. CASE EndSolve
  BY <1>1, <1>3, <1>5 DEF EndSolve, HostSide
<1>6. CASE Reset
  BY <1>1, <1>3, <1>6 DEF Reset, HostSide
<1>7. CASE ResetCaches \/ \E b \in BOOLEAN : ConfigureCache(b)
  BY <1>1, <1>3, <1>7 DEF ResetCaches, ConfigureCache, HostSide, hostVars
<1>8. ASSUME NEW a \in BOOLEAN, NEW n \in BOOLEAN, NEW o \in BOOLEAN, Propagate(a, n, o)
      PROVE  HostSide'
  <2>1. PICK at \in {"replace", "compare"} : stage' = [at |-> at, authoritative |-> a]
    BY <1>8 DEF Propagate
  <2>2. stage' \in Stages
    BY <2>1 DEF Stages
  <2> QED
    BY <1>1, <1>3, <1>8, <2>2 DEF Propagate, HostSide
<1> QED
  BY <1>3, <1>4, <1>5, <1>6, <1>7, <1>8

\* Compiling the provider of the session and opening the session.
LEMMA CompileTypes ==
    ASSUME TypedInv, EvictsOne, Compile \/ OpenSession
    PROVE  CacheTypeOK' /\ OrderInv' /\ HostSide'
<1>1. CacheTypeOK /\ OrderInv /\ HostSide /\ HostInv
  BY HostTypes DEF TypedInv
<1>2. solver \in Formulas
  BY <1>1 DEF HostInv, Compile, OpenSession
<1>3. heap \in Seq(Formulas) /\ Len(heap) \in Nat
  BY <1>1, CacheTypes, SMT DEF CacheParts
<1>4. CASE Compile
  <2>1. CASE Build
    <3>1. CacheTypeOK' /\ OrderInv' /\ Len(heap') = Len(heap) + 1
      BY <1>1, <2>1, BuildTypes
    <3>2. Len(heap') \in Nat /\ Len(heap) <= Len(heap')
      BY <1>3, <3>1, SMT
    <3> QED
      BY <1>1, <1>3, <1>4, <3>1, <3>2, HostSideGrows DEF Compile
  <2>2. CASE ~Build
    <3>1. CacheTypeOK' /\ OrderInv' /\ heap' = heap
      BY <1>1, <1>2, <1>4, <2>2, QuietTypes DEF Compile
    <3> QED
      BY <1>1, <1>4, <3>1 DEF Compile, hostVars, HostSide
  <2> QED
    BY <2>1, <2>2
<1>5. CASE OpenSession
  <2>1. CacheTypeOK' /\ OrderInv' /\ heap' = heap
    BY <1>1, <1>5, QuietTypes DEF OpenSession
  <2>2. call.at = "done" => call.provider \in 1..Len(heap)
    BY <1>1, CacheTypes DEF CacheParts, Answers
  <2>3. session' \in SessionsOn(Len(heap))
    <3>1. PICK p : session' = [translation |-> solver, provider |-> p]
                   /\ p = IF call.at = "done" THEN call.provider ELSE None
      BY <1>5 DEF OpenSession
    <3>2. p \in 1..Len(heap) \cup {None}
      BY <3>1, <2>2
    <3> QED
      BY <3>1, <3>2, <1>2 DEF SessionsOn
  <2> QED
    BY <1>1, <1>5, <2>1, <2>3 DEF OpenSession, HostSide
<1> QED
  BY <1>4, <1>5

\* The kernel calls of a propagate call.
LEMMA KernelTypes ==
    ASSUME TypedInv, Replace \/ Compare
    PROVE  CacheTypeOK' /\ OrderInv' /\ HostSide'
<1>1. CacheTypeOK /\ OrderInv /\ HostSide /\ HostInv
  BY HostTypes DEF TypedInv
<1>2. session \in SessionsOn(Len(heap)) /\ UNCHANGED <<solver, session>>
  BY <1>1 DEF HostSide, Replace, Compare
<1>3. session.provider # None => session.provider \in 1..Len(heap)
  BY <1>2 DEF SessionsOn
<1>5. CacheTypeOK' /\ OrderInv' /\ Len(heap') = Len(heap)
  <2>1. UNCHANGED cacheVars
    BY DEF Replace, Compare
  <2> QED
    BY <1>1, <2>1, QuietTypes
<1>6. stage.at \in {"replace", "compare"} => [stage EXCEPT !.at = "compare"] \in Stages
  BY <1>1, SMT DEF HostSide, Stages
<1>7. Out \in Stages /\ [at |-> "panicked"] \in Stages
  BY DEF Out, Stages
<1>8. CASE Replace
  <2>1. runs' \subseteq RunsOn(Len(heap))
    <3>1. CASE SupportsPrimary
      <4>1. PICK o \in {"applied", "surrendered"} : runs' = {KernelRun(o)}
        BY <1>8, <3>1 DEF Replace
      <4>2. KernelRun(o) \in RunsOn(Len(heap))
        BY <1>3, <3>1, KernelRunTypes DEF SupportsPrimary
      <4> QED
        BY <4>1, <4>2
    <3>2. CASE ~SupportsPrimary
      BY <1>1, <1>8, <3>2 DEF Replace, HostSide
    <3> QED
      BY <3>1, <3>2
  <2>2. stage' \in Stages
    BY <1>6, <1>7, <1>8 DEF Replace
  <2>3. successes' \in {successes, Bump(successes)}
    BY <1>8 DEF Replace
  <2>4. successes' \in 0..Warmup
    BY <1>1, <2>3, BumpTypes DEF HostSide
  <2>5. evaluated' = evaluated
    BY <1>8 DEF Replace
  <2> QED
    BY <1>1, <1>2, <1>5, <2>1, <2>2, <2>4, <2>5 DEF HostSide
<1>9. CASE Compare
  <2>1. runs' \subseteq RunsOn(Len(heap))
    <3>1. RunsShadow \/ RunsPrimary => session.provider \in 1..Len(heap)
      BY <1>3 DEF RunsShadow, RunsPrimary, SupportsPrimary
    <3>2. RunsShadow => KernelRun("shadow") \in RunsOn(Len(heap))
      BY <3>1, KernelRunTypes
    <3>3. RunsPrimary => KernelRun("primary") \in RunsOn(Len(heap))
      BY <3>1, KernelRunTypes
    <3>4. runs' = (IF RunsShadow THEN {KernelRun("shadow")} ELSE {})
                  \cup (IF RunsPrimary THEN {KernelRun("primary")} ELSE {})
      BY <1>9 DEF Compare
    <3> QED
      BY <3>2, <3>3, <3>4
  <2>2. stage' \in {Out, [at |-> "panicked"]}
    BY <1>9 DEF Compare
  <2>3. successes' \in {successes, Bump(successes)}
    BY <1>9 DEF Compare
  <2>4. successes' \in 0..Warmup
    BY <1>1, <2>3, BumpTypes DEF HostSide
  <2>5. evaluated' \in BOOLEAN
    BY <1>9 DEF Compare
  <2> QED
    BY <1>1, <1>2, <1>5, <1>7, <2>1, <2>2, <2>4, <2>5 DEF HostSide
<1> QED
  BY <1>8, <1>9

-----------------------------------------------------------------------------
(* Counting the entries                                                    *)

\* A sequence without duplicates has as many elements as positions.
LEMMA ListCount ==
    ASSUME NEW S, NEW q \in Seq(S), \A i, j \in 1..Len(q) : q[i] = q[j] => i = j
    PROVE  /\ IsFiniteSet({q[i] : i \in 1..Len(q)})
           /\ Cardinality({q[i] : i \in 1..Len(q)}) = Len(q)
<1> DEFINE T == {q[i] : i \in 1..Len(q)}
<1>1. Len(q) \in Nat /\ q \in [1..Len(q) -> T]
  BY SMT
<1>2. IsFiniteSet(1..Len(q)) /\ Cardinality(1..Len(q)) = Len(q)
  <2>1. \A n \in Nat : IsFiniteSet(1..n)
                     /\ Cardinality(1..n) = IF 1 > n THEN 0 ELSE n - 1 + 1
    BY FS_Interval, SMT
  <2> QED
    BY <1>1, <2>1, SMT
<1>3. q \in Bijection(1..Len(q), T)
  BY <1>1 DEF Bijection, Injection, IsInjective, Surjection
<1> HIDE DEF T
<1>4. ExistsBijection(1..Len(q), T)
  BY <1>3 DEF ExistsBijection
<1>5. IsFiniteSet(T) /\ Cardinality(T) = Len(q)
  BY <1>2, <1>4, FS_Bijection
<1> QED
  BY <1>5 DEF T

\* OrderInv says what OrderTracksEntries says.
LEMMA OrderInvTracks ==
    ASSUME order \in Seq(Hashes), OrderInv
    PROVE  OrderTracksEntries /\ IsFiniteSet(Held) /\ Cardinality(Held) = Len(order)
<1>1. IsFiniteSet(Held) /\ Cardinality(Held) = Len(order)
  BY ListCount DEF OrderInv
<1>2. DOMAIN order = 1..Len(order)
  BY SMT
<1> QED
  BY <1>1, <1>2, SMT DEF OrderInv, OrderTracksEntries

\* The least element of a set of numbers is the one below the others.
LEMMA MinIs ==
    ASSUME NEW S, S \subseteq Int, NEW m \in S, \A y \in S : m <= y
    PROVE  Min(S) = m
<1>1. \E x : x \in S /\ \A y \in S : x <= y
  BY Zenon
<1>2. Min(S) \in S /\ \A y \in S : Min(S) <= y
  BY <1>1 DEF Min
<1>3. \A a, b \in Int : a <= b /\ b <= a => a = b
  BY SMT
<1> QED
  BY <1>2, <1>3

\* The eviction loop of insert_in_memory pops nothing while the cache has room
\* and exactly one hash when it is full.
LEMMA EvictionsCount ==
    ASSUME order \in Seq(Hashes), OrderInv
    PROVE  EvictsOne
<1> DEFINE S == {i \in 0..Len(order) :
                    Cardinality(Held \ Oldest(i)) < MaxEntries \/ i = Len(order)}
<1>1. /\ Len(order) \in Nat /\ MaxEntries \in Nat /\ MaxEntries # 0
      /\ Len(order) <= MaxEntries
      /\ IsFiniteSet(Held) /\ Cardinality(Held) = Len(order)
  BY OrderInvTracks, CacheAssumption, SMT DEF OrderInv
<1>2. Evictions = Min(S)
  BY SMT DEF Evictions
<1>3. S \subseteq Int /\ \A y \in S : 0 <= y
  BY <1>1, SMT
<1>4. Cardinality(Held \ Oldest(0)) = Len(order)
  <2>1. Held \ Oldest(0) = Held
    BY SMT DEF Oldest
  <2> QED
    BY <1>1, <2>1
<1>5. CASE Len(order) < MaxEntries
  <2>1. 0 \in S
    BY <1>1, <1>4, <1>5, SMT
  <2> HIDE DEF S
  <2>2. Evictions = 0
    BY <1>2, <1>3, <2>1, MinIs
  <2> QED
    BY <1>5, <2>2 DEF EvictsOne
<1>6. CASE ~(Len(order) < MaxEntries)
  <2>1. Len(order) = MaxEntries /\ 1 \in 1..Len(order)
    BY <1>1, <1>6, SMT
  <2>2. Oldest(1) = {order[1]} /\ order[1] \in Held
    BY <2>1, SMT DEF Oldest, OrderInv
  <2>3. Cardinality(Held \ Oldest(1)) = Len(order) - 1
    BY <1>1, <2>2, FS_RemoveElement
  <2>4. 1 \in S
    BY <1>1, <2>1, <2>3, SMT
  <2>5. 0 \notin S
    BY <1>1, <1>4, <2>1, SMT
  <2> HIDE DEF S
  <2>6. \A y \in S : 1 <= y
    BY <1>3, <2>5, SMT
  <2>7. Evictions = 1
    BY <1>2, <1>3, <2>4, <2>6, MinIs
  <2> QED
    BY <1>6, <2>7 DEF EvictsOne
<1> QED
  BY <1>5, <1>6

\* The types and the eviction order hold of every host.
LEMMA TypedInvariant == HostSpec => []TypedInv
<1>1. HostInit => TypedInv
  <2> SUFFICES ASSUME HostInit PROVE TypedInv
    OBVIOUS
  <2>1. HostInv
    BY SMT DEF HostInit, CacheInit, HostInv, CacheInv, InPropagate, Out
  <2>2. CacheTypeOK
    <3>1. order \in Seq(Hashes) /\ heap \in Seq(Formulas)
      BY SMT DEF HostInit, CacheInit
    <3>2. call \in Answers(Len(heap))
      BY DEF HostInit, CacheInit, Answers
    <3> QED
      BY <3>1, <3>2, CacheTypes DEF HostInit, CacheInit, CacheParts
  <2>3. HostSide
    <3>1. 0 \in 0..Warmup
      BY HostAssumption, SMT
    <3>2. Out \in Stages
      BY DEF Out, Stages
    <3> QED
      BY <3>1, <3>2 DEF HostInit, HostSide
  <2>4. OrderInv
    <3>1. Len(order) = 0 /\ 1..0 = {} /\ 0 <= MaxEntries
      BY CacheAssumption, SMT DEF HostInit, CacheInit
    <3>2. Held = {}
      BY DEF HostInit, CacheInit, Held
    <3> QED
      BY <3>1, <3>2 DEF OrderInv
  <2> QED
    BY <2>1, <2>2, <2>3, <2>4, HostTypes DEF TypedInv
<1>2. TypedInv /\ [HostNext]_<<cacheVars, hostVars>> => TypedInv'
  <2> SUFFICES ASSUME TypedInv, [HostNext]_<<cacheVars, hostVars>> PROVE TypedInv'
    OBVIOUS
  <2>1. HostInv'
    BY HostStep DEF TypedInv
  <2>2. CacheTypeOK' /\ OrderInv' /\ HostSide'
    <3>0. EvictsOne
      BY HostTypes, CacheTypes, EvictionsCount DEF TypedInv, CacheParts
    <3>1. CASE HostNext
      BY <3>0, <3>1, BetweenTypes, CompileTypes, KernelTypes DEF HostNext
    <3>2. CASE UNCHANGED <<cacheVars, hostVars>>
      <4>1. CacheTypeOK' /\ OrderInv' /\ heap' = heap
        BY <3>2, QuietTypes, HostTypes DEF TypedInv
      <4> QED
        BY <3>2, <4>1, HostTypes DEF TypedInv, HostSide, hostVars
    <3> QED
      BY <3>1, <3>2
  <2> QED
    BY <2>1, <2>2, HostTypes DEF TypedInv
<1> QED
  BY <1>1, <1>2, PTL DEF HostSpec

\* The compile cache and the host keep their types: a session is opened only for a
\* formula, and every provider they name is on the heap.
THEOREM HostTypeCorrect == HostSpec => []HostTypeOK
<1>1. TypedInv => HostTypeOK
  BY DEF TypedInv
<1> QED
  BY <1>1, TypedInvariant, PTL

\* insert_in_memory and its eviction loop keep the order and the buckets of the
\* compile cache in step and the cache within its capacity.
THEOREM OrderTracks == HostSpec => []OrderTracksEntries
<1>1. TypedInv => OrderTracksEntries
  BY OrderInvTracks, CacheTypes DEF TypedInv, HostTypeOK, CacheParts
<1> QED
  BY <1>1, TypedInvariant, PTL
=============================================================================
