--------------------------- MODULE JitCompileCache ---------------------------
(***************************************************************************)
(* The thread-local cache of compiled BCP kernel providers                 *)
(* (jit_compile_cache.rs) with the build step of its callers               *)
(* (compile_or_get_cached, load_or_build_module in jit_bcp_kernel.rs).     *)
(*                                                                         *)
(* A formula is the sequence of its clauses as the caller presents them; a *)
(* clause is a model value, with its literals already in sorted order.     *)
(* The disk tier is what LossyDisk promises, shared with other processes:  *)
(* a lookup may find any text.  The executable-buffer tier is disabled     *)
(* outside of tests.                                                       *)
(***************************************************************************)
EXTENDS Naturals, Sequences, FiniteSetsExt

CONSTANTS
    Clauses,     \* clauses
    Formulas,    \* the formulas that are compiled: sequences of clauses
    Hash,        \* formula key -> bucket hash
    MaxEntries,  \* JIT_COMPILE_CACHE_CAPACITY
    MaxBuilds,   \* bound on providers ever built
    None

\* formula_sha256 of the normalized clauses: which clauses, how often.
FormulaKey(f) == [c \in Clauses |-> Cardinality({i \in DOMAIN f : f[i] = c})]

FormulaKeys == {FormulaKey(f) : f \in Formulas}

Hashes == {Hash[k] : k \in FormulaKeys}

ASSUME CacheAssumption ==
    /\ Formulas \subseteq Seq(Clauses) /\ FormulaKeys \subseteq DOMAIN Hash
    /\ MaxEntries \in Nat \ {0} /\ MaxBuilds \in Nat
    /\ None \notin [key : FormulaKeys, provider : Nat]

VARIABLES
    entries,      \* bucket hash -> the key and the provider cached there, or None
    order,        \* hashes in the order they were inserted
    disk_backed,  \* whether the disk tier is used
    heap,         \* providers: the clauses of each one's arena
    call          \* the compile_or_get_cached call in progress, or its result

cacheVars == <<entries, order, disk_backed, heap, call>>

\* What disk_lookup finds: nothing, the text a fresh build encodes, or text that
\* does not parse.
DiskTexts == {None, "fresh", "unparsable"}

CacheInit ==
    /\ entries = [h \in Hashes |-> None]
    /\ order = <<>>
    /\ disk_backed = TRUE
    /\ heap = <<>>
    /\ call = [at |-> "idle"]

\* Mutant: the stored key is not compared.
MutHit(k) == entries[Hash[k]] # None

\* Verify-on-hit: the bucket holds this very formula key.
Hit(k) == entries[Hash[k]] # None /\ entries[Hash[k]].key = k

\* The memory tier answers, or the disk tier is read and a build begins.
Request(f) ==
    /\ call.at = "idle"
    /\ LET k == FormulaKey(f)
       IN  IF Hit(k)
           THEN call' = [at |-> "done", formula |-> f,
                         provider |-> entries[Hash[k]].provider, stored |-> FALSE]
           ELSE \E t \in IF disk_backed THEN DiskTexts ELSE {None} :
                   call' = [at |-> "build", formula |-> f, text |-> t]
    /\ UNCHANGED <<entries, order, disk_backed, heap>>

Held == {h \in Hashes : entries[h] # None}

Oldest(i) == {order[j] : j \in 1..i}

\* How many pops of the order the eviction loop makes.
Evictions ==
    Min({i \in 0..Len(order) :
            Cardinality(Held \ Oldest(i)) < MaxEntries \/ i = Len(order)})

\* Mutant: an overwritten bucket is appended to the order again.
MutInsertInMemory(k, id) ==
    LET h == Hash[k]
        n == IF entries[h] # None THEN 0 ELSE Evictions
    IN  /\ entries' = [g \in Hashes |->
                         IF g = h THEN [key |-> k, provider |-> id]
                         ELSE IF g \in Oldest(n) THEN None ELSE entries[g]]
        /\ order' = Append(SubSeq(order, n + 1, Len(order)), h)

\* insert_in_memory: a bucket collision overwrites and keeps its place.
InsertInMemory(k, id) ==
    LET h == Hash[k]
        n == IF entries[h] # None THEN 0 ELSE Evictions
    IN  /\ entries' = [g \in Hashes |->
                         IF g = h THEN [key |-> k, provider |-> id]
                         ELSE IF g \in Oldest(n) THEN None ELSE entries[g]]
        /\ order' = IF entries[h] # None THEN order
                    ELSE Append(SubSeq(order, n + 1, Len(order)), h)

\* The build succeeds: disk_store is called for text that was absent or rejected,
\* and the provider is inserted.
Build ==
    /\ call.at = "build" /\ Len(heap) < MaxBuilds
    /\ LET k  == FormulaKey(call.formula)
           id == Len(heap) + 1
       IN  /\ heap' = Append(heap, call.formula)
           /\ InsertInMemory(k, id)
           /\ call' = [at |-> "done", formula |-> call.formula, provider |-> id,
                       stored |-> disk_backed /\ call.text # "fresh"]
    /\ UNCHANGED disk_backed

\* Mutant: the error is dropped and a provider that was not built is returned.
MutBuildFails ==
    /\ call.at = "build"
    /\ call' = [at |-> "done", formula |-> call.formula, provider |-> Len(heap) + 1,
                stored |-> FALSE]
    /\ UNCHANGED <<entries, order, disk_backed, heap>>

\* The compiler reports an error: nothing is stored or inserted.
BuildFails ==
    /\ call.at = "build"
    /\ call' = [at |-> "failed", formula |-> call.formula]
    /\ UNCHANGED <<entries, order, disk_backed, heap>>

Return ==
    /\ call.at \in {"done", "failed"}
    /\ call' = [at |-> "idle"]
    /\ UNCHANGED <<entries, order, disk_backed, heap>>

\* reset_jit_compile_caches_for_tests
ClearCache ==
    /\ call.at = "idle"
    /\ entries' = [h \in Hashes |-> None] /\ order' = <<>>
    /\ UNCHANGED <<disk_backed, heap, call>>

SetDiskBacked(b) ==
    /\ call.at = "idle" /\ b # disk_backed
    /\ disk_backed' = b
    /\ UNCHANGED <<entries, order, heap, call>>

-----------------------------------------------------------------------------
(* Properties                                                              *)

\* The cache, the heap and the call have their types.
CacheTypeOK ==
    /\ entries \in [Hashes -> [key : FormulaKeys, provider : 1..Len(heap)] \cup {None}]
    /\ order \in Seq(Hashes)
    /\ disk_backed \in BOOLEAN
    /\ heap \in Seq(Formulas)
    /\ call \in [at : {"idle"}]
                \cup [at : {"build"}, formula : Formulas, text : DiskTexts]
                \cup [at : {"done"}, formula : Formulas, provider : 1..Len(heap),
                      stored : BOOLEAN]
                \cup [at : {"failed"}, formula : Formulas]

\* get_or_compile_with_buffer_disk answers with a provider built for the requested
\* formula, although formulas share buckets, overwrite and evict each other.
ServesRequestedFormula ==
    call.at = "done" =>
        FormulaKey(heap[call.provider]) = FormulaKey(call.formula)

\* The eviction order lists each occupied bucket once and no other, and the cache
\* stays within its capacity, through collisions, evictions and clears.
OrderTracksEntries ==
    /\ Len(order) <= MaxEntries
    /\ {order[i] : i \in DOMAIN order} = Held
    /\ Cardinality(Held) = Len(order)

=============================================================================
