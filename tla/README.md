# A TLA+ model of trust-cg

trust-cg is a compiler backend that ties compilation to evidence: it lowers
trust-ir to machine code, discharges proof obligations about what it emits, and
refuses to install an artifact whose evidence does not pass its gates. Most of
it transforms one function at a time. The parts modelled here are the ones with
state that several actors share or that outlives a call: queues, caches,
processes, files, memos and locks.

Source paths below are relative to `src/crates/`. `PROJECT.json` maps every
definition to the lines it models.

## 1. The system

### Parts

| Part | Source | State | Modelled in |
|---|---|---|---|
| Async compile facade | `trust-cg-codegen/src/async_compile_service.rs` | queue, running requests, retained results, evicted ids, single-flight keys, gate packets, counters | `AsyncCompile` |
| Tokens and generation fence | `trust-cg-codegen/src/compile_service.rs` | atomics shared between threads | `AsyncCompile`, `CompileGates` |
| Synchronous compile service | `compile_service.rs` | gates of one request | `CompileGates` |
| Branch relaxation and encoder ranges | `relax.rs`, `aarch64/encode.rs`, `pipeline.rs` | none: an algorithm | `BranchRelax` |
| Manifest cache metadata | `async_compile_service.rs` | recorded entry per manifest key | `AsyncManifestCache` |
| Control plane, call-time gate | `jit_control_plane.rs`, `jit_install_gate.rs` | kill switches, revocations, registries | `ControlPlane` |
| Obligation discharge | `trust-cg-verify/src/ay_bridge.rs` | session memo, recorder, tiers of one discharge | `ProofDischarge` |
| Resident solver | `ay_bridge.rs` | one process behind a lock, its pipes | `ResidentSolver` |
| Solver identity memo | `ay_bridge.rs` | hash per stat key, warm-up thread | `SolverIdentity` |
| Certificate store | `trust-cg-verify/src/obligation_cert_store.rs` | files, two memos, binaries that others replace | `CertStore` |
| Disk cache of kernel IR | `trust-cg-jit-matrix/src/jit_disk_cache.rs` | directory shared by processes | `DiskCache`, `LossyDisk` |
| Provider compile cache | `jit_compile_cache.rs`, `jit_bcp_kernel.rs` of `trust-cg-jit-matrix` | thread-local buckets, eviction order | `JitCompileCache` |
| MicroSAT propagate host | `trust-cg-sat-host/src/propagate.rs`, `scratch_arena.rs` | thread-local session, warm-up counter, scratch arena | `SolverHost`, `SolverTrail` |
| MicroSAT | `src/third_party/vendor/microsat/microsat.c` | clauses, watches, trail, lemmas | `MicroSat`, `SolverTrail` |
| Watched-literal BCP kernel | `trust-cg-jit-matrix/src/bcp_module_builder.rs` | the arena of one call | `BcpKernel` |

Everything else is listed in `PROJECT.json` as `not_modelled` with the reason;
section 7 says why.

### How they interact

- A caller submits to the **facade**; a worker takes a ticket (`start_next`),
  compiles with the compile service, and hands back a response (`finish`). The
  token and the fence a request carries belong to the caller, who may set them
  at any time. `submit` looks the manifest up in the **manifest cache metadata**;
  the answer becomes part of the record of the request and decides nothing
  else, so the two are separate modules.
- The way of one artifact to a native call is `InstallPath`: the **compile
  service** gates the request and lowers the function, integrations record the
  artifact's packets in the **manifest cache**, operators change the rules of the
  **control plane**, and a consumer looks the artifact up and later routes a call.
  `InstallPath` EXTENDS `AsyncManifestCache`, `CompileGates` (which EXTENDS
  `BranchRelax`) and `ControlPlane`.
- A **discharge** first consults embedded certificates, the session memo and
  the certificate store. The memo key contains the **solver identity**. Then it
  asks the **resident solver**, and at last a fresh process whose proof an
  independent checker replays. `ProofDischarge` EXTENDS `ResidentSolver`, which
  EXTENDS `SolverIdentity`: one state, one next-state relation. What the
  **certificate store** answers is arbitrary there and modelled in `CertStore`.
- The **propagate host** obtains a kernel through the **provider cache**, which
  reads and writes the **disk cache**. `SolverHost` EXTENDS `JitCompileCache`.
  What these two may assume of the disk is `LossyDisk`, and `DiskCache` is shown
  to implement it. What a kernel call then does to the solver is `SolverTrail`,
  which EXTENDS `MicroSat` and `BcpKernel`: one solve, with its data.

### What is hard here

Each of these is an entry of `hazards` in `PROJECT.json`, at the line where it
bites: a handler that reads a token and then a fence that other threads write; a
ticket that outlives its request while the request id is reused; single-flight
bookkeeping on every path on which a request can end; a query that times out and
whose answer arrives during the next one; two threads naming different solvers;
a recorder armed in the middle of a discharge; a blocking write before a
deadline is armed; sweeps that remove files by name from a stale listing;
writers that crash between create, write and rename; 64-bit bucket collisions
together with eviction; thread-local state that one solve leaves for the next;
a kernel's answer that stands for native propagation although it maintains no
watch list; binaries and certificates that are replaced between the steps of a
check; rules that change between a lookup and the call it leads to.

## 2. Modules

Definitions keep the source's names. A definition `Mut...` in front of another
one is a deliberately wrong variant of it: substituting it must make TLC report
the property it is paired with in `PROJECT.json`. No specification uses one.
`None` is `Option::None` throughout.

### AsyncCompile

The facade's methods take `&mut self`, so handlers exclude each other. The
token and the fence are atomics of other threads. A handler that reads the token
and then the fence is therefore two steps (`Submit`/`SubmitRest`,
`StartNext`/`StartRest`, `Finish`/`FinishRest`) with its locals in `op`, and
`CancelToken` and `MarkStaleBefore` interleave. `poll` reads the token once more
at the end, so one step has the same outcomes. `start_next`'s loop over expired
requests is `op.kind = "start_loop"`.

| Code | Model |
|---|---|
| `queued`, `running`, `terminal`, `terminal_order`, `evicted`, `evicted_order` | variables of those names |
| `cache_records`, `cache_in_flight`, `gate_packets`, `gate_blockers` | functions, `None` where the map has no entry |
| `telemetry_summary` | `summary`, one counter per event |
| `submit`, `poll`, `cancel`, `start_next`, `finish`, `record_native_install_gate_packet` | actions, each the whole handler with `insert_terminal` and its eviction loops |
| tickets in the hands of workers | `tickets`; a ticket stays usable after its request ended, as in the code |

A response is its status, its disposition, the key of its artifact and its gate
packet. A gate packet is its surface, the manifest it names, and whether the
evidence gate accepts it.

### AsyncManifestCache

`RecordEntry`, `RecordGate` and `RecordInsert` are the entry points that write
`cache_entries`; `Lookup` is what `submit` makes of an entry. The proof checksum
and telemetry event that identify a packet are one identity.

### CompileGates, BranchRelax, ControlPlane, InstallPath

`CompileGates` walks one request through the stages of its entry point
(`Stages`). A gate reads the token and the fence in two steps. `LoadFence`,
`Exchange`, `ExchangeFails` and `LeaveLoop` are the compare-and-exchange loop of
`mark_stale_before`. `unwanted` is a history variable: what was signalled before
the last gate looked.

`BranchRelax` is `relax_branches`, `build_final_code` and the encoder's range
check, as operators. `Meaning` and `Effect` are the reference: what a block does
before relaxation, and what the code does, under every outcome of its conditions.
Offsets are numbers; the code keeps them in 32 bits, enough for 4 GB of code. A tail
call to a symbol is resolved by relocation and is no branch here.

`ControlPlane` has one action per operation of an operator and the decision
(`Evaluate`, `FreshnessRejection`, `ProductCallStatus`) as operators. `Observe`
and `Route` of `InstallPath` are the two halves of a consumer's call.

### SolverIdentity, ResidentSolver, ProofDischarge

`SolverIdentity` is `solver_identity_hash`: a slot per stat key, locked while
the bytes are read; the non-blocking variant that declines until the warm-up
thread has finished or `BlockAfter` calls missed; replacement of the binary.
`env` is the process environment (cache flag, what the default solver reports as
its build, server flag, whether a script fits a pipe); it is chosen in `Init` and
never changes.

`ResidentSolver` is the slot and its lock, `spawn_ay_server`, the script with its
sentinel, the window up to sentinel or deadline, framing errors, dropping the
process, and the latch of unusable paths. The process is external: for each
script it prints up to `MaxLines` lines of any kind, hangs or dies at any point.

`ProofDischarge` is `verify_with_cli_smt2` for several threads. `job[t].at` is
the stage: `canary`, `key`/`hash`, `lookup`, `cert`, `gate`, then
`lock`/`write`/`read`/`model`/`anomaly` at the server, `replay`, `fresh`,
`freshmodel`, `mint`, `returned`. A query is satisfiable or not (`Unsat`);
solvers and stored certificates are arbitrary; checkers accept nothing for a
satisfiable query. That is the only assumption about what external programs answer.
About whether they answer, nothing is assumed where the code sets no deadline: the
checker (`obligation_cert_store.rs:648`, for promotion, for a stored certificate and
before a certificate is minted), drat-trim (`lrat_cert.rs:288`, for an embedded
certificate) and the solver that mints (`obligation_cert_store.rs:830`) are run with
`.output()`. Each such run is a stage (`Undeadlined`: `canarycheck`, `certcheck`,
`freshcheck`, `replaycheck`, `minting`) that a job may never leave. A fresh solver run
has a deadline (`run_solver_command`) and is one step that ends, possibly as a timeout.
The version probe has one too (`ay_bridge.rs:3810`); that the `which` of the operating
system, which finds the default solver (`ay_bridge.rs:3488`), returns is taken for granted.

### CertStore

`job[t].at` is the stage of a call; the entry points are
`alethe_cert_skip_verified` (consume), `mint_alethe_cert` (mint) and
`carcara_verify` (promote), which share the capability check and the checker run.
A hash, a probe, a run and each file system call is a step of its own, and
checker, solver and files may be replaced between any two of them. Builds are
numbered in the order of their installation, and none comes back. A file handle
follows its file through renames (`fd`), since all mints of a key share one
temporary name. `Crash` loses memos and calls and leaves the files.

### LossyDisk, DiskCache

One step is one file system call, so several processes interleave between
`create`, `write`, `rename`, the two halves of a sweep, `remove` after a failed
validation, and `touch`. A process may crash at every step; files may be damaged
from outside; a sweep may fail. The text under a key is a function of the key,
so the key stands for it, next to `Partial` and `Damaged`.

### JitCompileCache, SolverHost

A formula is the sequence of its clauses as the DB presents them. `FormulaKey`
is the multiset of clauses, which is what hashing the sorted clauses tells
apart; `Hash` maps a key to its 64-bit bucket, and collisions are chosen in the
instance. A provider is the clauses of its arena. `SolverHost` is the control of `trust_cg_propagate`: replacement path,
comparison path, session set-up on first use, shadow call once per session,
warm-up and panic. The session outlives a solve (`StartSolve`, `EndSolve`); only
`Reset`, which tests call, drops it. What kernel and native code compute is any result.

### MicroSat, BcpKernel, SolverTrail

`MicroSat` is microsat.c as operators on the solver struct: `assign`, `addClause`,
`analyze` with `implied` and `bump`, `restart`, `reduceDB`, `parse`. A clause is a
sequence and a reason is its place in `DB`, or, negative, in the scratch arena.
Line 133 of `propagate` is the one build.rs puts there
(`trust_cg_decision_level_is_zero`). `BcpKernel` is the kernel, phase by phase.

`SolverTrail` is `solve`. `trust_cg_propagate` is one step up to its call of native
propagation: snapshots, rewind detection, kernel, and one of four ends (answer at
the root, conflict at the root, analyze driver, surrender). A surrender may leave
records in the arena or literals on the trail, and native propagation starts from
there. Native propagation takes one step per watched clause. `DecideNext` and
`RestartAndDecide` end an iteration of `solve`; the moving averages that decide on
a restart are a choice.

## 3. Runs

State counts are distinct states; every passing run is exhaustive for its
instance and takes under four minutes with two workers.

### Passing

**async_lifecycle** (546,778 states). Four submissions over two ids and one
manifest key: a fresher resubmission of the same id, a competitor for the same
key, and a request without manifest and with a bound of its own. Queue, retention
and eviction memory hold one entry each and the budget is three of four submit
calls, so every limit is hit and every reject code occurs. The fence reaches 2,
so a generation-1 request can go stale while a generation-2 one lives.

- `OnePlacePerId`, `SingleFlight`, `RecordsFollowRequests`: queue, running table
  and side tables agree on who is active, on every path on which a request ends.
- `BoundedRetention`: results and eviction memory stay within their bounds, and each
  table lists in its order exactly the ids it holds, once.
- `TerminalNeverChanges`, `NoLateInstall`: what a step may never do.

**async_publish** (139,304 states, `FairSpec`). Every arm of `state_for_response`
and of the gate check. `BlockersExplainRejections`, `InstallablePollAgrees`: what
`finish` publishes as installable passes the recheck a poll makes.
`EveryRequestEnds`: liveness.

**async_manifest_cache** (172,077 states): `InstallPath` as a whole. Every entry
point with every defect a request can have and one request that ends installable;
two markers of the fence, one of which makes the request stale; 42 functions
of three blocks with displacement fields of 3 and 5 bits and two passes, so that
relaxation converges, runs out of passes and meets an unreachable target; packets
for the key and for another manifest, of two identities and rejected; a kill
switch, revocations of both kinds.

- `InstallableHitHasBothGates`: a lookup says `HitInstallable` only with an
  insertion packet and a hit packet that both pass now and agree in identity.
- `RevivedOnlyByInsertion`: a blocked or downgraded entry does not come back
  through a hit packet alone. `Stale` stands for every outcome that is not
  installable, since the code distinguishes only that.
- `MarksHold`: the fence is never below a generation whose `mark_stale_before`
  has returned.
- `CompiledWasWanted`: a compiled response was not cancelled or fenced off before
  its last gate looked, and none of its preflights objected.
- `LoweringIsFaithful`: encoded code does from every block what the block meant;
  lowering fails to encode only when the bound on passes is spent.
- `AcceptedIsAllowed`: what a routed call rests on, however the rules changed since
  its lookup.

Operators and integrations act once the artifact is compiled, since nothing reads
what they write before that.

**certificates** (2,369,870 states). Two threads, three calls, one query, two
builds each of checker and solver, both capable, and one fault: a restart or a
certificate with a wrong proof under the right names. `AcceptedWasChecked`,
`CapabilityIsOfBytes`, `PublishedWasVerified`. Three calls suffice for a consume
after a mint overlaps another mint; the threads are symmetric and no liveness is
checked. More queries and incapable builds are covered by the proof.

**solver_trail** (388,030 states, `FairSpec`). Every part of three pools of ten or
eleven clauses of up to three literals over four variables, solved without the
kernel, with it at the root, and with it everywhere; every part of a pool with
longer clauses without the kernel. Bounds are scaled (`MaxLemmas`, `LemmaStep`,
`KeepBelow`: 2000, 300 and 6 in the code) so that `reduceDB` runs and keeps some
lemmas and drops others; an arena of nine words fills up, is reset on a rewind and
is left with the records of a failed attempt; up to four lemmas are learned in one
solve.

- `VerdictIsRight`: UNSAT only without a model, at SAT the saved phases are one.
- `LemmasFollow`: every lemma in the database holds in all models.
- `EverySolveEnds`: although restarts and `reduceDB` undo work.

The analyze driver's surrender for want of a conflict clause on a watch list is not
reached here; it takes longer clauses. With the kernel on, those are the subject of
solver_trail_wide, so nothing is claimed here about clauses of four or more
literals with the kernel on.

**discharge** (337,367 states, `FairSpec`). Two threads, two solvers, one
unsatisfiable and one satisfiable query, six environments: the server on; the cache on
with a clean, a dirty and no default solver; a replacement of a solver; a recording
with and without the server. `VerifiedIsUnsat`, `WindowsNeverMix`,
`RecorderSeesFreshRuns`, `HashOnce`, `EveryDischargeEnds`. Two discharges suffice for
a late answer of one to meet the window of the other and for two threads to meet at
every memo and lock; one replacement suffices for a stale identity; one line per answer
suffices for a missing, a single and a late verdict (the proofs cover any number).

`EveryDischargeEnds` says that a discharge returns unless it sits for ever in a run
without a deadline that it started itself. So the resident process may hang in the
middle of an answer, and another thread's checker may hang, and the discharge still
returns: none of these runs happens under the slot's lock or a slot of the identity
memo.

**disk_cache** (465,165 states). Two processes, two keys, cap 1, one tick past
the stale age, one damaged file, one failing sweep. `NoPartialEntry`,
`AnswersMatchKey`, `OnlySlowStoresLost`, `WithinCap`, and the refinement
`ImplementsLossyDisk`. Two keys exceed the cap, so sweeps always have something
to remove; two processes are enough for a sweep to act on a listing the other has
outdated. The processes are symmetric and no liveness is checked, so the symmetry
reduction is sound.

**solver_host** (2,910,552 states). Five presentations of four formulas in three
buckets, cache of two entries, both modes on, warm-up 1, with and without the reset
of the session between solves. `ServesRequestedFormula`, `OrderTracksEntries`, and
`KernelRunsSessionFormula`: a kernel call runs over the formula its session's
translation table was made for. Four builds are enough for fill, collision and eviction.

Deadlock is checked except where a run may really stop: all processes crashed
(disk_cache), a divergence panic (solver_host), all discharges returned.

### Violations: where the code and its text disagree

- **async_late_ticket**: `finish` looks the request up by the ticket's id and
  tests that request's token. After cancel, eviction and reuse of the id, the old
  ticket, whose token is set, publishes an installable result
  (`async_compile_service.rs:1217`, doc at 1210). The passing run's
  `NoLateInstall` is what does hold: it speaks of the ticket of the same request.
- **discharge_full_pipe**: the script is written with a blocking `write_all`
  before the deadline is computed and with the slot locked
  (`ay_bridge.rs:3268`, doc at 126). With a process that stops reading and a
  script larger than its pipe, a discharge with a timeout does not return.
- **solver_host_next_solve**: the session is compiled when there is none
  (`propagate.rs:2431` and 1571), and nothing but `reset_jit_shadow_for_tests` drops it.
  So the second solve on a thread runs the kernel of the first one's formula. The comment
  at 534 says "once per solve", the one at 546 that production code does not need to call
  the reset. `KernelRunsSessionFormula` is what does hold.
- **solver_trail_wide**: at decision level zero a kernel answer without conflict
  sets `processed` to `assigned` (`propagate.rs:1851`), and native propagation never
  visits the watch lists of the literals it skipped. A clause of four literals whose
  two watched literals became false there has two other literals left and no watch
  on either; nothing notices when they become false as well. TLC finds the formula
  (-1)(-2)(1 2 3 4)(-3 5)(-3 -5)(-4 5)(-4 -5), which is unsatisfiable and answered
  SAT: 3 and 4 become false by propagation after the decision -5. A clause of three literals is safe: the kernel's fixed point at the root
  makes its third literal true. The comments at 1844 and in `lib.rs:398` promise the
  native trail and the native answer. PRIMARY_JIT_MODE is off by default.

### Smaller disagreements, without a run

- `jit_disk_cache.rs:429`: a sweep takes staging files older than 300 seconds for
  stale; the text at 401 says those "older than the oldest retained entry".
  `OnlySlowStoresLost` says what this costs a slow but live writer.
- `ay_bridge.rs:126` speaks of one timeout; the checkers and the minting solver run
  without any (`obligation_cert_store.rs:648` and 830, `lrat_cert.rs:288`).
  `EveryDischargeEnds` excepts exactly the discharge that waits for its own such run.
- `propagate.rs:1852`: replacement calls, which skip native, also end the warm-up
  described at 169.
- `jit_compile_cache.rs:21` says LRU; eviction is first in, first out.
- `ay_bridge.rs:2830` says dirty builds are still keyed; for the default solver,
  without `TCG_BLOCKING_IDENTITY`, the code declines them (2568).
- A solver replaced between key derivation and run leaves a memo entry under the
  identity of the old build. The entry still rests on a checked proof, which
  `VerifiedIsUnsat` covers.
- The compile cache identifies formulas up to clause order, the cached arena keeps
  the order of its first builder, and the translation table follows the current DB
  (`propagate.rs:1576`, doc at 682): an index of one is used in the other.
- Two mints of one key share a temporary name, so one may publish a file the other
  is still writing, against the "atomic" of the comments
  (`obligation_cert_store.rs:880`). `PublishedWasVerified` excludes exactly keys with
  overlapping mints; a reader rejects a torn file (`AcceptedWasChecked`).
- A checker replaced during its probe leaves the verdict "not runnable" to the bytes
  before it, for the rest of the process (`obligation_cert_store.rs:387`).
- `relax.rs:184` says "Repeat until no changes."; the loop ends after 32 passes. What
  is left out of range ends in an encoding error (`LoweringIsFaithful`).
- `jit_control_plane.rs`: a candidate without identity is judged before any rule, so
  one of a revoked artifact gets AcceptedPendingProductGate (no handle is published);
  `record_existing_product_publication` looks at no rule; a later inactive revocation
  replaces an active one. `AcceptedIsAllowed` says what holds in spite of these.

## 4. Fairness

- `AsyncCompile!FairSpec`: a handler that has begun returns (weak fairness of the
  second halves): they are straight-line code. Workers keep calling `start_next`
  and every ticket's holder calls `finish` in the end (strong fairness, since
  other calls to the facade may keep taking their turn). This is the facade's
  contract with its workers; nothing is assumed of callers, token holders or the
  fence.
- `ProofDischarge!FairSpec`: each thread, and the warm-up thread, is scheduled (weak
  fairness of `ThreadStep(t)` and of `Hash(Warm)`). `ThreadStep` is what a thread does on
  its own: its step of the discharge, unless it waits in a run without a deadline, and
  its step of an identity hash. An armed deadline passes, as `recv_timeout` returns and
  `run_solver_command` kills its child. Nothing is assumed of the resident process, of
  the checkers or of the minting solver: no answer of theirs is fair. Discharges are bounded by `MaxDischarges`, so starvation at the
  slot's lock by endless competitors is not in question; the run shows that every
  holder releases it.

- `SolverTrail!FairSpec`: `solve` is one thread's loop, so it takes a step as long as
  it has not returned. It is weak fairness of `Steps`, written out, since `Steps` is
  enabled exactly when `pc # "done"`; TLC would evaluate ENABLED of these operators
  far more slowly.

## 5. Proofs

TLAPS proves these for every value of the constants that satisfies the `ASSUME`s
next to their declarations. These say what kind of thing each constant is; the
bounds for TLC may be any number, so a proof covers every bound.

| Module | Theorems | Inductive invariant |
|---|---|---|
| `AsyncCompileProofs` | `TypeCorrect`, `OnePlace`, `SingleFlightHolds`, `RecordsFollow`, `ResultsNeverChange`, `NothingInstallsLate`, `BlockersExplain`, `PollAgrees`, `RetentionBounded` | `LifecycleInv`, then `GateInv`, then `BoundedRetention` itself |
| `DiskCacheProofs` | `TypeCorrect`, `NeverPartial`, `HitsMatch`, `FastStoresKeep`, `Refines` | `FilesInv` |
| `DiskCapProofs` | `CapHolds` | `CapInv`, on top of `FilesInv` |
| `SolverHostProofs` | `CacheServes`, `KernelRuns`, `HostTypeCorrect`, `OrderTracks` | `HostInv` over `CacheInv`, then `TypedInv` |
| `BranchRelaxProofs` | `EncodedFlowsAlike` | none: an algorithm |
| `InstallPathProofs` | `MarksStay`, `CompiledOnlyIfWanted`, `LoweringFaithful`, `AcceptedOnlyIfAllowed`; of the manifest cache `CacheTypes`, `InstallableHits`, `OnlyInsertionRevives`; of both `PathRunsCache` | `PathInv`, `LoweredInv`, `CacheInv` |
| `CertStoreProofs` | `AcceptedChecked`, `CapabilityOfBytes`, `PublishedVerified` | `IInv` |
| `ProofDischargeProofs` | `TypeCorrect`, `VerifiedSound`, `WindowsApart`, `RecordingFresh`, `HashedOnce` | `Inv` |

- **LifecycleInv** joins the type invariant, the shape of a half-done handler
  (`OpShape`), where a request may be (`Places`) and how the four maps relate to
  the active requests (`Coherent`). None of the three stated invariants is
  inductive alone: that `insert_terminal` releases the right key needs
  `cache_records` to hold the active request's key, which needs ids to be in one
  place, which needs the request in a handler's hands to be in no table.
  The first part of the module proves once what `insert_terminal` does to the maps,
  with its eviction loops; each action's step cites it.
- **GateInv** is `BlockersExplainRejections` and `InstallablePollAgrees` together.
  `StepInserts` reduces every action to two cases: it leaves results, orders and
  blockers alone, or it is one `insert_terminal` of an id without a result, with an
  entry that fits the blocker recorded for it (`Explained`).
- **BoundedRetention** is inductive once every step is one of those two cases. An
  insertion adds one id to a list that was within its capacity, so the one round of
  the trimming loop in the model is all that the `while` of the code can run; the
  evicted id goes to the second list, which may know it already.
- **FilesInv** types the state and adds: a cache file holds the text of its own key or
  was damaged (`DirInv`); a staging file is as old as the store that made it, is whole
  before the rename, and is gone early only if that store has outlived the stale age
  (`StagingInv`); a hit about to be returned matches its key, and every staging file on
  a sweep's listing was stale when it was listed (`CallInv`). `NoPartialEntry` is not
  inductive without `StagingInv`, as the text under a cache name is what the rename
  moves there. `Refines` maps `readable` and `storing` of `LossyDisk`, and shows that
  each step is a `LossyDisk` step or leaves both unchanged. `FileAssumption` says that
  the absence of a file is no file.
- **CapInv** is about sweeps that overlap and work on stale listings. No variable
  records in which order they began, so the invariant says that there is an order
  (`rank`). A file that a scan missed was stored after the scan came by, and each
  storer then sweeps itself: the missed files are at most the sweeps that began later
  plus those given up since this one began (`Slack`), or a later one has already
  finished and brought the directory down. Carried over to the removal this bounds the
  files it leaves (`Spared`), and for the newest finished sweep the whole directory
  (`SettledInv`), which is `WithinCap`. It counts processes, so `DiskAssumption` has
  `Procs` finite. TLC has checked `CapInv` with two processes and with three
  (3,367,005 states), the ranks drawn from 1..3.
- **CacheInv** (manifest) adds that an armed entry has an insertion packet that
  passes; without it a hit packet could arm an entry whose insertion was blocked.
- **HostInv** says that what is filed in a bucket was built for the key it is
  filed under, that a compile in progress is for the solve in progress, and that
  the session's provider was built for the formula of its translation table.
  `KernelRuns` is about that formula; that it is the one being solved does not hold
  (solver_host_next_solve, section 3).
- **TypedInv** adds the types and `OrderInv`: the order has no duplicates, lists
  exactly the occupied buckets and is no longer than the capacity. `EvictsOne` follows:
  the eviction loop pops nothing while there is room and exactly one hash when the
  cache is full. The types need both, as a popped hash must be that of an entry.
  `CacheAssumption` says that an empty bucket is no entry.
- **PathRunsCache** shows that the install path implements the specification of the
  manifest cache, with the identity as refinement mapping; the theorems about the cache
  carry over.
- **Inv** (discharge): `JobInv` ties every stage of a job to what it carries,
  `ProofInv` says that memo and recorder hold unsatisfiable queries only,
  `LockInv` that exactly the thread in `write` or `read` holds the slot, `PipeInv`
  that no pipe holds anything of an earlier query when a window opens. `PipeInv`
  is the strengthening that `WindowsNeverMix` needs: it holds because every window
  that does not end at its own sentinel drops the process.
- **PathInv**: `FenceInv` says that what a marker has read is at most the fence, so
  that leaving the loop early loses nothing; `SignalInv` that a signal stays visible
  to the gates (a token is never reset, the fence never lowered); `Progress` what the
  stages behind a running request have established, down to the half-way point of the
  last gate, which reads the token before the fence; `ChainInv` that entries and calls
  exist only for an artifact that was compiled to be installed. `AcceptedOnlyIfAllowed`
  needs all four: `unwanted = {}` at the call comes from the last gate, through the
  response, the entry and the lookup. `PathAssumption` says that every artifact a
  consumer may call has a cache key.
- **LoweredInv** says that a response holds nothing of a lowering, or function, result
  and code of one `Lower`. The rest of `LoweringFaithful` is about the algorithm.
  `RelaxOneMeans` shows that a block does the same with a branch inverted to skip a `B`:
  by induction from the last instruction to the first, the relaxed block does from an
  instruction, behind the branch one place further, what the block did.
  `RelaxBranchesRefines` carries this through passes and blocks for any number of passes.
  `CodeMeans` is the same argument for `build_final_code`, with the words of a block in
  place of its instructions: pseudo instructions vanish, a target becomes a distance
  that leaves the block and ends at the target's first word (`Arrives`). `RangesAgree`
  compares the two range checks for every width, `UnencodableIsFar` concludes from it
  that only a branch relaxation left far can fail to encode. Induction rests on the
  least-number principle for sets (`Least`), from which also follows that the recursive
  functions of `BranchRelax` are well defined (`Recursion`).
  `GatesAssumption` has the functions `WellFormed`: a branch names a block of the layout,
  which `validate_relax_input` checks, or is conditional and skips the `BRK` or `B` right
  behind it, the only immediates that the expansion of traps in `lower.rs` and
  `relax_one_branch` write. `RelaxAssumption` has every field wider than two bits, so
  that this skip fits.
- **IInv** (certificates): `JobInv` says what a call at each stage has established,
  relative to the builds installed now (builds only grow, so an identity read twice
  means one build in between); `WorldInv` types the world and says that the capability
  memo is right, `MemoInv` that a memo entry rests on a check of its own text, `StagingInv`
  and `FilesInv` what the files of a key hold unless two of its mints overlapped or a
  foreign file arrived. `PublishedWasVerified` needs the last two: what a rename
  publishes depends on who has the staging file open.

Only model-checked:

- `EveryRequestEnds`, `EveryDischargeEnds`, `EverySolveEnds`: liveness under fairness is
  beyond the prover.
- `VerdictIsRight` and `LemmasFollow`. The first does not hold of every formula
  (`solver_trail_wide`, section 3), so there is nothing to prove in general. Both are
  about `MicroSat`, `BcpKernel` and `SolverTrail`, which use RECURSIVE operators, and
  tlapm cannot reason about these.

## 6. Abstractions

Beyond what section 2 says:

- SHA-256 is collision-free; 64-bit bucket hashes are not.
- The four provider caches (one per kernel) are instances of one; the
  executable-buffer tier reads and writes nothing outside of tests.
- `mark_stale_before` is one step in `AsyncCompile`; `CompileGates` has its loop, and
  `MarksHold` is what justifies the one step.
- `SolverTrail`: one solve with the default (watched-literal) kernel, compiled for the
  formula that is solved; other cases are `SolverHost`'s. The memory of `DB` and the
  kernel's buffers never run out, and the comparison of native's answer with the
  kernel's is left out, since it changes nothing in the solver. An analysis that ends
  with an empty lemma ends the model with a result `VerdictIsRight` excludes.
- `CertStore`: the memos and threads of one process; whether a store is configured and
  a recorder is active is `ProofDischarge`'s.
- `ControlPlane`: digests that bind a rule to its fields match.
- A replacement of a solver binary changes its stat key (inode and ctime).
- Left out: contents of evidence, JSON, telemetry beyond its counters, the choice
  of directories and flags, what kernels and solvers compute.

## 7. Not modelled

`PROJECT.json` lists every part with its reason. They fall into these groups.

- **Transformations of one function**: importers, instruction selection, the
  optimizer's passes, register allocation, scheduling, the encoders of three targets,
  object and debug emission. This is most of the repository's 1.1 million lines. They
  keep no state between calls, and a model small enough for TLC would restate their
  tables. `BranchRelax` is the one with a bounded fixed point whose limit matters.
- **Formula construction**: encodings of instruction semantics and proof obligations.
  Their truth is what the solver decides; here a query is satisfiable or not.
- **Records**: evidence, manifests, telemetry and their JSON, and validators that
  compare fields of one record.
- **Generated tables, fuzzers, benchmarks, command lines and tests.**

For that reason the mapped lines are a small share of the whole, while they are most
of the code that shares state between actors. What remains of that kind:

- `verdict_db.rs` (tier 0 and reconstruction): the memo keeps a timeout or an error as
  "no" for the rest of the process, and two threads may both run; `ProofDischarge`
  takes its answer as arbitrary.
- The DRAT log of `trust-cg-sat-host`, and its chunked and scan kernels.
