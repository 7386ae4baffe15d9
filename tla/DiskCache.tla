----------------------------- MODULE DiskCache -----------------------------
(***************************************************************************)
(* The on-disk cache of serialized IR text (jit_disk_cache.rs), shared by  *)
(* every process that compiles kernels: stores through a staging file and  *)
(* a rename, lookups that validate and touch, the sweep that enforces the  *)
(* file cap, and clear_disk_cache.  One step is one file system call.      *)
(*                                                                         *)
(* A key is the (formula hash, kernel, builder identity) of a file name,   *)
(* numbered in path order.  The text stored under a key is a function of   *)
(* the key, so the key stands for it.                                      *)
(***************************************************************************)
EXTENDS Naturals, FiniteSets

CONSTANTS
    Procs,       \* threads of execution that use the cache directory
    NumKeys,     \* number of distinct cache file names
    Cap,         \* DEFAULT_DISK_CACHE_FILE_LIMIT
    StaleAge,    \* the age, in ticks, past which a staging file is stale
    MaxClock,    \* bound on the clock
    MaxDamage,   \* bound on external damage to files
    MaxFailures, \* bound on sweeps that fail
    Partial,     \* a file that was created and not written
    Damaged,     \* bytes that fail decode_cache_entry
    None         \* no file

Keys == 1..NumKeys

ASSUME DiskAssumption ==
    /\ NumKeys \in Nat /\ Cap \in Nat /\ StaleAge \in Nat /\ MaxClock \in Nat
    /\ MaxDamage \in Nat /\ MaxFailures \in Nat /\ IsFiniteSet(Procs)
    /\ Keys \cap Procs = {} /\ {Partial, Damaged, None} \cap Keys = {}
    /\ Partial # Damaged /\ None \notin {Partial, Damaged}

VARIABLES
    dir,         \* key -> the cache file of that name, or None
    tmp,         \* process -> its staging file, or None
    op,          \* process -> the call it is in
    clock,       \* file system time
    damage,      \* files damaged so far
    abandoned,   \* stores that renamed their file and did not finish the sweep
    settled      \* abandoned when the newest finished sweep began

vars == <<dir, tmp, op, clock, damage, abandoned, settled>>

\* What a file holds.
Texts == Keys \cup {Partial, Damaged}

Files == [text : Texts, mtime : 0..MaxClock]

\* born tells the staging files of one process apart, as the timestamp and the
\* discriminator of temporary_cache_filename do.
StagingFiles == [text : Texts, mtime : 0..MaxClock, born : 0..MaxClock]

ASSUME FileAssumption == None \notin Files \cup StagingFiles

Names == Keys \cup Procs

Idle == [at |-> "idle"]

Init ==
    /\ dir = [k \in Keys |-> None]
    /\ tmp = [p \in Procs |-> None]
    /\ op = [p \in Procs |-> Idle]
    /\ clock = 0 /\ damage = 0 /\ abandoned = 0 /\ settled = 0

Goto(p, o) == op' = [op EXCEPT ![p] = o]

File(name) == IF name \in Keys THEN dir[name] ELSE tmp[name]

-----------------------------------------------------------------------------
(* disk_store                                                              *)

\* File::create of a staging file no other writer can name.
Create(p, k) ==
    /\ op[p] = Idle
    /\ tmp' = [tmp EXCEPT ![p] = [text |-> Partial, mtime |-> clock, born |-> clock]]
    /\ Goto(p, [at |-> "write", key |-> k, began |-> clock])
    /\ UNCHANGED <<dir, clock, damage, abandoned, settled>>

\* Mutant: the result of the write is not looked at.
MutWrite(p) ==
    /\ op[p].at = "write"
    /\ Goto(p, [op[p] EXCEPT !.at = "rename"])
    /\ UNCHANGED <<dir, tmp, clock, damage, abandoned, settled>>

\* write_all and sync_data.  A sweep may have unlinked the file already.
Write(p) ==
    /\ op[p].at = "write"
    /\ tmp' = IF tmp[p] = None THEN tmp
              ELSE [tmp EXCEPT ![p].text = op[p].key, ![p].mtime = clock]
    /\ Goto(p, [op[p] EXCEPT !.at = "rename"])
    /\ UNCHANGED <<dir, clock, damage, abandoned, settled>>

Sweep(unread) == [at |-> "scan", unread |-> unread, seen |-> {}, start |-> abandoned]

\* rename replaces the destination; it fails if the staging file is gone.
Rename(p) ==
    /\ op[p].at = "rename"
    /\ IF tmp[p] = None
       THEN Goto(p, Idle) /\ UNCHANGED <<dir, tmp>>
       ELSE /\ dir' = [dir EXCEPT ![op[p].key] =
                         [text |-> tmp[p].text, mtime |-> tmp[p].mtime]]
            /\ tmp' = [tmp EXCEPT ![p] = None]
            /\ Goto(p, Sweep(Names))
    /\ UNCHANGED <<clock, damage, abandoned, settled>>

\* Any of the three calls may fail: the staging file is removed, no sweep.
StoreFails(p) ==
    /\ op[p].at \in {"write", "rename"}
    /\ tmp' = [tmp EXCEPT ![p] = None]
    /\ Goto(p, Idle)
    /\ UNCHANGED <<dir, clock, damage, abandoned, settled>>

-----------------------------------------------------------------------------
(* enforce_file_cap                                                        *)

\* Mutant: any staging file counts as stale.
MutListed(name) == File(name) # None

\* A name the sweep collects: a cache file, or a stale staging file.
Listed(name) ==
    /\ File(name) # None
    /\ name \in Keys \/ clock - File(name).mtime > StaleAge

\* What the sweep keeps of a name.
Listing(name) ==
    IF name \in Keys THEN [name |-> name, mtime |-> dir[name].mtime]
    ELSE [name |-> name, born |-> tmp[name].born]

\* One entry of read_dir with its metadata, in no particular order.
Scan(p, name) ==
    /\ op[p].at = "scan" /\ name \in op[p].unread
    /\ Goto(p, [op[p] EXCEPT
                  !.unread = @ \ {name},
                  !.seen = IF Listed(name)
                           THEN @ \cup {Listing(name)}
                           ELSE @])
    /\ UNCHANGED <<dir, tmp, clock, damage, abandoned, settled>>

\* Sorted by mtime, then path.
Older(a, b) == a.mtime < b.mtime \/ (a.mtime = b.mtime /\ a.name < b.name)

\* Mutant: one file too few is removed.
MutVictims(files) ==
    {f \in files : Cardinality({g \in files : Older(g, f)}) + Cap + 1 < Cardinality(files)}

\* The n - cap oldest cache files.
Victims(files) ==
    {f \in files : Cardinality({g \in files : Older(g, f)}) + Cap < Cardinality(files)}

\* The listing is complete: stale staging files go first, then the victims.
Decide(p) ==
    /\ op[p].at = "scan" /\ op[p].unread = {}
    /\ LET files == {e \in op[p].seen : e.name \in Keys}
       IN  Goto(p, [at |-> "remove", stale |-> op[p].seen \ files,
                    victims |-> Victims(files), start |-> op[p].start])
    /\ UNCHANGED <<dir, tmp, clock, damage, abandoned, settled>>

\* The staging file of that name is still there.
StaleTarget(e) == tmp[e.name] # None /\ tmp[e.name].born = e.born

RemoveStale(p) ==
    /\ op[p].at = "remove"
    /\ \E e \in op[p].stale :
          /\ tmp' = IF StaleTarget(e) THEN [tmp EXCEPT ![e.name] = None] ELSE tmp
          /\ Goto(p, [op[p] EXCEPT !.stale = @ \ {e}])
    /\ UNCHANGED <<dir, clock, damage, abandoned, settled>>

RemoveVictim(p) ==
    /\ op[p].at = "remove" /\ op[p].stale = {}
    /\ \E e \in op[p].victims :
          /\ \A f \in op[p].victims \ {e} : Older(e, f)
          /\ dir' = [dir EXCEPT ![e.name] = None]
          /\ Goto(p, [op[p] EXCEPT !.victims = @ \ {e}])
    /\ UNCHANGED <<tmp, clock, damage, abandoned, settled>>

SweepDone(p) ==
    /\ op[p].at = "remove" /\ op[p].stale = {} /\ op[p].victims = {}
    /\ settled' = IF op[p].start > settled THEN op[p].start ELSE settled
    /\ Goto(p, Idle)
    /\ UNCHANGED <<dir, tmp, clock, damage, abandoned>>

\* read_dir fails: the error is logged and the sweep given up.
SweepFails(p) ==
    /\ op[p].at = "scan" /\ abandoned < MaxFailures
    /\ abandoned' = abandoned + 1
    /\ Goto(p, Idle)
    /\ UNCHANGED <<dir, tmp, clock, damage, settled>>

-----------------------------------------------------------------------------
(* disk_lookup, clear_disk_cache                                           *)

\* Mutant: the digest is not compared.
MutDecode(text) == IF text = Partial THEN None ELSE text

\* decode_cache_entry: schema, length and digest must match.
Decode(text) == IF text \in Keys THEN text ELSE None

\* Mutant: a failed decode is returned as a hit.
MutLookup(p, k) ==
    /\ op[p] = Idle /\ dir[k] # None
    /\ Goto(p, [at |-> "touch", key |-> k, text |-> Decode(dir[k].text)])
    /\ UNCHANGED <<dir, tmp, clock, damage, abandoned, settled>>

\* fs::read and decode.
Lookup(p, k) ==
    /\ op[p] = Idle /\ dir[k] # None
    /\ Goto(p, IF Decode(dir[k].text) = None THEN [at |-> "discard", key |-> k]
               ELSE [at |-> "touch", key |-> k, text |-> Decode(dir[k].text)])
    /\ UNCHANGED <<dir, tmp, clock, damage, abandoned, settled>>

\* A file that failed validation is removed by name, whatever is there now.
Discard(p) ==
    /\ op[p].at = "discard"
    /\ dir' = [dir EXCEPT ![op[p].key] = None]
    /\ Goto(p, Idle)
    /\ UNCHANGED <<tmp, clock, damage, abandoned, settled>>

\* Mutant: touch writes the text it read back to the path.
MutTouch(p) ==
    /\ op[p].at = "touch"
    /\ dir' = [dir EXCEPT ![op[p].key] = [text |-> op[p].text, mtime |-> clock]]
    /\ Goto(p, Idle)
    /\ UNCHANGED <<tmp, clock, damage, abandoned, settled>>

\* touch rewrites the first byte in place; the lookup returns its text.
Touch(p) ==
    /\ op[p].at = "touch"
    /\ dir' = IF dir[op[p].key] = None THEN dir
              ELSE [dir EXCEPT ![op[p].key].mtime = clock]
    /\ Goto(p, Idle)
    /\ UNCHANGED <<tmp, clock, damage, abandoned, settled>>

\* clear_disk_cache removes cache files while it reads the directory.
Clear(p) ==
    /\ op[p] = Idle
    /\ Goto(p, [at |-> "clear", unread |-> Keys])
    /\ UNCHANGED <<dir, tmp, clock, damage, abandoned, settled>>

ClearStep(p) ==
    /\ op[p].at = "clear"
    /\ IF op[p].unread = {} THEN Goto(p, Idle) /\ UNCHANGED dir
       ELSE \E k \in op[p].unread :
              /\ dir' = [dir EXCEPT ![k] = None]
              /\ Goto(p, [op[p] EXCEPT !.unread = @ \ {k}])
    /\ UNCHANGED <<tmp, clock, damage, abandoned, settled>>

-----------------------------------------------------------------------------
(* The environment                                                         *)

\* A process dies inside a call; its staging file stays.
Crash(p) ==
    /\ op[p].at \notin {"idle", "crashed"}
    /\ Goto(p, [at |-> "crashed"])
    /\ abandoned' = IF op[p].at \in {"scan", "remove"} THEN abandoned + 1 ELSE abandoned
    /\ UNCHANGED <<dir, tmp, clock, damage, settled>>

Damage(k) ==
    /\ damage < MaxDamage /\ dir[k] # None
    /\ dir' = [dir EXCEPT ![k].text = Damaged]
    /\ damage' = damage + 1
    /\ UNCHANGED <<tmp, op, clock, abandoned, settled>>

Tick ==
    /\ clock < MaxClock
    /\ clock' = clock + 1
    /\ UNCHANGED <<dir, tmp, op, damage, abandoned, settled>>

Next ==
    \/ \E p \in Procs :
          \/ \E k \in Keys : Create(p, k) \/ Lookup(p, k)
          \/ Write(p) \/ Rename(p) \/ StoreFails(p)
          \/ \E name \in Names : Scan(p, name)
          \/ Decide(p) \/ RemoveStale(p) \/ RemoveVictim(p) \/ SweepDone(p)
          \/ SweepFails(p)
          \/ Discard(p) \/ Touch(p) \/ Clear(p) \/ ClearStep(p) \/ Crash(p)
    \/ \E k \in Keys : Damage(k)
    \/ Tick

Spec == Init /\ [][Next]_vars

-----------------------------------------------------------------------------
(* Properties                                                              *)

CacheEntries == [name : Keys, mtime : 0..MaxClock]

StaleEntries == [name : Procs, born : 0..MaxClock]

Calls ==
    [at : {"idle", "crashed"}]
    \cup [at : {"write", "rename"}, key : Keys, began : 0..MaxClock]
    \cup [at : {"scan"}, unread : SUBSET Names,
          seen : SUBSET (CacheEntries \cup StaleEntries), start : Nat]
    \cup [at : {"remove"}, stale : SUBSET StaleEntries,
          victims : SUBSET CacheEntries, start : Nat]
    \cup [at : {"discard"}, key : Keys]
    \cup [at : {"touch"}, key : Keys, text : Texts]
    \cup [at : {"clear"}, unread : SUBSET Keys]

\* The directory, the staging files and every call have their types.
TypeOK ==
    /\ dir \in [Keys -> Files \cup {None}]
    /\ tmp \in [Procs -> StagingFiles \cup {None}]
    /\ op \in [Procs -> Calls]
    /\ clock \in 0..MaxClock /\ damage \in 0..MaxDamage
    /\ abandoned \in Nat /\ settled \in Nat

\* No reader ever finds a half-written file under a cache name, whatever writers
\* crash, fail or overtake each other (disk_store writes a staging file and
\* renames it).
NoPartialEntry == \A k \in Keys : dir[k] # None => dir[k].text # Partial

\* A lookup hands out only the text that was stored under its own key, even if
\* the file was damaged, replaced or removed meanwhile (disk_lookup).
AnswersMatchKey == \A p \in Procs : op[p].at = "touch" => op[p].text = op[p].key

Present == {k \in Keys : dir[k] # None}

Sweeping == {p \in Procs : op[p].at \in {"scan", "remove"}}

\* enforce_file_cap bounds the directory although sweeps work on stale listings
\* and overlap: the files beyond the cap are those of stores whose sweep is
\* still running, or was abandoned since the newest finished sweep began.
WithinCap ==
    Cardinality(Present) <= Cap + Cardinality(Sweeping) + (abandoned - settled)

\* Only a store slower than the stale age can lose its staging file to another
\* process's sweep and so fail at its rename.
OnlySlowStoresLost ==
    \A p \in Procs : op[p].at \in {"write", "rename"} /\ tmp[p] = None =>
        clock - op[p].began > StaleAge

\* The keys whose file a lookup can decode.
Readable == {k \in Keys : dir[k] # None /\ dir[k].text = k}

\* The key of the disk_store call a process is in, up to its rename.
Storing ==
    [p \in Procs |-> IF op[p].at \in {"write", "rename"} THEN op[p].key ELSE None]

Disk == INSTANCE LossyDisk WITH readable <- Readable, storing <- Storing

\* The directory is a lossy store: a key becomes readable only at the rename of a
\* disk_store call for that key; no lookup, sweep or failed store revives a file
\* that was removed or damaged.
ImplementsLossyDisk == Disk!Spec

=============================================================================
