-------------------------- MODULE DiskCacheProofs --------------------------
(***************************************************************************)
(* The disk cache for every number of processes, keys and files, whatever  *)
(* the clock does and whoever crashes: what is found under a cache name,   *)
(* what a lookup returns, which stores lose their staging file, and that   *)
(* the directory is a lossy store.                                         *)
(***************************************************************************)
EXTENDS DiskCache, TLAPS

\* Most steps are first-order; those that count or compare name SMT.
USE Zenon

-----------------------------------------------------------------------------
(* Calls                                                                   *)

Resting == [at : {"idle", "crashed"}]

Stores == [at : {"write", "rename"}, key : Keys, began : 0..MaxClock]

Scans == [at : {"scan"}, unread : SUBSET Names,
          seen : SUBSET (CacheEntries \cup StaleEntries), start : Nat]

Removals == [at : {"remove"}, stale : SUBSET StaleEntries,
             victims : SUBSET CacheEntries, start : Nat]

Discards == [at : {"discard"}, key : Keys]

Hits == [at : {"touch"}, key : Keys, text : Texts]

Clears == [at : {"clear"}, unread : SUBSET Keys]

\* A call is of the kind that its place tells.
LEMMA CallKinds ==
    ASSUME NEW c \in Calls
    PROVE  /\ c.at \in {"idle", "crashed", "write", "rename", "scan", "remove",
                        "discard", "touch", "clear"}
           /\ c.at \in {"write", "rename"} => c \in Stores
           /\ c.at = "scan" => c \in Scans
           /\ c.at = "remove" => c \in Removals
           /\ c.at = "discard" => c \in Discards
           /\ c.at = "touch" => c \in Hits
           /\ c.at = "clear" => c \in Clears
BY DEF Calls, Stores, Scans, Removals, Discards, Hits, Clears

\* The kinds make up the calls.
LEMMA KindsAreCalls ==
    Calls = Resting \cup Stores \cup Scans \cup Removals \cup Discards \cup Hits \cup Clears
BY DEF Calls, Resting, Stores, Scans, Removals, Discards, Hits, Clears

\* An entry of a listing is of a cache file or of a staging file, never both.
LEMMA EntryKinds ==
    ASSUME NEW e \in CacheEntries \cup StaleEntries
    PROVE  /\ e.name \in Keys <=> e \in CacheEntries
           /\ e.name \in Procs <=> e \in StaleEntries
BY DiskAssumption DEF CacheEntries, StaleEntries

-----------------------------------------------------------------------------
(* The inductive invariant                                                 *)

\* A cache file holds the text of its own key, or was damaged.
DirInv ==
    /\ dir \in [Keys -> Files \cup {None}]
    /\ \A k \in Keys : dir[k] # None => dir[k].text \in {k, Damaged}

\* A staging file is as old as its store, holds the whole text before the rename,
\* and is lost only to a sweep that found it stale.
StagingInv(p) ==
    /\ tmp[p] # None => tmp[p].born <= tmp[p].mtime /\ tmp[p].mtime <= clock
    /\ op[p].at \in {"write", "rename"} =>
          IF tmp[p] # None THEN tmp[p].born = op[p].began
          ELSE clock - op[p].began > StaleAge
    /\ op[p].at = "rename" /\ tmp[p] # None => tmp[p].text = op[p].key

\* A hit is of its own key; the staging files on a listing are stale, and stay so.
CallInv(c, now) ==
    /\ c.at = "touch" => c.text = c.key
    /\ c.at = "scan" => \A e \in c.seen : e.name \in Procs => now - e.born > StaleAge
    /\ c.at = "remove" => \A e \in c.stale : now - e.born > StaleAge

FilesInv ==
    /\ tmp \in [Procs -> StagingFiles \cup {None}]
    /\ op \in [Procs -> Calls]
    /\ clock \in 0..MaxClock /\ damage \in 0..MaxDamage
    /\ abandoned \in Nat /\ settled \in Nat
    /\ DirInv
    /\ \A p \in Procs : StagingInv(p) /\ CallInv(op[p], clock)

\* A step of one process keeps the invariant if the call it goes to does, and if
\* it takes from others only staging files that are stale.
LEMMA StepKeeps ==
    ASSUME FilesInv, NEW p \in Procs, NEW c \in Calls,
           op' = [op EXCEPT ![p] = c], clock' = clock, CallInv(c, clock),
           damage' = damage, abandoned' \in Nat, settled' \in Nat, DirInv',
           tmp' \in [Procs -> StagingFiles \cup {None}], StagingInv(p)',
           \A q \in Procs \ {p} :
              \/ tmp'[q] = tmp[q]
              \/ /\ tmp'[q] = None
                 /\ op[q].at \in {"write", "rename"} => clock - op[q].began > StaleAge
    PROVE  FilesInv'
<1>1. op' \in [Procs -> Calls] /\ op'[p] = c /\ \A q \in Procs \ {p} : op'[q] = op[q]
  BY DEF FilesInv
<1>2. \A q \in Procs : CallInv(op'[q], clock')
  BY <1>1 DEF FilesInv
<1>3. ASSUME NEW q \in Procs \ {p}  PROVE StagingInv(q)'
  <2>1. op'[q] = op[q] /\ StagingInv(q)  BY <1>1 DEF FilesInv
  <2>2. CASE tmp'[q] = tmp[q]  BY <2>1, <2>2 DEF StagingInv
  <2>3. CASE tmp'[q] # tmp[q]  BY <2>1, <2>3 DEF StagingInv
  <2> QED  BY <2>2, <2>3
<1> QED  BY <1>1, <1>2, <1>3 DEF FilesInv

\* A step that leaves the staging files alone and is not in a store afterwards.
LEMMA QuietKeeps ==
    ASSUME FilesInv, NEW p \in Procs, NEW c \in Calls, Goto(p, c), CallInv(c, clock),
           c.at \notin {"write", "rename"}, UNCHANGED <<tmp, clock, damage>>,
           abandoned' \in Nat, settled' \in Nat, DirInv'
    PROVE  FilesInv'
<1>1. op' = [op EXCEPT ![p] = c] /\ op'[p] = c  BY DEF Goto, FilesInv
<1>2. StagingInv(p)'  BY <1>1 DEF FilesInv, StagingInv
<1> QED  BY <1>1, <1>2, StepKeeps DEF FilesInv

\* Files are removed by name, and nothing else about the directory changes.
LEMMA DirDrops ==
    ASSUME DirInv, NEW k \in Keys, dir' = [dir EXCEPT ![k] = None]
    PROVE  DirInv'
BY DEF DirInv

\* What a process at rest is at.
LEMMA IdleCall ==
    /\ Idle \in Calls /\ Idle.at = "idle" /\ CallInv(Idle, clock)
    /\ [at |-> "crashed"] \in Calls /\ CallInv([at |-> "crashed"], clock)
BY DEF Idle, Calls, CallInv

-----------------------------------------------------------------------------
(* Every step keeps it: disk_store                                         *)

\* Create: a new staging file, as old as its store.
LEMMA CreateStep ==
    ASSUME FilesInv, NEW p \in Procs, NEW k \in Keys, Create(p, k)  PROVE FilesInv'
<1> DEFINE c == [at |-> "write", key |-> k, began |-> clock]
           f == [text |-> Partial, mtime |-> clock, born |-> clock]
<1>1. c \in Calls /\ c.at = "write" /\ c.began = clock /\ CallInv(c, clock)
  BY DEF FilesInv, Calls, CallInv
<1>2. f \in StagingFiles /\ f.born = clock /\ f.mtime = clock
  BY DEF FilesInv, StagingFiles, Texts
<1>3. f # None  BY <1>2, FileAssumption
<1>4. op' = [op EXCEPT ![p] = c] /\ tmp' = [tmp EXCEPT ![p] = f]
  BY DEF Create, Goto
<1> HIDE DEF c, f
<1>5. op'[p] = c /\ tmp'[p] = f /\ tmp' \in [Procs -> StagingFiles \cup {None}]
      /\ \A q \in Procs \ {p} : tmp'[q] = tmp[q]
  BY <1>2, <1>4 DEF FilesInv
<1>6. StagingInv(p)'  BY <1>1, <1>2, <1>3, <1>5, SMT DEF StagingInv, FilesInv, Create
<1> QED  BY <1>1, <1>4, <1>5, <1>6, StepKeeps DEF Create, FilesInv, DirInv

\* Write: from now on the staging file holds the whole text, if it is still there.
LEMMA WriteStep ==
    ASSUME FilesInv, NEW p \in Procs, Write(p)  PROVE FilesInv'
<1> DEFINE c == [op[p] EXCEPT !.at = "rename"]
           f == [tmp[p] EXCEPT !.text = op[p].key, !.mtime = clock]
<1>1. op[p] \in Stores /\ op[p].at = "write" /\ op' = [op EXCEPT ![p] = c]
  BY CallKinds DEF Write, Goto, FilesInv
<1>2. c \in Stores /\ c.at = "rename" /\ c.key = op[p].key /\ c.began = op[p].began
      /\ c.key \in Keys
  BY <1>1 DEF Stores
<1> HIDE DEF c
<1>3. c \in Calls /\ CallInv(c, clock) /\ op'[p] = c
  BY <1>1, <1>2, KindsAreCalls DEF CallInv, FilesInv
<1>4. CASE tmp[p] = None
  <2>1. tmp' = tmp  BY <1>4 DEF Write
  <2>2. StagingInv(p)'
    BY <1>1, <1>2, <1>3, <1>4, <2>1 DEF Write, StagingInv, FilesInv
  <2> QED  BY <1>1, <1>3, <2>1, <2>2, StepKeeps DEF Write, FilesInv, DirInv
<1>5. CASE tmp[p] # None
  <2>1. tmp[p] \in StagingFiles /\ tmp' = [tmp EXCEPT ![p] = f]
    BY <1>5 DEF Write, FilesInv
  <2>2. f \in StagingFiles /\ f.text = c.key /\ f.mtime = clock /\ f.born = tmp[p].born
    BY <1>2, <2>1 DEF StagingFiles, Texts, FilesInv
  <2>3. f # None  BY <2>2, FileAssumption
  <2> HIDE DEF f
  <2>4. tmp'[p] = f /\ tmp' \in [Procs -> StagingFiles \cup {None}]
        /\ \A q \in Procs \ {p} : tmp'[q] = tmp[q]
    BY <2>1, <2>2 DEF FilesInv
  <2>5. f.born <= clock
    BY <1>5, <2>1, <2>2, SMT DEF FilesInv, StagingInv, StagingFiles
  <2>6. StagingInv(p)'
    BY <1>1, <1>2, <1>3, <1>5, <2>2, <2>3, <2>4, <2>5, SMT DEF Write, StagingInv, FilesInv
  <2> QED  BY <1>1, <1>3, <2>4, <2>6, StepKeeps DEF Write, FilesInv, DirInv
<1> QED  BY <1>4, <1>5

\* A sweep has seen nothing when it begins.
LEMMA SweepBegins ==
    ASSUME abandoned \in Nat
    PROVE  Sweep(Names) \in Calls /\ Sweep(Names).at = "scan" /\ CallInv(Sweep(Names), clock)
<1> DEFINE c == [at |-> "scan", unread |-> Names, seen |-> {}, start |-> abandoned]
<1>1. c \in Scans /\ c.at = "scan" /\ c.seen = {}  BY DEF Scans
<1> QED  BY <1>1, KindsAreCalls DEF Sweep, CallInv

\* Rename: what is published is the whole text of its key.
LEMMA RenameStep ==
    ASSUME FilesInv, NEW p \in Procs, Rename(p)  PROVE FilesInv'
<1>1. op[p] \in Stores /\ op[p].at = "rename" /\ op[p].key \in Keys
  BY CallKinds DEF Rename, FilesInv, Stores
<1>2. CASE tmp[p] = None
  BY <1>2, IdleCall, QuietKeeps DEF Rename, FilesInv, DirInv, Idle
<1>3. CASE tmp[p] # None
  <2> DEFINE k == op[p].key
             f == [text |-> tmp[p].text, mtime |-> tmp[p].mtime]
  <2>1. tmp[p] \in StagingFiles /\ tmp[p].text = k
    BY <1>1, <1>3 DEF FilesInv, StagingInv
  <2>2. f \in Files /\ f.text = k  BY <2>1 DEF StagingFiles, Files
  <2>3. dir' = [dir EXCEPT ![k] = f] /\ tmp' = [tmp EXCEPT ![p] = None]
        /\ op' = [op EXCEPT ![p] = Sweep(Names)]
    BY <1>3 DEF Rename, Goto
  <2> HIDE DEF k, f
  <2>4. DirInv'  BY <2>2, <2>3 DEF DirInv, FilesInv
  <2>5. tmp'[p] = None /\ tmp' \in [Procs -> StagingFiles \cup {None}]
        /\ \A q \in Procs \ {p} : tmp'[q] = tmp[q]
    BY <2>3 DEF FilesInv
  <2>6. op'[p] = Sweep(Names) /\ Sweep(Names) \in Calls /\ CallInv(Sweep(Names), clock)
        /\ Sweep(Names).at = "scan"
    BY <2>3, SweepBegins DEF FilesInv
  <2>7. StagingInv(p)'  BY <2>5, <2>6 DEF StagingInv
  <2> QED  BY <2>3, <2>4, <2>5, <2>6, <2>7, StepKeeps DEF Rename, FilesInv
<1> QED  BY <1>2, <1>3

\* StoreFails: the process's own staging file is removed.
LEMMA StoreFailsStep ==
    ASSUME FilesInv, NEW p \in Procs, StoreFails(p)  PROVE FilesInv'
<1>1. tmp' = [tmp EXCEPT ![p] = None] /\ op' = [op EXCEPT ![p] = Idle]
  BY DEF StoreFails, Goto
<1>2. tmp'[p] = None /\ tmp' \in [Procs -> StagingFiles \cup {None}] /\ op'[p] = Idle
      /\ \A q \in Procs \ {p} : tmp'[q] = tmp[q]
  BY <1>1 DEF FilesInv
<1>3. StagingInv(p)'  BY <1>2, IdleCall DEF StagingInv
<1> QED  BY <1>1, <1>2, <1>3, IdleCall, StepKeeps DEF StoreFails, FilesInv, DirInv

-----------------------------------------------------------------------------
(* enforce_file_cap                                                        *)

\* A name is listed with an entry of its kind; a staging file is listed as stale.
LEMMA ListingKinds ==
    ASSUME FilesInv, NEW name \in Names, Listed(name)
    PROVE  /\ Listing(name) \in CacheEntries \cup StaleEntries /\ Listing(name).name = name
           /\ name \in Keys => dir[name] # None
           /\ name \in Procs => clock - Listing(name).born > StaleAge
<1>1. CASE name \in Keys
  <2>1. name \notin Procs  BY <1>1, DiskAssumption
  <2>2. dir[name] \in Files  BY <1>1 DEF Listed, File, FilesInv, DirInv
  <2>3. Listing(name) = [name |-> name, mtime |-> dir[name].mtime]
    BY <1>1 DEF Listing
  <2> QED  BY <1>1, <2>1, <2>2, <2>3, SMT DEF CacheEntries, Files, Listed, File
<1>2. CASE name \notin Keys
  <2>1. name \in Procs  BY <1>2 DEF Names
  <2>2. tmp[name] \in StagingFiles /\ clock - tmp[name].mtime > StaleAge
    BY <1>2, <2>1 DEF Listed, File, FilesInv
  <2>3. tmp[name].born <= tmp[name].mtime
    BY <1>2, <2>1 DEF Listed, File, FilesInv, StagingInv
  <2>4. Listing(name) = [name |-> name, born |-> tmp[name].born]
    BY <1>2 DEF Listing
  <2>5. clock - tmp[name].born > StaleAge
    BY <2>2, <2>3, DiskAssumption, SMT DEF StagingFiles, FilesInv
  <2> QED  BY <1>2, <2>1, <2>2, <2>4, <2>5, SMT DEF StaleEntries, StagingFiles
<1> QED  BY <1>1, <1>2

\* What a step of the scan does to the call.
LEMMA ScanGoesTo ==
    ASSUME FilesInv, NEW p \in Procs, NEW name \in Names, Scan(p, name)
    PROVE  \E c \in Scans :
              /\ op' = [op EXCEPT ![p] = c] /\ op'[p] = c
              /\ c.unread = op[p].unread \ {name} /\ c.start = op[p].start
              /\ c.seen = IF Listed(name) THEN op[p].seen \cup {Listing(name)}
                                          ELSE op[p].seen
<1> DEFINE u == op[p].unread \ {name}
           s == IF Listed(name) THEN op[p].seen \cup {Listing(name)} ELSE op[p].seen
           c == [op[p] EXCEPT !.unread = u, !.seen = s]
<1>1. op[p] \in Scans /\ op' = [op EXCEPT ![p] = c]
  BY CallKinds DEF Scan, Goto, FilesInv
<1>2. u \in SUBSET Names /\ s \in SUBSET (CacheEntries \cup StaleEntries)
  <2>1. op[p].unread \in SUBSET Names
        /\ op[p].seen \in SUBSET (CacheEntries \cup StaleEntries)
    BY <1>1 DEF Scans
  <2> QED  BY <2>1, ListingKinds
<1> HIDE DEF u, s
<1>3. c \in Scans /\ c.unread = u /\ c.seen = s /\ c.start = op[p].start
  BY <1>1, <1>2 DEF Scans
<1>4. op'[p] = c  BY <1>1 DEF FilesInv
<1> QED  BY <1>1, <1>3, <1>4 DEF u, s

\* Scan: a listed staging file is stale.
LEMMA ScanStep ==
    ASSUME FilesInv, NEW p \in Procs, NEW name \in Names, Scan(p, name)  PROVE FilesInv'
<1>1. PICK c \in Scans :
         /\ op' = [op EXCEPT ![p] = c]
         /\ c.seen = IF Listed(name) THEN op[p].seen \cup {Listing(name)} ELSE op[p].seen
  BY ScanGoesTo
<1>2. op[p] \in Scans /\ op[p].at = "scan" /\ CallInv(op[p], clock)
  BY CallKinds DEF Scan, FilesInv
<1>3. \A e \in c.seen : e.name \in Procs => clock - e.born > StaleAge
  BY <1>1, <1>2, ListingKinds, SMT DEF CallInv
<1>4. c \in Calls /\ c.at = "scan" /\ CallInv(c, clock)
  BY <1>3, KindsAreCalls DEF Scans, CallInv
<1> QED  BY <1>1, <1>4, QuietKeeps DEF Scan, Goto, FilesInv, DirInv

\* What the decision makes of a listing.
LEMMA DecideGoesTo ==
    ASSUME FilesInv, NEW p \in Procs, Decide(p)
    PROVE  \E c \in Removals :
              /\ op' = [op EXCEPT ![p] = c] /\ op'[p] = c /\ c.start = op[p].start
              /\ c.stale = {e \in op[p].seen : e.name \notin Keys}
              /\ c.victims = Victims({e \in op[p].seen : e.name \in Keys})
<1> DEFINE files == {e \in op[p].seen : e.name \in Keys}
           stale == {e \in op[p].seen : e.name \notin Keys}
           c == [at |-> "remove", stale |-> stale, victims |-> Victims(files),
                 start |-> op[p].start]
<1>1. op[p] \in Scans /\ op' = [op EXCEPT ![p] = c]
  BY CallKinds DEF Decide, Goto, FilesInv
<1>2. files \in SUBSET CacheEntries /\ stale \in SUBSET StaleEntries
      /\ op[p].start \in Nat
  BY <1>1, EntryKinds DEF Scans
<1>3. Victims(files) \in SUBSET CacheEntries
  BY <1>2 DEF Victims
<1> HIDE DEF files, stale
<1>4. c \in Removals /\ c.start = op[p].start /\ c.stale = stale /\ c.victims = Victims(files)
  BY <1>2, <1>3 DEF Removals
<1>5. op'[p] = c  BY <1>1 DEF FilesInv
<1> QED  BY <1>1, <1>4, <1>5 DEF files, stale

\* Decide: every staging file to remove is stale.
LEMMA DecideStep ==
    ASSUME FilesInv, NEW p \in Procs, Decide(p)  PROVE FilesInv'
<1>1. PICK c \in Removals :
         /\ op' = [op EXCEPT ![p] = c]
         /\ c.stale = {e \in op[p].seen : e.name \notin Keys}
  BY DecideGoesTo
<1>2. op[p] \in Scans /\ op[p].at = "scan" /\ CallInv(op[p], clock)
  BY CallKinds DEF Decide, FilesInv
<1>3. \A e \in c.stale : e.name \in Procs
  BY <1>1, <1>2, EntryKinds DEF Scans
<1>4. \A e \in c.stale : clock - e.born > StaleAge
  BY <1>1, <1>2, <1>3 DEF CallInv
<1>5. c \in Calls /\ c.at = "remove" /\ CallInv(c, clock)
  BY <1>4, KindsAreCalls DEF Removals, CallInv
<1> QED  BY <1>1, <1>5, QuietKeeps DEF Decide, Goto, FilesInv, DirInv

\* RemoveStale: a store that loses its staging file is slower than the stale age.
LEMMA RemoveStaleStep ==
    ASSUME FilesInv, NEW p \in Procs, RemoveStale(p)  PROVE FilesInv'
<1>1. op[p] \in Removals /\ op[p].at = "remove" /\ CallInv(op[p], clock)
  BY CallKinds DEF RemoveStale, FilesInv
<1>2. PICK e \in op[p].stale :
         /\ tmp' = IF StaleTarget(e) THEN [tmp EXCEPT ![e.name] = None] ELSE tmp
         /\ Goto(p, [op[p] EXCEPT !.stale = @ \ {e}])
  BY DEF RemoveStale
<1> DEFINE s == op[p].stale \ {e}
           c == [op[p] EXCEPT !.stale = s]
<1>3. e \in StaleEntries /\ e.name \in Procs /\ s \in SUBSET StaleEntries
      /\ clock - e.born > StaleAge
  BY <1>1 DEF Removals, StaleEntries, CallInv
<1>4. op' = [op EXCEPT ![p] = c]  BY <1>2 DEF Goto
<1>5. s \subseteq op[p].stale  OBVIOUS
<1> HIDE DEF s
<1>6. c \in Removals /\ c.at = "remove" /\ c.stale = s
  BY <1>1, <1>3 DEF Removals
<1>7. c \in Calls /\ CallInv(c, clock)
  BY <1>1, <1>5, <1>6, KindsAreCalls DEF CallInv
<1> HIDE DEF c
<1>8. op'[p] = c  BY <1>4 DEF FilesInv
<1>9. tmp' \in [Procs -> StagingFiles \cup {None}]
  BY <1>2 DEF FilesInv
<1>10. \A q \in Procs :
          \/ tmp'[q] = tmp[q]
          \/ tmp'[q] = None /\ tmp[q] # None /\ tmp[q].born = e.born
  BY <1>2, <1>3 DEF StaleTarget, FilesInv
<1>11. \A q \in Procs :
          \/ tmp'[q] = tmp[q]
          \/ /\ tmp'[q] = None
             /\ op[q].at \in {"write", "rename"} => clock - op[q].began > StaleAge
  BY <1>3, <1>10 DEF FilesInv, StagingInv
<1>12. StagingInv(p)'
  BY <1>6, <1>8, <1>10 DEF StagingInv, RemoveStale, FilesInv
<1> QED  BY <1>4, <1>7, <1>9, <1>11, <1>12, StepKeeps DEF RemoveStale, FilesInv, DirInv

\* What the removal of a victim does to the call and to the directory.
LEMMA VictimGoesTo ==
    ASSUME FilesInv, NEW p \in Procs, RemoveVictim(p)
    PROVE  \E e \in op[p].victims, c \in Removals :
              /\ op' = [op EXCEPT ![p] = c] /\ op'[p] = c /\ c.start = op[p].start
              /\ c.stale = op[p].stale /\ c.victims = op[p].victims \ {e}
              /\ e.name \in Keys /\ dir' = [dir EXCEPT ![e.name] = None]
<1>1. op[p] \in Removals
  BY CallKinds DEF RemoveVictim, FilesInv
<1>2. PICK e \in op[p].victims :
         /\ dir' = [dir EXCEPT ![e.name] = None]
         /\ Goto(p, [op[p] EXCEPT !.victims = @ \ {e}])
  BY DEF RemoveVictim
<1> DEFINE v == op[p].victims \ {e}
           c == [op[p] EXCEPT !.victims = v]
<1>3. e.name \in Keys /\ v \in SUBSET CacheEntries
  BY <1>1 DEF Removals, CacheEntries
<1>4. op' = [op EXCEPT ![p] = c]  BY <1>2 DEF Goto
<1> HIDE DEF v
<1>5. c \in Removals /\ c.stale = op[p].stale /\ c.victims = v /\ c.start = op[p].start
  BY <1>1, <1>3 DEF Removals
<1>6. op'[p] = c  BY <1>4 DEF FilesInv
<1> QED  BY <1>2, <1>3, <1>4, <1>5, <1>6 DEF v

\* RemoveVictim removes a cache file.
LEMMA RemoveVictimStep ==
    ASSUME FilesInv, NEW p \in Procs, RemoveVictim(p)  PROVE FilesInv'
<1>1. PICK e \in op[p].victims, c \in Removals :
         /\ op' = [op EXCEPT ![p] = c] /\ c.stale = op[p].stale
         /\ e.name \in Keys /\ dir' = [dir EXCEPT ![e.name] = None]
  BY VictimGoesTo, SMT
<1>2. op[p].at = "remove" /\ CallInv(op[p], clock)
  BY DEF RemoveVictim, FilesInv
<1>3. c \in Calls /\ c.at = "remove" /\ CallInv(c, clock)
  BY <1>1, <1>2, KindsAreCalls DEF Removals, CallInv
<1>4. DirInv'  BY <1>1, DirDrops DEF FilesInv
<1> QED  BY <1>1, <1>3, <1>4, QuietKeeps DEF RemoveVictim, Goto, FilesInv

-----------------------------------------------------------------------------
(* disk_lookup, clear_disk_cache and the environment                       *)

\* Lookup: what decodes is the text of the key that was asked for.
LEMMA LookupStep ==
    ASSUME FilesInv, NEW p \in Procs, NEW k \in Keys, Lookup(p, k)  PROVE FilesInv'
<1>1. dir[k] # None /\ dir[k].text \in {k, Damaged}
  BY DEF Lookup, FilesInv, DirInv
<1>2. CASE Decode(dir[k].text) = None
  <2> DEFINE c == [at |-> "discard", key |-> k]
  <2>1. c \in Calls /\ c.at = "discard" /\ CallInv(c, clock)
    BY DEF Calls, CallInv
  <2>2. Goto(p, c)  BY <1>2 DEF Lookup
  <2> HIDE DEF c
  <2> QED  BY <2>1, <2>2, QuietKeeps DEF Lookup, FilesInv, DirInv
<1>3. CASE Decode(dir[k].text) # None
  <2> DEFINE c == [at |-> "touch", key |-> k, text |-> k]
  <2>1. Decode(dir[k].text) = k
    BY <1>1, <1>3, DiskAssumption DEF Decode
  <2>2. c \in Hits /\ c.at = "touch" /\ c.text = c.key  BY DEF Hits, Texts
  <2>3. c \in Calls /\ CallInv(c, clock)
    BY <2>2, KindsAreCalls DEF CallInv
  <2>4. Goto(p, c)  BY <1>3, <2>1 DEF Lookup
  <2> HIDE DEF c
  <2> QED  BY <2>2, <2>3, <2>4, QuietKeeps DEF Lookup, FilesInv, DirInv
<1> QED  BY <1>2, <1>3

\* Discard removes a file.
LEMMA DiscardStep ==
    ASSUME FilesInv, NEW p \in Procs, Discard(p)  PROVE FilesInv'
<1>1. op[p].key \in Keys  BY CallKinds DEF Discard, Discards, FilesInv
<1>2. DirInv'  BY <1>1, DirDrops DEF Discard, FilesInv
<1> QED  BY <1>2, IdleCall, QuietKeeps DEF Discard, FilesInv

\* Touch leaves the text of whatever file is there.
LEMMA TouchStep ==
    ASSUME FilesInv, NEW p \in Procs, Touch(p)  PROVE FilesInv'
<1> DEFINE k == op[p].key
           f == [dir[k] EXCEPT !.mtime = clock]
<1>1. k \in Keys  BY CallKinds DEF Touch, Hits, FilesInv
<1>2. CASE dir[k] = None
  <2>1. DirInv'  BY <1>2 DEF Touch, DirInv, FilesInv
  <2> QED  BY <2>1, IdleCall, QuietKeeps DEF Touch, FilesInv
<1>3. CASE dir[k] # None
  <2>1. dir[k] \in Files /\ dir' = [dir EXCEPT ![k] = f]
    BY <1>1, <1>3 DEF Touch, FilesInv, DirInv
  <2>2. f \in Files /\ f.text = dir[k].text  BY <2>1 DEF Files, FilesInv
  <2> HIDE DEF f, k
  <2>3. DirInv'  BY <1>1, <1>3, <2>1, <2>2 DEF DirInv, FilesInv
  <2> QED  BY <2>3, IdleCall, QuietKeeps DEF Touch, FilesInv
<1> QED  BY <1>2, <1>3

\* Clear begins to read the directory.
LEMMA ClearBegins ==
    ASSUME FilesInv, NEW p \in Procs, Clear(p)  PROVE FilesInv'
<1> DEFINE c == [at |-> "clear", unread |-> Keys]
<1>1. c \in Calls /\ c.at = "clear" /\ CallInv(c, clock)  BY DEF Calls, CallInv
<1>2. Goto(p, c)  BY DEF Clear
<1> HIDE DEF c
<1> QED  BY <1>1, <1>2, QuietKeeps DEF Clear, FilesInv, DirInv

\* ClearStep removes a file, or ends.
LEMMA ClearStepStep ==
    ASSUME FilesInv, NEW p \in Procs, ClearStep(p)  PROVE FilesInv'
<1>1. op[p] \in Clears  BY CallKinds DEF ClearStep, FilesInv
<1>2. CASE op[p].unread = {}
  BY <1>2, IdleCall, QuietKeeps DEF ClearStep, FilesInv, DirInv
<1>3. CASE op[p].unread # {}
  <2>1. PICK k \in op[p].unread :
           dir' = [dir EXCEPT ![k] = None] /\ Goto(p, [op[p] EXCEPT !.unread = @ \ {k}])
    BY <1>3 DEF ClearStep
  <2> DEFINE u == op[p].unread \ {k}
             c == [op[p] EXCEPT !.unread = u]
  <2>2. k \in Keys /\ u \in SUBSET Keys  BY <1>1 DEF Clears
  <2>3. Goto(p, c)  BY <2>1 DEF Goto
  <2> HIDE DEF u
  <2>4. c \in Clears /\ c.at = "clear"  BY <1>1, <2>2 DEF Clears
  <2>5. c \in Calls /\ CallInv(c, clock)  BY <2>4, KindsAreCalls DEF CallInv
  <2> HIDE DEF c
  <2>6. DirInv'  BY <2>1, <2>2, DirDrops DEF FilesInv
  <2> QED  BY <2>3, <2>4, <2>5, <2>6, QuietKeeps DEF ClearStep, FilesInv
<1> QED  BY <1>2, <1>3

\* A sweep ends, or a process dies.
LEMMA EndStep ==
    ASSUME FilesInv, NEW p \in Procs, SweepDone(p) \/ SweepFails(p) \/ Crash(p)
    PROVE  FilesInv'
<1>1. CASE SweepDone(p)
  <2>1. op[p] \in Removals  BY <1>1, CallKinds DEF SweepDone, FilesInv
  <2>2. settled' \in Nat  BY <1>1, <2>1 DEF SweepDone, Removals, FilesInv
  <2> QED  BY <1>1, <2>2, IdleCall, QuietKeeps DEF SweepDone, FilesInv, DirInv
<1>2. CASE SweepFails(p)
  BY <1>2, IdleCall, QuietKeeps, SMT DEF SweepFails, FilesInv, DirInv
<1>3. CASE Crash(p)
  <2> DEFINE c == [at |-> "crashed"]
  <2>1. c \in Calls /\ CallInv(c, clock) /\ c.at = "crashed"  BY IdleCall
  <2>2. Goto(p, c)  BY <1>3 DEF Crash
  <2> HIDE DEF c
  <2> QED  BY <1>3, <2>1, <2>2, QuietKeeps, SMT DEF Crash, FilesInv, DirInv
<1> QED  BY <1>1, <1>2, <1>3

\* Damage and the clock leave calls and staging files alone.
LEMMA WorldStep ==
    ASSUME FilesInv, (\E k \in Keys : Damage(k)) \/ Tick
    PROVE  FilesInv'
<1>1. ASSUME NEW k \in Keys, Damage(k)  PROVE FilesInv'
  <2> DEFINE f == [dir[k] EXCEPT !.text = Damaged]
  <2>1. dir[k] \in Files /\ dir' = [dir EXCEPT ![k] = f]
    BY <1>1 DEF Damage, FilesInv, DirInv
  <2>2. f \in Files /\ f.text = Damaged  BY <2>1 DEF Files, Texts
  <2> HIDE DEF f
  <2>3. DirInv'  BY <2>1, <2>2 DEF DirInv, FilesInv
  <2>4. damage' \in 0..MaxDamage  BY <1>1, DiskAssumption, SMT DEF Damage, FilesInv
  <2> QED  BY <1>1, <2>3, <2>4 DEF Damage, FilesInv, StagingInv
<1>2. CASE Tick
  <2>1. clock' = clock + 1 /\ clock' \in 0..MaxClock /\ clock \in Nat
    BY <1>2, DiskAssumption, SMT DEF Tick, FilesInv
  <2>2. ASSUME NEW p \in Procs  PROVE StagingInv(p)'
    <3>1. op[p] \in Calls /\ StagingInv(p) /\ tmp[p] \in StagingFiles \cup {None}
      BY DEF FilesInv
    <3>2. op[p].at \in {"write", "rename"} => op[p].began \in Nat
      BY <3>1, CallKinds, SMT DEF Stores
    <3>3. tmp[p] # None => tmp[p].mtime \in Nat  BY <3>1, SMT DEF StagingFiles
    <3> QED
      BY <1>2, <2>1, <3>1, <3>2, <3>3, DiskAssumption, SMT DEF StagingInv, Tick
  <2>3. ASSUME NEW p \in Procs  PROVE CallInv(op'[p], clock')
    <3>1. op'[p] = op[p] /\ op[p] \in Calls /\ CallInv(op[p], clock)
      BY <1>2 DEF FilesInv, Tick
    <3>2. op[p].at = "scan" => \A e \in op[p].seen : e.name \in Procs => e.born \in Nat
      BY <3>1, CallKinds, EntryKinds, SMT DEF Scans, StaleEntries
    <3>3. op[p].at = "remove" => \A e \in op[p].stale : e.born \in Nat
      BY <3>1, CallKinds, SMT DEF Removals, StaleEntries
    <3> QED  BY <2>1, <3>1, <3>2, <3>3, DiskAssumption, SMT DEF CallInv
  <2> QED  BY <1>2, <2>1, <2>2, <2>3 DEF Tick, FilesInv, DirInv
<1> QED  BY <1>1, <1>2

\* The initial state, and every step.
LEMMA FilesAlways == Spec => []FilesInv
<1>1. Init => FilesInv
  <2> SUFFICES ASSUME Init PROVE FilesInv
    OBVIOUS
  <2>1. DirInv  BY DEF Init, DirInv
  <2>2. \A p \in Procs : op[p] = Idle /\ tmp[p] = None  BY DEF Init
  <2>3. \A p \in Procs : StagingInv(p) /\ CallInv(op[p], clock)
    BY <2>2, IdleCall DEF StagingInv
  <2>4. op \in [Procs -> Calls] /\ tmp \in [Procs -> StagingFiles \cup {None}]
    BY IdleCall DEF Init
  <2> QED  BY <2>1, <2>3, <2>4, DiskAssumption, SMT DEF Init, FilesInv
<1>2. FilesInv /\ [Next]_vars => FilesInv'
  <2> SUFFICES ASSUME FilesInv, [Next]_vars PROVE FilesInv'
    OBVIOUS
  <2>1. CASE UNCHANGED vars
    BY <2>1 DEF vars, FilesInv, DirInv, StagingInv
  <2>2. ASSUME NEW p \in Procs, NEW k \in Keys, Create(p, k) \/ Lookup(p, k)  PROVE FilesInv'
    BY <2>2, CreateStep, LookupStep
  <2>3. ASSUME NEW p \in Procs, Write(p) \/ Rename(p) \/ StoreFails(p)  PROVE FilesInv'
    BY <2>3, WriteStep, RenameStep, StoreFailsStep
  <2>4. ASSUME NEW p \in Procs, NEW name \in Names, Scan(p, name)  PROVE FilesInv'
    BY <2>4, ScanStep
  <2>5. ASSUME NEW p \in Procs, Decide(p) \/ RemoveStale(p) \/ RemoveVictim(p)
        PROVE  FilesInv'
    BY <2>5, DecideStep, RemoveStaleStep, RemoveVictimStep
  <2>6. ASSUME NEW p \in Procs, SweepDone(p) \/ SweepFails(p) \/ Crash(p)  PROVE FilesInv'
    BY <2>6, EndStep
  <2>7. ASSUME NEW p \in Procs, Discard(p) \/ Touch(p) \/ Clear(p) \/ ClearStep(p)
        PROVE  FilesInv'
    BY <2>7, DiscardStep, TouchStep, ClearBegins, ClearStepStep
  <2>8. CASE (\E k \in Keys : Damage(k)) \/ Tick
    BY <2>8, WorldStep
  <2> QED  BY <2>1, <2>2, <2>3, <2>4, <2>5, <2>6, <2>7, <2>8 DEF Next
<1> QED  BY <1>1, <1>2, PTL DEF Spec

\* The directory, the staging files and every call keep their types.
THEOREM TypeCorrect == Spec => []TypeOK
<1>1. FilesInv => TypeOK  BY DEF FilesInv, DirInv, TypeOK
<1> QED  BY <1>1, FilesAlways, PTL

\* disk_store: nobody ever finds a half-written file under a cache name.
THEOREM NeverPartial == Spec => []NoPartialEntry
<1>1. FilesInv => NoPartialEntry
  BY DiskAssumption DEF FilesInv, DirInv, NoPartialEntry
<1> QED  BY <1>1, FilesAlways, PTL

\* disk_lookup: a hit returns the text that was stored under its own key.
THEOREM HitsMatch == Spec => []AnswersMatchKey
<1>1. FilesInv => AnswersMatchKey  BY DEF FilesInv, CallInv, AnswersMatchKey
<1> QED  BY <1>1, FilesAlways, PTL

\* enforce_file_cap: only a store slower than the stale age loses its staging file.
THEOREM FastStoresKeep == Spec => []OnlySlowStoresLost
<1>1. FilesInv => OnlySlowStoresLost
  BY DEF FilesInv, StagingInv, OnlySlowStoresLost
<1> QED  BY <1>1, FilesAlways, PTL

-----------------------------------------------------------------------------
(* The directory is a lossy store                                          *)

\* What a step of a process does to the store it is in.
LEMMA StoringMoves ==
    ASSUME FilesInv, NEW p \in Procs, NEW c, Goto(p, c)
    PROVE  /\ c.at \in {"write", "rename"} => Storing' = [Storing EXCEPT ![p] = c.key]
           /\ c.at \notin {"write", "rename"} => Storing' = [Storing EXCEPT ![p] = None]
           /\ /\ c.at \notin {"write", "rename"}
              /\ op[p].at \notin {"write", "rename"}
              => Storing' = Storing
           /\ op[p].at \in {"write", "rename"} =>
                 Storing[p] = op[p].key /\ Storing[p] # None /\ op[p].key \in Keys
           /\ op[p].at \notin {"write", "rename"} => Storing[p] = None
<1>1. op' = [op EXCEPT ![p] = c] /\ op'[p] = c /\ \A q \in Procs \ {p} : op'[q] = op[q]
  BY DEF Goto, FilesInv
<1>2. op[p].at \in {"write", "rename"} => op[p].key \in Keys /\ op[p].key # None
  BY CallKinds, DiskAssumption DEF Stores, FilesInv
<1> DEFINE v == IF c.at \in {"write", "rename"} THEN c.key ELSE None
<1>3. Storing' = [Storing EXCEPT ![p] = v]
  <2>1. Storing' = [q \in Procs |-> IF q = p THEN v ELSE Storing[q]]
    BY <1>1, SMT DEF Storing
  <2>2. Storing = [q \in Procs |-> Storing[q]]  BY DEF Storing
  <2> QED  BY <2>1, <2>2
<1>4. /\ op[p].at \in {"write", "rename"} => Storing[p] = op[p].key
      /\ op[p].at \notin {"write", "rename"} => Storing[p] = None
      /\ Storing = [Storing EXCEPT ![p] = Storing[p]]
  BY DEF Storing
<1> QED  BY <1>2, <1>3, <1>4

\* Removing or damaging a file loses its key.
LEMMA DirLoses ==
    ASSUME FilesInv, NEW k \in Keys, NEW f, f = None \/ f.text = Damaged,
           dir' = [dir EXCEPT ![k] = f]
    PROVE  Readable' = Readable \ {k}
BY DiskAssumption DEF FilesInv, DirInv, Readable

\* Every step of disk_store is a step of a call that stores, or none.
LEMMA StoreRefines ==
    ASSUME FilesInv, NEW p \in Procs,
           (\E k \in Keys : Create(p, k)) \/ Write(p) \/ Rename(p) \/ StoreFails(p)
    PROVE  [Disk!Next]_<<Readable, Storing>>
<1>1. ASSUME NEW k \in Keys, Create(p, k)  PROVE Disk!Next
  <2>1. Goto(p, [at |-> "write", key |-> k, began |-> clock]) /\ dir' = dir
        /\ op[p].at \notin {"write", "rename"}
    BY <1>1, SMT DEF Create, Idle
  <2>2. Storing' = [Storing EXCEPT ![p] = k] /\ Storing[p] = None
    BY <2>1, StoringMoves, SMT
  <2>3. Disk!Begin(p, k)  BY <2>1, <2>2 DEF Disk!Begin, Readable
  <2> QED  BY <2>3 DEF Disk!Next
<1>2. ASSUME Write(p)  PROVE UNCHANGED <<Readable, Storing>>
  <2> DEFINE c == [op[p] EXCEPT !.at = "rename"]
  <2>1. Goto(p, c) /\ op[p] \in Stores /\ op[p].at = "write" /\ dir' = dir
    BY <1>2, CallKinds DEF Write, FilesInv
  <2>2. c.at = "rename" /\ c.key = op[p].key  BY <2>1 DEF Stores
  <2> HIDE DEF c
  <2>3. Storing' = [Storing EXCEPT ![p] = op[p].key] /\ Storing[p] = op[p].key
    BY <2>1, <2>2, StoringMoves, SMT
  <2> QED  BY <2>1, <2>3 DEF Storing, Readable
<1>3. ASSUME Rename(p)  PROVE Disk!Next
  <2>1. op[p].at = "rename" /\ Storing[p] # None /\ Storing[p] = op[p].key
        /\ op[p].key \in Keys
    BY <1>3, CallKinds, DiskAssumption DEF Rename, FilesInv, Stores, Storing
  <2>2. CASE tmp[p] = None
    <3>1. Storing' = [Storing EXCEPT ![p] = None] /\ dir' = dir
      BY <1>3, <2>2, IdleCall, StoringMoves DEF Rename
    <3>2. Disk!Abort(p)  BY <2>1, <3>1 DEF Disk!Abort, Readable
    <3> QED  BY <3>2 DEF Disk!Next
  <2>3. CASE tmp[p] # None
    <3> DEFINE f == [text |-> tmp[p].text, mtime |-> tmp[p].mtime]
    <3>1. tmp[p] \in StagingFiles /\ tmp[p].text = op[p].key
      BY <2>1, <2>3 DEF FilesInv, StagingInv
    <3>2. f \in Files /\ f.text = op[p].key  BY <3>1 DEF StagingFiles, Files
    <3>3. f # None  BY <3>2, FileAssumption
    <3>4. dir' = [dir EXCEPT ![op[p].key] = f] /\ Goto(p, Sweep(Names))
      BY <1>3, <2>3 DEF Rename
    <3> HIDE DEF f
    <3>5. Readable' = Readable \cup {op[p].key}
      BY <2>1, <3>2, <3>3, <3>4 DEF Readable, FilesInv, DirInv
    <3>6. Storing' = [Storing EXCEPT ![p] = None]
      BY <3>4, SweepBegins, StoringMoves DEF FilesInv
    <3>7. Disk!Complete(p)  BY <2>1, <3>5, <3>6 DEF Disk!Complete
    <3> QED  BY <3>7 DEF Disk!Next
  <2> QED  BY <2>2, <2>3
<1>4. ASSUME StoreFails(p)  PROVE Disk!Next
  <2>1. Storing' = [Storing EXCEPT ![p] = None] /\ Storing[p] # None /\ dir' = dir
    BY <1>4, IdleCall, StoringMoves DEF StoreFails
  <2>2. Disk!Abort(p)  BY <2>1 DEF Disk!Abort, Readable
  <2> QED  BY <2>2 DEF Disk!Next
<1> QED  BY <1>1, <1>2, <1>3, <1>4

\* A scan goes on scanning.
LEMMA ScanMoves ==
    ASSUME FilesInv, NEW p \in Procs, NEW name \in Names, Scan(p, name)
    PROVE  \E c : Goto(p, c) /\ c.at \notin {"write", "rename"}
<1>1. PICK c \in Scans :
         /\ op' = [op EXCEPT ![p] = c] /\ op'[p] = c
         /\ c.unread = op[p].unread \ {name} /\ c.start = op[p].start
         /\ c.seen = IF Listed(name) THEN op[p].seen \cup {Listing(name)}
                                     ELSE op[p].seen
  BY ScanGoesTo
<1> QED  BY <1>1 DEF Goto, Scans

\* The steps that leave directory and stores alone.
LEMMA SilentSteps ==
    ASSUME FilesInv, NEW p \in Procs,
           \/ \E k \in Keys : Lookup(p, k)
           \/ \E name \in Names : Scan(p, name)
           \/ Decide(p) \/ RemoveStale(p) \/ SweepDone(p) \/ SweepFails(p) \/ Clear(p)
    PROVE  UNCHANGED <<Readable, Storing>>
<1>1. dir' = dir
  BY DEF Lookup, Scan, Decide, RemoveStale, SweepDone, SweepFails, Clear
<1>2. \E c : Goto(p, c) /\ c.at \notin {"write", "rename"}
  <2>1. CASE \E k \in Keys : Lookup(p, k)
    BY <2>1, SMT DEF Lookup
  <2>2. ASSUME NEW name \in Names, Scan(p, name)
        PROVE  \E c : Goto(p, c) /\ c.at \notin {"write", "rename"}
    BY <2>2, ScanMoves
  <2>3. CASE Decide(p)
    <3>1. PICK c \in Removals : op' = [op EXCEPT ![p] = c]  BY <2>3, DecideGoesTo
    <3> QED  BY <3>1 DEF Goto, Removals
  <2>4. CASE RemoveStale(p)
    <3>1. op[p] \in Removals  BY <2>4, CallKinds DEF RemoveStale, FilesInv
    <3>2. PICK e : Goto(p, [op[p] EXCEPT !.stale = @ \ {e}])  BY <2>4 DEF RemoveStale
    <3>3. [op[p] EXCEPT !.stale = @ \ {e}].at = "remove"  BY <3>1 DEF Removals
    <3> QED  BY <3>2, <3>3
  <2>5. CASE SweepDone(p) \/ SweepFails(p)
    BY <2>5, IdleCall DEF SweepDone, SweepFails
  <2>6. CASE Clear(p)
    BY <2>6, SMT DEF Clear
  <2> QED  BY <2>1, <2>2, <2>3, <2>4, <2>5, <2>6
<1>3. op[p].at \notin {"write", "rename"}
  BY IdleCall DEF Lookup, Scan, Decide, RemoveStale, SweepDone, SweepFails, Clear
<1>4. Storing' = Storing  BY <1>2, <1>3, StoringMoves
<1> QED  BY <1>1, <1>4 DEF Readable

\* A removal of a cache file by a sweep, a lookup or clear_disk_cache loses its key;
\* touch keeps it; a process that dies gives up its store.
LEMMA OthersRefine ==
    ASSUME FilesInv, NEW p \in Procs,
           RemoveVictim(p) \/ Discard(p) \/ Touch(p) \/ ClearStep(p) \/ Crash(p)
    PROVE  [Disk!Next]_<<Readable, Storing>>
<1>1. ASSUME NEW k \in Keys, dir' = [dir EXCEPT ![k] = None], Storing' = Storing
      PROVE  Disk!Next
  BY <1>1, DirLoses DEF Disk!Next, Disk!Lose
<1>2. CASE RemoveVictim(p)
  <2>1. PICK e \in op[p].victims, c \in Removals :
           /\ op' = [op EXCEPT ![p] = c] /\ op'[p] = c /\ c.start = op[p].start
           /\ c.stale = op[p].stale /\ c.victims = op[p].victims \ {e}
           /\ e.name \in Keys /\ dir' = [dir EXCEPT ![e.name] = None]
    BY <1>2, VictimGoesTo, SMT
  <2>2. Goto(p, c) /\ c.at = "remove" /\ op[p].at = "remove"
    BY <1>2, <2>1 DEF Goto, Removals, RemoveVictim
  <2>3. Storing' = Storing  BY <2>2, StoringMoves
  <2> QED  BY <1>1, <2>1, <2>3
<1>3. CASE Discard(p)
  <2>1. op[p].key \in Keys  BY <1>3, CallKinds DEF Discard, Discards, FilesInv
  <2>2. Storing' = Storing  BY <1>3, IdleCall, StoringMoves DEF Discard
  <2> QED  BY <1>1, <1>3, <2>1, <2>2 DEF Discard
<1>4. CASE Touch(p)
  <2> DEFINE k == op[p].key
             f == [dir[k] EXCEPT !.mtime = clock]
  <2>1. k \in Keys  BY <1>4, CallKinds DEF Touch, Hits, FilesInv
  <2>2. Storing' = Storing  BY <1>4, IdleCall, StoringMoves DEF Touch
  <2>3. CASE dir[k] = None
    BY <1>4, <2>2, <2>3 DEF Touch, Readable
  <2>4. CASE dir[k] # None
    <3>1. dir[k] \in Files /\ dir' = [dir EXCEPT ![k] = f]
      BY <1>4, <2>1, <2>4 DEF Touch, FilesInv, DirInv
    <3>2. f \in Files /\ f.text = dir[k].text  BY <3>1 DEF Files, FilesInv
    <3>3. f # None  BY <3>2, FileAssumption
    <3> HIDE DEF f, k
    <3>4. Readable' = Readable
      BY <2>1, <2>4, <3>1, <3>2, <3>3 DEF Readable, FilesInv, DirInv
    <3> QED  BY <2>2, <3>4
  <2> QED  BY <2>3, <2>4
<1>5. CASE ClearStep(p)
  <2>1. op[p] \in Clears /\ op[p].at = "clear"  BY <1>5, CallKinds DEF ClearStep, FilesInv
  <2>2. CASE op[p].unread = {}
    <3>1. Storing' = Storing /\ dir' = dir
      BY <1>5, <2>1, <2>2, IdleCall, StoringMoves DEF ClearStep
    <3> QED  BY <3>1 DEF Readable
  <2>3. CASE op[p].unread # {}
    <3>1. PICK k \in op[p].unread :
             dir' = [dir EXCEPT ![k] = None] /\ Goto(p, [op[p] EXCEPT !.unread = @ \ {k}])
      BY <1>5, <2>3 DEF ClearStep
    <3>2. k \in Keys /\ [op[p] EXCEPT !.unread = @ \ {k}].at = "clear"
      BY <2>1 DEF Clears
    <3>3. Storing' = Storing  BY <2>1, <3>1, <3>2, StoringMoves
    <3> QED  BY <1>1, <3>1, <3>2, <3>3
  <2> QED  BY <2>2, <2>3
<1>6. CASE Crash(p)
  <2>1. Goto(p, [at |-> "crashed"]) /\ dir' = dir  BY <1>6 DEF Crash
  <2>2. CASE op[p].at \in {"write", "rename"}
    <3>1. Storing' = [Storing EXCEPT ![p] = None] /\ Storing[p] # None
      BY <2>1, <2>2, StoringMoves, SMT
    <3>2. Disk!Abort(p)  BY <2>1, <3>1 DEF Disk!Abort, Readable
    <3> QED  BY <3>2 DEF Disk!Next
  <2>3. CASE op[p].at \notin {"write", "rename"}
    <3>1. Storing' = Storing  BY <2>1, <2>3, StoringMoves, SMT
    <3> QED  BY <2>1, <3>1 DEF Readable
  <2> QED  BY <2>2, <2>3
<1> QED  BY <1>2, <1>3, <1>4, <1>5, <1>6

\* The directory is a lossy store for its readers: a key becomes readable only when
\* a disk_store of that key completes.
THEOREM Refines == Spec => ImplementsLossyDisk
<1>1. Init => Disk!Init
  BY SMT DEF Init, Disk!Init, Readable, Storing, Idle
<1>2. FilesInv /\ [Next]_vars => [Disk!Next]_<<Readable, Storing>>
  <2> SUFFICES ASSUME FilesInv, [Next]_vars
               PROVE  [Disk!Next]_<<Readable, Storing>>
    OBVIOUS
  <2>1. CASE UNCHANGED vars
    BY <2>1 DEF vars, Readable, Storing
  <2>2. ASSUME NEW k \in Keys, Damage(k)  PROVE Disk!Next
    <3> DEFINE f == [dir[k] EXCEPT !.text = Damaged]
    <3>1. dir[k] \in Files /\ dir' = [dir EXCEPT ![k] = f]
      BY <2>2 DEF Damage, FilesInv, DirInv
    <3>2. f.text = Damaged  BY <3>1 DEF Files
    <3> HIDE DEF f
    <3>3. Readable' = Readable \ {k}  BY <3>1, <3>2, DirLoses
    <3> QED  BY <2>2, <3>3 DEF Damage, Storing, Disk!Next, Disk!Lose
  <2>3. CASE Tick
    BY <2>3 DEF Tick, Readable, Storing
  <2>4. ASSUME NEW p \in Procs,
               \/ \E k \in Keys : Create(p, k) \/ Lookup(p, k)
               \/ Write(p) \/ Rename(p) \/ StoreFails(p)
               \/ \E name \in Names : Scan(p, name)
               \/ Decide(p) \/ RemoveStale(p) \/ RemoveVictim(p) \/ SweepDone(p)
               \/ SweepFails(p)
               \/ Discard(p) \/ Touch(p) \/ Clear(p) \/ ClearStep(p) \/ Crash(p)
        PROVE  [Disk!Next]_<<Readable, Storing>>
    BY <2>4, StoreRefines, SilentSteps, OthersRefine
  <2> QED  BY <2>1, <2>2, <2>3, <2>4 DEF Next
<1> QED  BY <1>1, <1>2, FilesAlways, PTL DEF Spec, ImplementsLossyDisk, Disk!Spec

=============================================================================
