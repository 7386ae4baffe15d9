--------------------------- MODULE DiskCapProofs ---------------------------
(***************************************************************************)
(* The cap on the files of the disk cache, for every number of processes,  *)
(* keys and files: overlapping sweeps that work on stale listings, fail or *)
(* die keep the directory near its cap.                                    *)
(***************************************************************************)
EXTENDS DiskCacheProofs, FiniteSetTheorems

\* Most steps are first-order; those that count or compare name SMT.
USE Zenon

-----------------------------------------------------------------------------
(* The cap                                                                 *)

NamesOf(entries) == {e.name : e \in entries}

\* The sweeps that began after that of p, and the sweeps given up since then.
Later(rank, p) == {q \in Sweeping : rank[q] > rank[p]}

Slack(rank, p) == Cardinality(Later(rank, p)) + (abandoned - op[p].start)

\* The files a scan has missed: they were not there when it came by.
Missed(c) == {k \in Present : k \notin c.unread /\ k \notin NamesOf(c.seen)}

\* The files a removal leaves.
Spared(c) == Present \ NamesOf(c.victims)

\* rank is the order in which the sweeps began.
OrderInv(rank, n) ==
    /\ \A p \in Procs : rank[p] <= n
    /\ \A p \in Sweeping : op[p].start <= abandoned
    /\ \A p, q \in Sweeping :
          /\ p # q => rank[p] # rank[q]
          /\ rank[p] < rank[q] => op[p].start <= op[q].start

\* A file that a scan missed belongs to a later sweep, unless one of those has
\* finished and brought the directory down to the cap.
SweepInv(rank, p) ==
    /\ op[p].at = "scan" =>
          /\ IsFiniteSet(op[p].seen)
          /\ \/ Cardinality(Missed(op[p])) <= Slack(rank, p)
             \/ Cardinality(Present) <= Cap + Slack(rank, p)
    /\ op[p].at = "remove" => Cardinality(Spared(op[p])) <= Cap + Slack(rank, p)

\* later: the sweeps that began after the newest of those that finished.
SettledInv(later) ==
    /\ settled <= abandoned
    /\ Cardinality(Present) <= Cap + Cardinality(later) + (abandoned - settled)
    /\ \A q \in later : settled <= op[q].start
    /\ \A q \in Sweeping \ later : op[q].start <= settled

Ordered(n, rank, later) ==
    /\ OrderInv(rank, n)
    /\ \A p \in Sweeping : SweepInv(rank, p)
    /\ SettledInv(later)

\* No variable records the order in which sweeps began; the invariant says that
\* there is one.
CapInv ==
    \E n \in Nat, rank \in [Procs -> Nat], later \in SUBSET Sweeping :
        Ordered(n, rank, later)

\* Sizes of sets of keys.
LEMMA KeyCounts ==
    /\ \A S \in SUBSET Keys : IsFiniteSet(S) /\ Cardinality(S) \in Nat
    /\ \A S \in SUBSET Keys : \A T \in SUBSET S : Cardinality(T) <= Cardinality(S)
    /\ \A S \in SUBSET Keys : \A k \in Keys :
          \A T \in SUBSET (S \cup {k}) : Cardinality(T) <= Cardinality(S) + 1
<1>1. IsFiniteSet(Keys)  BY DiskAssumption, FS_Interval, SMT DEF Keys
<1>2. \A S \in SUBSET Keys : IsFiniteSet(S) /\ Cardinality(S) \in Nat
  BY <1>1, FS_Subset, FS_CardinalityType
<1>3. \A S \in SUBSET Keys : \A T \in SUBSET S : Cardinality(T) <= Cardinality(S)
  BY <1>2, FS_Subset
<1>4. ASSUME NEW S \in SUBSET Keys, NEW k \in Keys, NEW T \in SUBSET (S \cup {k})
      PROVE  Cardinality(T) <= Cardinality(S) + 1
  <2>1. S \cup {k} \in SUBSET Keys  OBVIOUS
  <2>2. Cardinality(S \cup {k}) <= Cardinality(S) + 1
    BY <1>2, FS_AddElement, SMT
  <2>3. Cardinality(T) <= Cardinality(S \cup {k})  BY <1>3, <2>1
  <2>4. Cardinality(T) \in Nat /\ Cardinality(S) \in Nat /\ Cardinality(S \cup {k}) \in Nat
    BY <1>2, <2>1
  <2> QED  BY <2>2, <2>3, <2>4, SMT
<1> QED  BY <1>2, <1>3, <1>4

\* Sizes of sets of processes.
LEMMA ProcCounts ==
    /\ \A S \in SUBSET Procs : Cardinality(S) \in Nat
    /\ \A S \in SUBSET Procs : \A T \in SUBSET S : Cardinality(T) <= Cardinality(S)
    /\ \A S \in SUBSET Procs : \A p \in Procs \ S : Cardinality(S \cup {p}) = Cardinality(S) + 1
    /\ \A S \in SUBSET Procs : \A p \in Procs : Cardinality(S) <= Cardinality(S \ {p}) + 1
    /\ \A S \in SUBSET Procs : \A p \in S : Cardinality(S) = Cardinality(S \ {p}) + 1
<1>1. IsFiniteSet(Procs)  BY DiskAssumption
<1>2. \A S \in SUBSET Procs : IsFiniteSet(S) /\ Cardinality(S) \in Nat
  BY <1>1, FS_Subset, FS_CardinalityType
<1>3. \A S \in SUBSET Procs : \A T \in SUBSET S : Cardinality(T) <= Cardinality(S)
  BY <1>2, FS_Subset
<1>4. \A S \in SUBSET Procs : \A p \in Procs \ S : Cardinality(S \cup {p}) = Cardinality(S) + 1
  BY <1>2, FS_AddElement
<1>5. ASSUME NEW S \in SUBSET Procs, NEW p \in Procs
      PROVE  /\ Cardinality(S) <= Cardinality(S \ {p}) + 1
             /\ p \in S => Cardinality(S) = Cardinality(S \ {p}) + 1
  <2>1. Cardinality(S \ {p}) = IF p \in S THEN Cardinality(S) - 1 ELSE Cardinality(S)
    BY <1>2, FS_RemoveElement
  <2> QED  BY <1>2, <2>1, SMT
<1> QED  BY <1>2, <1>3, <1>4, <1>5

\* The start of a sweep and the sizes that the invariant compares are numbers.
LEMMA CapTypes ==
    ASSUME FilesInv, NEW rank
    PROVE  /\ Sweeping \subseteq Procs /\ Present \subseteq Keys
           /\ \A p \in Sweeping : op[p].start \in Nat
           /\ \A p : Later(rank, p) \in SUBSET Sweeping
           /\ \A p \in Sweeping : Slack(rank, p) \in Int
           /\ abandoned \in Nat /\ settled \in Nat /\ Cap \in Nat
<1>1. \A p \in Sweeping : op[p].start \in Nat
  BY CallKinds DEF Sweeping, FilesInv, Scans, Removals
<1>2. Sweeping \subseteq Procs /\ Present \subseteq Keys  BY DEF Sweeping, Present
<1>3. \A p : Later(rank, p) \in SUBSET Sweeping  BY DEF Later
<1>4. abandoned \in Nat /\ settled \in Nat /\ Cap \in Nat
  BY DiskAssumption DEF FilesInv
<1>5. \A p \in Sweeping : Slack(rank, p) \in Int
  BY <1>1, <1>2, <1>3, <1>4, ProcCounts, SMT DEF Slack
<1> QED  BY <1>1, <1>2, <1>3, <1>4, <1>5

\* A step that only removes files and leaves the other sweeps where they are.
LEMMA ShrinkKeeps ==
    ASSUME FilesInv, FilesInv', NEW n \in Nat, NEW rank \in [Procs -> Nat],
           NEW later \in SUBSET Sweeping, Ordered(n, rank, later),
           Present' \subseteq Present, Sweeping' = Sweeping,
           abandoned' = abandoned, settled' = settled,
           \A q \in Sweeping : op'[q].start = op[q].start,
           \A q \in Sweeping : op'[q] = op[q] \/ SweepInv(rank, q)'
    PROVE  CapInv'
<1>1. Present \subseteq Keys /\ Sweeping \subseteq Procs /\ Present' \subseteq Keys
      /\ Cardinality(Present) \in Nat /\ Cardinality(Present') \in Nat
      /\ Cardinality(Present') <= Cardinality(Present)
  BY CapTypes, KeyCounts
<1>2. \A q : Later(rank, q)' = Later(rank, q)  BY DEF Later
<1>3. \A q \in Sweeping : Slack(rank, q)' = Slack(rank, q) /\ Slack(rank, q) \in Int
  BY <1>2, CapTypes DEF Slack
<1>4. ASSUME NEW q \in Sweeping, op'[q] = op[q]  PROVE SweepInv(rank, q)'
  <2>1. Missed(op[q])' \subseteq Missed(op[q]) /\ Missed(op[q]) \subseteq Keys
        /\ Spared(op[q])' \subseteq Spared(op[q]) /\ Spared(op[q]) \subseteq Keys
    BY <1>1, <1>4 DEF Missed, Spared
  <2>2. Cardinality(Missed(op[q])') <= Cardinality(Missed(op[q]))
        /\ Cardinality(Missed(op[q])) \in Nat /\ Cardinality(Missed(op[q])') \in Nat
        /\ Cardinality(Spared(op[q])') <= Cardinality(Spared(op[q]))
        /\ Cardinality(Spared(op[q])) \in Nat /\ Cardinality(Spared(op[q])') \in Nat
    BY <2>1, KeyCounts
  <2>3. SweepInv(rank, q)  BY DEF Ordered
  <2> QED  BY <1>1, <1>3, <1>4, <2>2, <2>3, DiskAssumption, SMT DEF SweepInv
<1>5. \A q \in Sweeping' : SweepInv(rank, q)'  BY <1>4
<1>6. OrderInv(rank, n)'  BY DEF OrderInv, Ordered
<1>7. SettledInv(later)'
  <2>1. Cardinality(later) \in Nat /\ later \subseteq Sweeping  BY <1>1, ProcCounts
  <2> QED  BY <1>1, <2>1, CapTypes, SMT DEF SettledInv, Ordered
<1>8. later \in SUBSET Sweeping'  OBVIOUS
<1> QED  BY <1>5, <1>6, <1>7, <1>8 DEF CapInv, Ordered

\* A step of a process that does not sweep, before or after it.
LEMMA OutsideKeeps ==
    ASSUME FilesInv, FilesInv', CapInv, NEW p \in Procs, NEW c, op' = [op EXCEPT ![p] = c],
           op[p].at \notin {"scan", "remove"}, c.at \notin {"scan", "remove"},
           Present' \subseteq Present, abandoned' = abandoned, settled' = settled
    PROVE  CapInv'
<1>1. op'[p] = c /\ \A q \in Procs \ {p} : op'[q] = op[q]  BY DEF FilesInv
<1>2. Sweeping' = Sweeping /\ p \notin Sweeping  BY <1>1 DEF Sweeping
<1>3. \A q \in Sweeping : op'[q] = op[q]  BY <1>1, <1>2 DEF Sweeping
<1> QED  BY <1>2, <1>3, ShrinkKeeps DEF CapInv

\* A step of a sweep that goes on and only removes files.
LEMMA SweepKeeps ==
    ASSUME FilesInv, FilesInv', NEW n \in Nat, NEW rank \in [Procs -> Nat],
           NEW later \in SUBSET Sweeping, Ordered(n, rank, later),
           NEW p \in Procs, NEW c, op' = [op EXCEPT ![p] = c],
           op[p].at \in {"scan", "remove"}, c.at \in {"scan", "remove"},
           c.start = op[p].start, Present' \subseteq Present,
           abandoned' = abandoned, settled' = settled,
           Slack(rank, p)' = Slack(rank, p) => SweepInv(rank, p)'
    PROVE  CapInv'
<1>1. op'[p] = c /\ \A q \in Procs \ {p} : op'[q] = op[q]  BY DEF FilesInv
<1>2. Sweeping' = Sweeping /\ p \in Sweeping  BY <1>1 DEF Sweeping
<1>3. \A q \in Sweeping : op'[q].start = op[q].start  BY <1>1 DEF Sweeping
<1>4. Slack(rank, p)' = Slack(rank, p)  BY <1>1, <1>2 DEF Slack, Later
<1>5. \A q \in Sweeping : op'[q] = op[q] \/ SweepInv(rank, q)'
  BY <1>1, <1>4 DEF Sweeping
<1> QED  BY <1>2, <1>3, <1>5, ShrinkKeeps

\* Scan: a name that is passed over is listed, or has no file now.
LEMMA ScanCap ==
    ASSUME FilesInv, FilesInv', CapInv, NEW p \in Procs, NEW name \in Names, Scan(p, name)
    PROVE  CapInv'
<1>1. PICK n \in Nat, rank \in [Procs -> Nat], later \in SUBSET Sweeping :
         Ordered(n, rank, later)
  BY DEF CapInv
<1>2. PICK c \in Scans :
         /\ op' = [op EXCEPT ![p] = c] /\ op'[p] = c
         /\ c.unread = op[p].unread \ {name} /\ c.start = op[p].start
         /\ c.seen = IF Listed(name) THEN op[p].seen \cup {Listing(name)} ELSE op[p].seen
  BY ScanGoesTo
<1>3. op[p].at = "scan" /\ c.at = "scan" /\ p \in Sweeping
  BY <1>2 DEF Scan, Scans, Sweeping
<1>4. dir' = dir /\ Present' = Present /\ abandoned' = abandoned /\ settled' = settled
  BY DEF Scan, Present
<1>5. SweepInv(rank, p)  BY <1>1, <1>3 DEF Ordered
<1>6. IsFiniteSet(c.seen)
  <2>1. IsFiniteSet(op[p].seen)  BY <1>3, <1>5 DEF SweepInv
  <2>2. IsFiniteSet(op[p].seen \cup {Listing(name)})  BY <2>1, FS_AddElement
  <2> QED  BY <1>2, <2>1, <2>2
<1>7. Missed(c)' \subseteq Missed(op[p])
  <2> SUFFICES ASSUME NEW k \in Missed(c)'  PROVE k \in Missed(op[p])
    OBVIOUS
  <2>1. k \in Present /\ k \in Keys /\ k \notin c.unread /\ k \notin NamesOf(c.seen)
    BY <1>4 DEF Missed, Present
  <2>2. k \notin NamesOf(op[p].seen)  BY <1>2, <2>1 DEF NamesOf
  <2>3. k # name
    <3> SUFFICES ASSUME k = name PROVE FALSE
      OBVIOUS
    <3>1. Listed(name)  BY <2>1 DEF Listed, File, Present
    <3>2. Listing(name) \in c.seen /\ Listing(name).name = name
      BY <1>2, <3>1, ListingKinds
    <3> QED  BY <2>1, <3>2 DEF NamesOf
  <2> QED  BY <1>2, <2>1, <2>2, <2>3 DEF Missed
<1>8. Cardinality(Missed(c)') <= Cardinality(Missed(op[p]))
      /\ Cardinality(Missed(c)') \in Nat /\ Cardinality(Missed(op[p])) \in Nat
  <2>1. Missed(op[p]) \in SUBSET Keys /\ Missed(c)' \in SUBSET Keys
    BY <1>7 DEF Missed, Present
  <2> QED  BY <1>7, <2>1, KeyCounts
<1>9. ASSUME Slack(rank, p)' = Slack(rank, p)  PROVE SweepInv(rank, p)'
  <2>1. Slack(rank, p) \in Int  BY <1>3, CapTypes
  <2>2. \/ Cardinality(Missed(op[p])) <= Slack(rank, p)
        \/ Cardinality(Present) <= Cap + Slack(rank, p)
    BY <1>3, <1>5 DEF SweepInv
  <2>3. \/ Cardinality(Missed(c)') <= Slack(rank, p)'
        \/ Cardinality(Present') <= Cap + Slack(rank, p)'
    BY <1>4, <1>8, <1>9, <2>1, <2>2, SMT
  <2> QED  BY <1>2, <1>3, <1>6, <2>3 DEF SweepInv, Missed
<1> QED  BY <1>1, <1>2, <1>3, <1>4, <1>9, SweepKeeps

\* A set of numbers has a least one.
LEMMA LeastNumber ==
    ASSUME NEW T, T \subseteq Nat, T # {}
    PROVE  \E x \in T : \A y \in T : x <= y
<1> DEFINE R == OpToRel(<, Nat)
<1>1. PICK x \in T : \A y \in T : ~ (<<y, x>> \in R)
  <2>1. IsWellFoundedOn(R, Nat)  BY NatLessThanWellFounded
  <2> HIDE DEF R
  <2> QED  BY <2>1, WFMin
<1>2. ASSUME NEW y \in T  PROVE x <= y
  <2>1. ~ (<<y, x>> \in {ss \in Nat \X Nat : ss[1] < ss[2]})
    BY <1>1 DEF OpToRel
  <2>2. x \in Nat /\ y \in Nat  OBVIOUS
  <2> QED  BY <2>1, <2>2, SMT
<1> QED  BY <1>2

\* The files that the sweep keeps are at most as many as the cap allows.
LEMMA KeptWithinCap ==
    ASSUME NEW files \in SUBSET CacheEntries, IsFiniteSet(files)
    PROVE  /\ IsFiniteSet(files \ Victims(files))
           /\ Cardinality(files \ Victims(files)) <= Cap
<1> DEFINE Before(f) == {g \in files : Older(g, f)}
           kept == files \ Victims(files)
           counts == {Cardinality(Before(f)) : f \in kept}
<1>1. \A f \in files : f.mtime \in Nat /\ f.name \in Nat
  BY SMT DEF CacheEntries, Keys
<1>2. \A f \in files : Before(f) \in SUBSET files
  OBVIOUS
<1>3. \A f \in files : IsFiniteSet(Before(f)) /\ Cardinality(Before(f)) \in Nat
  <2> HIDE DEF Before
  <2> QED  BY <1>2, FS_Subset, FS_CardinalityType
<1>4. IsFiniteSet(kept) /\ Cardinality(kept) \in Nat /\ Cardinality(files) \in Nat
  BY FS_Difference, FS_CardinalityType
<1>5. CASE kept = {}
  BY <1>4, <1>5, FS_EmptySet, DiskAssumption, SMT
<1>6. CASE kept # {}
  <2>1. counts \subseteq Nat /\ counts # {}
    <3> HIDE DEF Before
    <3> QED  BY <1>3, <1>6
  <2>2. PICK x \in counts : \A y \in counts : x <= y
    <3> HIDE DEF counts
    <3> QED  BY <2>1, LeastNumber
  <2>3. PICK m \in kept : x = Cardinality(Before(m))
    OBVIOUS
  <2>4. \A f \in kept : Cardinality(Before(m)) <= Cardinality(Before(f))
    <3> HIDE DEF Before
    <3> QED  BY <2>2, <2>3
  <2>5. ASSUME NEW g \in kept, g \in Before(m)  PROVE FALSE
    <3>1. g \notin Before(g)  BY <1>1, SMT DEF Older
    <3>2. Before(g) \in SUBSET Before(m)
      <4> SUFFICES ASSUME NEW h \in files, Older(h, g)  PROVE Older(h, m)
        OBVIOUS
      <4>1. Older(g, m)  BY <2>5
      <4> QED  BY <1>1, <4>1, SMT DEF Older
    <3>3. Before(m) # Before(g)  BY <2>5, <3>1
    <3> HIDE DEF Before
    <3>4. Cardinality(Before(g)) < Cardinality(Before(m))
      BY <1>3, <3>2, <3>3, FS_Subset, SMT
    <3> QED  BY <1>3, <2>4, <3>4, SMT
  <2>6. kept \in SUBSET (files \ Before(m))  BY <2>5
  <2>7. ~ (Cardinality(Before(m)) + Cap < Cardinality(files))
    BY <2>3 DEF Victims
  <2>8. Before(m) = files \cap Before(m)  OBVIOUS
  <2> HIDE DEF Before
  <2>9. IsFiniteSet(files \ Before(m))
        /\ Cardinality(files \ Before(m)) = Cardinality(files) - Cardinality(Before(m))
    BY <2>8, FS_Difference
  <2>10. Cardinality(kept) <= Cardinality(files \ Before(m))
    BY <2>6, <2>9, FS_Subset
  <2>11. Cardinality(Before(m)) \in Nat  BY <1>3
  <2> QED  BY <1>4, <2>7, <2>9, <2>10, <2>11, DiskAssumption, SMT
<1> QED  BY <1>4, <1>5, <1>6

\* A listing has no more names than entries.
LEMMA NamesCount ==
    ASSUME NEW S, IsFiniteSet(S)
    PROVE  IsFiniteSet(NamesOf(S)) /\ Cardinality(NamesOf(S)) <= Cardinality(S)
<1> DEFINE f == [e \in S |-> e.name]
<1>1. f \in Surjection(S, NamesOf(S))  BY DEF Surjection, NamesOf
<1> HIDE DEF f
<1> QED  BY <1>1, FS_Surjection

\* Decide: once the listing is complete, a file that is not a victim was missed,
\* or is one of the files the sweep keeps.
LEMMA DecideCap ==
    ASSUME FilesInv, FilesInv', CapInv, NEW p \in Procs, Decide(p)
    PROVE  CapInv'
<1> DEFINE files == {e \in op[p].seen : e.name \in Keys}
           kept == files \ Victims(files)
<1>1. PICK n \in Nat, rank \in [Procs -> Nat], later \in SUBSET Sweeping :
         Ordered(n, rank, later)
  BY DEF CapInv
<1>2. PICK c \in Removals :
         /\ op' = [op EXCEPT ![p] = c] /\ op'[p] = c /\ c.start = op[p].start
         /\ c.stale = {e \in op[p].seen : e.name \notin Keys}
         /\ c.victims = Victims(files)
  BY DecideGoesTo
<1>3. op[p].at = "scan" /\ op[p].unread = {} /\ c.at = "remove" /\ p \in Sweeping
  BY <1>2 DEF Decide, Removals, Sweeping
<1>4. dir' = dir /\ Present' = Present /\ abandoned' = abandoned /\ settled' = settled
  BY DEF Decide, Present
<1>5. SweepInv(rank, p)  BY <1>1, <1>3 DEF Ordered
<1>6. files \in SUBSET CacheEntries /\ IsFiniteSet(files)
  <2>1. op[p] \in Scans  BY <1>3, CallKinds DEF FilesInv
  <2>2. files \in SUBSET CacheEntries  BY <2>1, EntryKinds DEF Scans
  <2>3. IsFiniteSet(op[p].seen)  BY <1>3, <1>5 DEF SweepInv
  <2> QED  BY <2>2, <2>3, FS_Subset
<1>7. Spared(c)' \subseteq Missed(op[p]) \cup NamesOf(kept)
  <2> SUFFICES ASSUME NEW k \in Spared(c)', k \notin Missed(op[p])
               PROVE  k \in NamesOf(kept)
    OBVIOUS
  <2>1. k \in Present /\ k \in Keys /\ k \notin NamesOf(Victims(files))
    BY <1>2, <1>4 DEF Spared, Present
  <2>2. PICK e \in op[p].seen : k = e.name
    BY <1>3, <2>1 DEF Missed, NamesOf
  <2>3. e \in kept  BY <2>1, <2>2 DEF NamesOf
  <2> QED  BY <2>2, <2>3 DEF NamesOf
<1> HIDE DEF files, kept
<1>8. IsFiniteSet(NamesOf(kept)) /\ Cardinality(NamesOf(kept)) \in Nat
      /\ Cardinality(NamesOf(kept)) <= Cap
  <2>1. IsFiniteSet(kept) /\ Cardinality(kept) <= Cap  BY <1>6, KeptWithinCap DEF kept
  <2> QED  BY <2>1, NamesCount, FS_CardinalityType, DiskAssumption, SMT
<1>9. ASSUME Slack(rank, p)' = Slack(rank, p)  PROVE SweepInv(rank, p)'
  <2>1. Slack(rank, p) \in Int  BY <1>3, CapTypes
  <2>2. \/ Cardinality(Missed(op[p])) <= Slack(rank, p)
        \/ Cardinality(Present) <= Cap + Slack(rank, p)
    BY <1>3, <1>5 DEF SweepInv
  <2>3. Missed(op[p]) \in SUBSET Keys /\ Spared(c)' \in SUBSET Keys
        /\ Spared(c)' \in SUBSET Present /\ Present \in SUBSET Keys
    BY <1>4 DEF Missed, Present, Spared
  <2>4. IsFiniteSet(Missed(op[p])) /\ Cardinality(Missed(op[p])) \in Nat
        /\ Cardinality(Spared(c)') \in Nat /\ Cardinality(Present) \in Nat
        /\ Cardinality(Spared(c)') <= Cardinality(Present)
    BY <2>3, KeyCounts
  <2>5. Cardinality(Spared(c)') <= Cardinality(Missed(op[p])) + Cardinality(NamesOf(kept))
    <3>1. IsFiniteSet(Missed(op[p]) \cup NamesOf(kept))
          /\ Cardinality(Missed(op[p]) \cup NamesOf(kept)) =
               Cardinality(Missed(op[p])) + Cardinality(NamesOf(kept))
               - Cardinality(Missed(op[p]) \cap NamesOf(kept))
      BY <1>8, <2>4, FS_Union
    <3>2. Cardinality(Missed(op[p]) \cap NamesOf(kept)) \in Nat
      BY <2>4, FS_Subset, FS_CardinalityType
    <3>3. Cardinality(Spared(c)') <= Cardinality(Missed(op[p]) \cup NamesOf(kept))
      BY <1>7, <3>1, FS_Subset
    <3> QED  BY <1>8, <2>4, <3>1, <3>2, <3>3, SMT
  <2>6. Cardinality(Spared(c)') <= Cap + Slack(rank, p)'
    BY <1>8, <1>9, <2>1, <2>2, <2>4, <2>5, DiskAssumption, SMT
  <2> QED  BY <1>2, <1>3, <2>6 DEF SweepInv, Spared
<1> QED  BY <1>1, <1>2, <1>3, <1>4, <1>9, SweepKeeps

\* RemoveStale: only a staging file goes.
LEMMA RemoveStaleCap ==
    ASSUME FilesInv, FilesInv', CapInv, NEW p \in Procs, RemoveStale(p)
    PROVE  CapInv'
<1>1. PICK n \in Nat, rank \in [Procs -> Nat], later \in SUBSET Sweeping :
         Ordered(n, rank, later)
  BY DEF CapInv
<1>3. op[p] \in Removals /\ op[p].at = "remove" /\ p \in Sweeping
  BY CallKinds DEF RemoveStale, FilesInv, Sweeping
<1>4. PICK c :
         /\ op' = [op EXCEPT ![p] = c]
         /\ c.at = "remove" /\ c.victims = op[p].victims /\ c.start = op[p].start
  <2>1. PICK e : op' = [op EXCEPT ![p] = [op[p] EXCEPT !.stale = @ \ {e}]]
    BY DEF RemoveStale, Goto
  <2> DEFINE s == op[p].stale \ {e}
             c == [op[p] EXCEPT !.stale = s]
  <2>2. op' = [op EXCEPT ![p] = c]  BY <2>1
  <2> HIDE DEF s
  <2>3. c.at = "remove" /\ c.victims = op[p].victims /\ c.start = op[p].start
    BY <1>3 DEF Removals
  <2> HIDE DEF c
  <2> QED  BY <2>2, <2>3
<1>6. op'[p] = c  BY <1>4 DEF FilesInv
<1>7. Present' = Present /\ abandoned' = abandoned /\ settled' = settled
  BY DEF RemoveStale, Present
<1>8. Spared(c)' = Spared(op[p])  BY <1>4, <1>7 DEF Spared
<1>9. Cardinality(Spared(op[p])) <= Cap + Slack(rank, p)
  BY <1>1, <1>3 DEF Ordered, SweepInv
<1>10. ASSUME Slack(rank, p)' = Slack(rank, p)  PROVE SweepInv(rank, p)'
  <2>1. Cardinality(Spared(c)') <= Cap + Slack(rank, p)'  BY <1>8, <1>9, <1>10
  <2> QED  BY <1>4, <1>6, <2>1 DEF SweepInv, Spared
<1> QED  BY <1>1, <1>3, <1>4, <1>7, <1>10, SweepKeeps

\* RemoveVictim: the name leaves the victims when its file goes.
LEMMA RemoveVictimCap ==
    ASSUME FilesInv, FilesInv', CapInv, NEW p \in Procs, RemoveVictim(p)
    PROVE  CapInv'
<1>1. PICK n \in Nat, rank \in [Procs -> Nat], later \in SUBSET Sweeping :
         Ordered(n, rank, later)
  BY DEF CapInv
<1>2. PICK e \in op[p].victims, c \in Removals :
         /\ op' = [op EXCEPT ![p] = c] /\ op'[p] = c /\ c.start = op[p].start
         /\ c.stale = op[p].stale /\ c.victims = op[p].victims \ {e}
         /\ e.name \in Keys /\ dir' = [dir EXCEPT ![e.name] = None]
  BY VictimGoesTo
<1>3. op[p].at = "remove" /\ c.at = "remove" /\ p \in Sweeping
      /\ abandoned' = abandoned /\ settled' = settled
  BY DEF RemoveVictim, Removals, Sweeping
<1>4. Present' = Present \ {e.name}  BY <1>2 DEF Present, FilesInv, DirInv
<1>5. Spared(c)' \subseteq Spared(op[p])  BY <1>2, <1>4 DEF Spared, NamesOf
<1>6. Cardinality(Spared(op[p])) <= Cap + Slack(rank, p)
  BY <1>1, <1>3 DEF Ordered, SweepInv
<1>7. Spared(op[p]) \in SUBSET Keys  BY DEF Spared, Present
<1>8. Cardinality(Spared(c)') <= Cardinality(Spared(op[p]))
      /\ Cardinality(Spared(c)') \in Nat /\ Cardinality(Spared(op[p])) \in Nat
  BY <1>5, <1>7, KeyCounts
<1>9. ASSUME Slack(rank, p)' = Slack(rank, p)  PROVE SweepInv(rank, p)'
  <2>1. Slack(rank, p) \in Int  BY <1>3, CapTypes
  <2>2. Cardinality(Spared(c)') <= Cap + Slack(rank, p)'
    BY <1>6, <1>8, <1>9, <2>1, DiskAssumption, SMT
  <2> QED  BY <1>2, <1>3, <2>2 DEF SweepInv, Spared
<1> QED  BY <1>1, <1>2, <1>3, <1>4, <1>9, SweepKeeps

\* A new sweep is the last in the order; the file it was started for is the one
\* that every other sweep may miss.
LEMMA StartKeeps ==
    ASSUME FilesInv, FilesInv', NEW n \in Nat, NEW rank \in [Procs -> Nat],
           NEW later \in SUBSET Sweeping, Ordered(n, rank, later),
           NEW p \in Procs, p \notin Sweeping, NEW c, op' = [op EXCEPT ![p] = c],
           c.at = "scan", c.unread = Names, c.seen = {}, c.start = abandoned,
           NEW k \in Keys, Present' \subseteq Present \cup {k},
           abandoned' = abandoned, settled' = settled,
           NEW r, r = [rank EXCEPT ![p] = n + 1]
    PROVE  CapInv'
<1>1. op'[p] = c /\ \A q \in Procs \ {p} : op'[q] = op[q]  BY DEF FilesInv
<1>2. Sweeping' = Sweeping \cup {p}  BY <1>1 DEF Sweeping
<1>3. r \in [Procs -> Nat] /\ r[p] = n + 1 /\ \A q \in Procs \ {p} : r[q] = rank[q]
  BY SMT
<1>4. /\ \A q \in Procs : rank[q] <= n
      /\ \A q \in Sweeping : op[q].start <= abandoned
      /\ \A q, s \in Sweeping :
            /\ q # s => rank[q] # rank[s]
            /\ rank[q] < rank[s] => op[q].start <= op[s].start
  BY DEF Ordered, OrderInv
<1>5. Sweeping \subseteq Procs /\ Present \in SUBSET Keys /\ Present' \in SUBSET Keys
      /\ abandoned \in Nat /\ settled \in Nat /\ Cap \in Nat
      /\ \A q \in Sweeping : op[q].start \in Nat
  BY CapTypes DEF Present
<1>6. OrderInv(r, n + 1)'
  <2>1. \A q \in Procs : r[q] <= n + 1  BY <1>3, <1>4, SMT
  <2>2. \A q \in Sweeping' : op'[q].start <= abandoned'
    BY <1>1, <1>2, <1>4, <1>5, SMT
  <2>3. ASSUME NEW q \in Sweeping', NEW s \in Sweeping'
        PROVE  /\ q # s => r[q] # r[s]
               /\ r[q] < r[s] => op'[q].start <= op'[s].start
    <3>1. CASE q = p  BY <1>1, <1>2, <1>3, <1>4, <1>5, <2>1, <3>1, SMT
    <3>2. CASE q # p /\ s = p
      BY <1>1, <1>2, <1>3, <1>4, <1>5, <2>2, <3>2, SMT
    <3>3. CASE q # p /\ s # p  BY <1>1, <1>2, <1>3, <1>4, <1>5, <3>3
    <3> QED  BY <3>1, <3>2, <3>3
  <2> QED  BY <2>1, <2>2, <2>3 DEF OrderInv
<1>7. SweepInv(r, p)'
  <2>1. Later(r, p)' = {}
    BY <1>2, <1>3, <1>4, <1>5, SMT DEF Later
  <2>2. Slack(r, p)' = 0
    <3>1. Cardinality(Later(r, p)') = 0  BY <2>1, FS_EmptySet
    <3>2. op'[p].start = abandoned /\ abandoned' = abandoned  BY <1>1
    <3> QED  BY <1>5, <3>1, <3>2, SMT DEF Slack
  <2>3. Missed(c)' = {}  BY <1>5 DEF Missed, Names
  <2>4. Cardinality(Missed(c)') <= Slack(r, p)'  BY <2>2, <2>3, FS_EmptySet, SMT
  <2> QED  BY <1>1, <2>4, FS_EmptySet DEF SweepInv, Missed
<1>8. ASSUME NEW q \in Sweeping  PROVE SweepInv(r, q)'
  <2>1. Later(r, q)' = Later(rank, q) \cup {p} /\ p \notin Later(rank, q)
    BY <1>2, <1>3, <1>4, <1>5, SMT DEF Later
  <2>2. Cardinality(Later(r, q)') = Cardinality(Later(rank, q)) + 1
        /\ Cardinality(Later(rank, q)) \in Nat
    BY <1>5, <2>1, CapTypes, ProcCounts
  <2>3. op'[q] = op[q] /\ op[q].start \in Nat  BY <1>1, <1>5
  <2>4. Slack(r, q)' = Slack(rank, q) + 1 /\ Slack(rank, q) \in Int
    BY <1>5, <2>2, <2>3, SMT DEF Slack
  <2>5. Missed(op[q])' \in SUBSET (Missed(op[q]) \cup {k}) /\ Missed(op[q]) \in SUBSET Keys
        /\ Spared(op[q])' \in SUBSET (Spared(op[q]) \cup {k}) /\ Spared(op[q]) \in SUBSET Keys
    BY <1>5, <2>3 DEF Missed, Spared
  <2>6. Cardinality(Missed(op[q])') <= Cardinality(Missed(op[q])) + 1
        /\ Cardinality(Spared(op[q])') <= Cardinality(Spared(op[q])) + 1
        /\ Cardinality(Present') <= Cardinality(Present) + 1
    BY <1>5, <2>5, KeyCounts
  <2>7. Cardinality(Missed(op[q])') \in Nat /\ Cardinality(Missed(op[q])) \in Nat
        /\ Cardinality(Spared(op[q])') \in Nat /\ Cardinality(Spared(op[q])) \in Nat
        /\ Cardinality(Present') \in Nat /\ Cardinality(Present) \in Nat
    <3>1. Missed(op[q])' \in SUBSET Keys /\ Spared(op[q])' \in SUBSET Keys
      BY <2>5
    <3> QED  BY <1>5, <2>5, <3>1, KeyCounts
  <2>8. SweepInv(rank, q)  BY DEF Ordered
  <2>9. CASE op[q].at = "scan"
    <3>1. \/ Cardinality(Missed(op[q])') <= Slack(r, q)'
          \/ Cardinality(Present') <= Cap + Slack(r, q)'
      BY <1>5, <2>4, <2>6, <2>7, <2>8, <2>9, SMT DEF SweepInv
    <3>2. IsFiniteSet(op'[q].seen)  BY <2>3, <2>8, <2>9 DEF SweepInv
    <3> QED  BY <2>3, <2>9, <3>1, <3>2 DEF SweepInv
  <2>10. CASE op[q].at = "remove"
    <3>1. Cardinality(Spared(op[q])') <= Cap + Slack(r, q)'
      BY <1>5, <2>4, <2>6, <2>7, <2>8, <2>10, SMT DEF SweepInv
    <3> QED  BY <2>3, <2>10, <3>1 DEF SweepInv
  <2> QED  BY <2>9, <2>10 DEF Sweeping
<1>9. SettledInv(later \cup {p})'
  <2>1. Cardinality(later \cup {p}) = Cardinality(later) + 1 /\ Cardinality(later) \in Nat
    BY <1>5, ProcCounts
  <2>2. Cardinality(Present') <= Cardinality(Present) + 1
        /\ Cardinality(Present') \in Nat /\ Cardinality(Present) \in Nat
    BY <1>5, KeyCounts
  <2>3. SettledInv(later)  BY DEF Ordered
  <2>4. Cardinality(Present') <= Cap + Cardinality(later \cup {p}) + (abandoned' - settled')
    BY <1>5, <2>1, <2>2, <2>3, SMT DEF SettledInv
  <2>5. settled' <= abandoned' /\ \A q \in later \cup {p} : settled' <= op'[q].start
    BY <1>1, <1>5, <2>3 DEF SettledInv
  <2>6. \A q \in Sweeping' \ (later \cup {p}) : op'[q].start <= settled'
    BY <1>1, <1>2, <1>5, <2>3 DEF SettledInv
  <2> QED  BY <2>4, <2>5, <2>6 DEF SettledInv
<1>10. n + 1 \in Nat /\ later \cup {p} \in SUBSET Sweeping'  BY <1>2, SMT
<1>11. \A q \in Sweeping' : SweepInv(r, q)'  BY <1>2, <1>7, <1>8
<1>12. Ordered(n + 1, r, later \cup {p})'  BY <1>6, <1>9, <1>11 DEF Ordered
<1> QED  BY <1>3, <1>10, <1>12 DEF CapInv

\* A sweep that is given up counts as abandoned for the ones before it.
LEMMA GivenUpKeeps ==
    ASSUME FilesInv, FilesInv', CapInv, NEW p \in Procs, p \in Sweeping, NEW c,
           op' = [op EXCEPT ![p] = c], c.at \notin {"scan", "remove"},
           Present' = Present, abandoned' = abandoned + 1, settled' = settled
    PROVE  CapInv'
<1>1. op'[p] = c /\ \A q \in Procs \ {p} : op'[q] = op[q]  BY DEF FilesInv
<1>2. Sweeping' = Sweeping \ {p}  BY <1>1 DEF Sweeping
<1>3. PICK n \in Nat, rank \in [Procs -> Nat], later \in SUBSET Sweeping :
         Ordered(n, rank, later)
  BY DEF CapInv
<1>4. Sweeping \subseteq Procs /\ Present \in SUBSET Keys /\ abandoned \in Nat
      /\ settled \in Nat /\ Cap \in Nat /\ \A q \in Sweeping : op[q].start \in Nat
  BY CapTypes DEF Present
<1>5. OrderInv(rank, n)'
  BY <1>1, <1>2, <1>3, <1>4, SMT DEF Ordered, OrderInv
<1>6. ASSUME NEW q \in Sweeping'  PROVE SweepInv(rank, q)'
  <2>1. q \in Sweeping /\ op'[q] = op[q] /\ op[q].start \in Nat
    BY <1>1, <1>2, <1>4
  <2>2. Later(rank, q)' = Later(rank, q) \ {p}  BY <1>2 DEF Later
  <2>3. Cardinality(Later(rank, q)) <= Cardinality(Later(rank, q)') + 1
        /\ Cardinality(Later(rank, q)) \in Nat /\ Cardinality(Later(rank, q)') \in Nat
    BY <1>4, <2>2, CapTypes, ProcCounts
  <2>4. Slack(rank, q) <= Slack(rank, q)' /\ Slack(rank, q) \in Int /\ Slack(rank, q)' \in Int
    BY <1>4, <2>1, <2>3, SMT DEF Slack
  <2>5. Missed(op[q])' = Missed(op[q]) /\ Spared(op[q])' = Spared(op[q])
    BY <2>1 DEF Missed, Spared
  <2>6. Cardinality(Missed(op[q])) \in Nat /\ Cardinality(Spared(op[q])) \in Nat
        /\ Cardinality(Present) \in Nat
    BY <1>4, KeyCounts DEF Missed, Spared
  <2>7. SweepInv(rank, q)  BY <1>3, <2>1 DEF Ordered
  <2> QED  BY <1>4, <2>1, <2>4, <2>5, <2>6, <2>7, SMT DEF SweepInv
<1>7. SettledInv(later \ {p})'
  <2>1. Cardinality(later) <= Cardinality(later \ {p}) + 1
        /\ Cardinality(later) \in Nat /\ Cardinality(later \ {p}) \in Nat
    BY <1>4, ProcCounts
  <2>2. Cardinality(Present) \in Nat  BY <1>4, KeyCounts
  <2>3. SettledInv(later)  BY <1>3 DEF Ordered
  <2>4. Cardinality(Present') <= Cap + Cardinality(later \ {p}) + (abandoned' - settled')
    BY <1>4, <2>1, <2>2, <2>3, SMT DEF SettledInv
  <2> QED  BY <1>1, <1>2, <1>4, <2>3, <2>4, SMT DEF SettledInv
<1>8. later \ {p} \in SUBSET Sweeping'  BY <1>2
<1>9. Ordered(n, rank, later \ {p})'  BY <1>5, <1>6, <1>7 DEF Ordered
<1> QED  BY <1>8, <1>9 DEF CapInv

\* A sweep that finishes has brought the directory down to the cap and the files
\* of the sweeps that began after it.  This also settles every sweep that began
\* before it.
LEMMA DoneCap ==
    ASSUME FilesInv, FilesInv', CapInv, NEW p \in Procs, SweepDone(p)
    PROVE  CapInv'
<1>1. op' = [op EXCEPT ![p] = Idle] /\ Present' = Present /\ abandoned' = abandoned
      /\ op[p].at = "remove" /\ op[p].victims = {}
      /\ settled' = IF op[p].start > settled THEN op[p].start ELSE settled
  BY DEF SweepDone, Goto, Present
<1>2. p \in Sweeping /\ \A q \in Procs \ {p} : op'[q] = op[q]
  BY <1>1 DEF Sweeping, FilesInv
<1>3. Sweeping' = Sweeping \ {p}
  <2>1. op'[p].at = "idle"  BY <1>1, IdleCall DEF FilesInv
  <2> QED  BY <1>2, <2>1 DEF Sweeping
<1>4. PICK n \in Nat, rank \in [Procs -> Nat], later \in SUBSET Sweeping :
         Ordered(n, rank, later)
  BY DEF CapInv
<1>5. Sweeping \subseteq Procs /\ Present \in SUBSET Keys /\ abandoned \in Nat
      /\ settled \in Nat /\ Cap \in Nat /\ Cardinality(Present) \in Nat
      /\ \A q \in Sweeping : op[q].start \in Nat /\ Slack(rank, q) \in Int
  BY CapTypes, KeyCounts DEF Present
<1>6. OrderInv(rank, n)  BY <1>4 DEF Ordered
<1>7. OrderInv(rank, n)'
  BY <1>1, <1>2, <1>3, <1>5, <1>6 DEF OrderInv
<1>8. Cardinality(Present) <= Cap + Slack(rank, p)
  <2>1. Spared(op[p]) = Present  BY <1>1 DEF Spared, NamesOf
  <2>2. SweepInv(rank, p)  BY <1>2, <1>4 DEF Ordered
  <2> QED  BY <1>1, <2>1, <2>2 DEF SweepInv
<1>9. ASSUME NEW q \in Sweeping'  PROVE SweepInv(rank, q)'
  <2>1. q \in Sweeping /\ q # p /\ op'[q] = op[q] /\ op[q].start \in Nat
        /\ rank[q] \in Nat /\ rank[p] \in Nat /\ rank[q] # rank[p]
    BY <1>2, <1>3, <1>5, <1>6 DEF OrderInv
  <2>2. Later(rank, q)' = Later(rank, q) \ {p}  BY <1>3 DEF Later
  <2>3. SweepInv(rank, q)  BY <1>4, <2>1 DEF Ordered
  <2>4. Missed(op[q])' = Missed(op[q]) /\ Spared(op[q])' = Spared(op[q])
    BY <1>1, <2>1 DEF Missed, Spared
  <2>5. CASE rank[q] > rank[p]
    <3>1. Later(rank, q)' = Later(rank, q)  BY <2>1, <2>2, <2>5, SMT DEF Later
    <3>2. Slack(rank, q)' = Slack(rank, q)  BY <1>1, <2>1, <3>1 DEF Slack
    <3> QED  BY <1>1, <2>1, <2>3, <2>4, <3>2 DEF SweepInv
  <2>6. CASE rank[q] < rank[p]
    <3>1. Later(rank, p) \in SUBSET (Later(rank, q) \ {p}) /\ Later(rank, q) \in SUBSET Procs
      BY <1>5, <2>1, <2>6, SMT DEF Later
    <3>2. Cardinality(Later(rank, p)) <= Cardinality(Later(rank, q)')
          /\ Cardinality(Later(rank, p)) \in Nat /\ Cardinality(Later(rank, q)') \in Nat
      BY <2>2, <3>1, ProcCounts
    <3>3. op[q].start <= op[p].start  BY <1>2, <1>6, <2>1, <2>6 DEF OrderInv
    <3>4. Slack(rank, p) <= Slack(rank, q)' /\ Slack(rank, q)' \in Int
      BY <1>1, <1>2, <1>5, <2>1, <3>2, <3>3, SMT DEF Slack
    <3>5. Cardinality(Present') <= Cap + Slack(rank, q)'
      BY <1>1, <1>2, <1>5, <1>8, <3>4, SMT
    <3>6. Cardinality(Spared(op[q])') <= Cardinality(Present')
          /\ Cardinality(Spared(op[q])') \in Nat
      BY <1>1, <1>5, <2>4, KeyCounts DEF Spared
    <3>7. Cardinality(Spared(op[q])') <= Cap + Slack(rank, q)'
      BY <1>1, <1>5, <3>4, <3>5, <3>6, SMT
    <3> QED  BY <2>1, <2>3, <3>5, <3>7 DEF SweepInv
  <2> QED  BY <2>1, <2>5, <2>6, SMT
<1>10. SettledInv(later)  BY <1>4 DEF Ordered
<1>11. CASE p \notin later
  <2>1. settled' = settled /\ later \in SUBSET Sweeping'
    BY <1>1, <1>2, <1>3, <1>5, <1>10, <1>11, SMT DEF SettledInv
  <2>2. SettledInv(later)'
    BY <1>1, <1>2, <1>3, <1>5, <1>10, <1>11, <2>1 DEF SettledInv
  <2>3. Ordered(n, rank, later)'  BY <1>7, <1>9, <2>2 DEF Ordered
  <2> QED  BY <2>1, <2>3 DEF CapInv
<1>12. CASE p \in later
  <2>1. settled' = op[p].start  BY <1>1, <1>2, <1>5, <1>10, <1>12, SMT DEF SettledInv
  <2>2. PICK after : after = Later(rank, p)  OBVIOUS
  <2>3. after \in SUBSET Sweeping'
    BY <1>3, <1>5, <2>2, SMT DEF Later
  <2>4. op[p].start <= abandoned /\ op[p].start \in Nat
    BY <1>2, <1>5, <1>6 DEF OrderInv
  <2>5. Cardinality(Present') <= Cap + Cardinality(after) + (abandoned' - settled')
    <3>1. Cardinality(after) \in Nat  BY <1>5, <2>2, CapTypes, ProcCounts
    <3> QED  BY <1>1, <1>5, <1>8, <2>1, <2>2, <2>4, <3>1, SMT DEF Slack
  <2>6. \A q \in after : settled' <= op'[q].start
    BY <1>2, <1>3, <1>5, <1>6, <2>1, <2>2, <2>3 DEF OrderInv, Later
  <2>7. ASSUME NEW q \in Sweeping' \ after  PROVE op'[q].start <= settled'
    <3>1. q \in Sweeping /\ q # p /\ op'[q] = op[q] /\ ~(rank[q] > rank[p])
          /\ rank[q] \in Nat /\ rank[p] \in Nat
      BY <1>2, <1>3, <1>5, <2>2 DEF Later
    <3>2. rank[q] < rank[p]  BY <1>2, <1>6, <3>1, SMT DEF OrderInv
    <3> QED  BY <1>2, <1>6, <2>1, <3>1, <3>2 DEF OrderInv
  <2>8. SettledInv(after)'  BY <1>1, <2>1, <2>4, <2>5, <2>6, <2>7 DEF SettledInv
  <2>9. Ordered(n, rank, after)'  BY <1>7, <1>9, <2>8 DEF Ordered
  <2> QED  BY <2>3, <2>9 DEF CapInv
<1> QED  BY <1>11, <1>12

\* Rename: a failed one changes no cache file; the other starts a sweep.
LEMMA RenameCap ==
    ASSUME FilesInv, FilesInv', CapInv, NEW p \in Procs, Rename(p)
    PROVE  CapInv'
<1>1. op[p].at = "rename" /\ op[p].key \in Keys /\ p \notin Sweeping
  BY CallKinds DEF Rename, FilesInv, Stores, Sweeping
<1>2. abandoned' = abandoned /\ settled' = settled /\ abandoned \in Nat
  BY DEF Rename, FilesInv
<1>3. CASE tmp[p] = None
  <2>1. op' = [op EXCEPT ![p] = Idle] /\ Present' = Present
    BY <1>3 DEF Rename, Goto, Present
  <2> QED  BY <1>1, <1>2, <2>1, IdleCall, OutsideKeeps
<1>4. CASE tmp[p] # None
  <2>1. PICK c : c = Sweep(Names)  OBVIOUS
  <2>2. op' = [op EXCEPT ![p] = c] /\ c.at = "scan" /\ c.unread = Names /\ c.seen = {}
        /\ c.start = abandoned
    BY <1>4, <2>1 DEF Rename, Goto, Sweep
  <2>3. PICK k \in Keys : Present' \subseteq Present \cup {k}
    BY <1>1, <1>4 DEF Rename, Present, FilesInv, DirInv
  <2>4. PICK n \in Nat, rank \in [Procs -> Nat], later \in SUBSET Sweeping :
           Ordered(n, rank, later)
    BY DEF CapInv
  <2>5. PICK r : r = [rank EXCEPT ![p] = n + 1]  OBVIOUS
  <2> QED  BY <1>1, <1>2, <2>2, <2>3, <2>4, <2>5, StartKeeps
<1> QED  BY <1>3, <1>4

\* disk_store up to its rename, disk_lookup and clear_disk_cache add no cache file.
LEMMA CallsCap ==
    ASSUME FilesInv, FilesInv', CapInv, NEW p \in Procs,
           \/ \E k \in Keys : Create(p, k) \/ Lookup(p, k)
           \/ Write(p) \/ StoreFails(p) \/ Discard(p) \/ Touch(p) \/ Clear(p) \/ ClearStep(p)
    PROVE  CapInv'
<1>1. ASSUME NEW c, Goto(p, c), c.at \notin {"scan", "remove"},
             op[p].at \notin {"scan", "remove"}, Present' \subseteq Present,
             abandoned' = abandoned, settled' = settled
      PROVE  CapInv'
  BY <1>1, OutsideKeeps DEF Goto
<1>2. ASSUME NEW k \in Keys, Create(p, k)  PROVE CapInv'
  <2>1. Present' = Present /\ op[p].at = "idle"  BY <1>2, SMT DEF Create, Present, Idle
  <2> QED  BY <1>1, <1>2, <2>1 DEF Create
<1>3. ASSUME NEW k \in Keys, Lookup(p, k)  PROVE CapInv'
  <2>1. Present' = Present /\ op[p].at = "idle"  BY <1>3, SMT DEF Lookup, Present, Idle
  <2> QED  BY <1>1, <1>3, <2>1 DEF Lookup
<1>4. CASE Write(p)
  <2>1. op[p] \in Stores /\ op[p].at = "write"  BY <1>4, CallKinds DEF Write, FilesInv
  <2>2. PICK c : c = [op[p] EXCEPT !.at = "rename"]  OBVIOUS
  <2>3. c.at = "rename"  BY <2>1, <2>2 DEF Stores
  <2>4. Goto(p, c) /\ Present' = Present /\ abandoned' = abandoned /\ settled' = settled
    BY <1>4, <2>2 DEF Write, Present
  <2> QED  BY <1>1, <2>1, <2>3, <2>4
<1>5. CASE StoreFails(p)
  <2>1. Present' = Present  BY <1>5 DEF StoreFails, Present
  <2> QED  BY <1>1, <1>5, <2>1, IdleCall DEF StoreFails
<1>6. CASE Discard(p)
  <2>1. Present' \subseteq Present  BY <1>6 DEF Discard, Present, FilesInv, DirInv
  <2> QED  BY <1>1, <1>6, <2>1, IdleCall DEF Discard
<1>7. CASE Touch(p)
  <2>1. Present' \subseteq Present  BY <1>7 DEF Touch, Present, FilesInv, DirInv
  <2> QED  BY <1>1, <1>7, <2>1, IdleCall DEF Touch
<1>8. CASE Clear(p)
  <2>1. Present' = Present /\ op[p].at = "idle"  BY <1>8, SMT DEF Clear, Present, Idle
  <2> QED  BY <1>1, <1>8, <2>1 DEF Clear
<1>9. CASE ClearStep(p)
  <2>1. op[p] \in Clears /\ op[p].at = "clear"  BY <1>9, CallKinds DEF ClearStep, FilesInv
  <2>2. abandoned' = abandoned /\ settled' = settled  BY <1>9 DEF ClearStep
  <2>3. CASE op[p].unread = {}
    <3>1. Goto(p, Idle) /\ Present' = Present  BY <1>9, <2>3 DEF ClearStep, Present
    <3> QED  BY <1>1, <2>1, <2>2, <3>1, IdleCall
  <2>4. CASE op[p].unread # {}
    <3>1. PICK k \in op[p].unread :
             dir' = [dir EXCEPT ![k] = None] /\ Goto(p, [op[p] EXCEPT !.unread = @ \ {k}])
      BY <1>9, <2>4 DEF ClearStep
    <3>2. PICK c : c = [op[p] EXCEPT !.unread = @ \ {k}]  OBVIOUS
    <3>3. Goto(p, c) /\ c.at = "clear"  BY <2>1, <3>1, <3>2 DEF Clears
    <3>4. Present' \subseteq Present  BY <3>1 DEF Present, FilesInv, DirInv
    <3> QED  BY <1>1, <2>1, <2>2, <3>3, <3>4
  <2> QED  BY <2>3, <2>4
<1> QED  BY <1>2, <1>3, <1>4, <1>5, <1>6, <1>7, <1>8, <1>9

\* A sweep fails, or a process dies in one or elsewhere.
LEMMA AbandonCap ==
    ASSUME FilesInv, FilesInv', CapInv, NEW p \in Procs, SweepFails(p) \/ Crash(p)
    PROVE  CapInv'
<1>1. CASE SweepFails(p)
  <2>1. p \in Sweeping /\ Present' = Present /\ op' = [op EXCEPT ![p] = Idle]
        /\ abandoned' = abandoned + 1 /\ settled' = settled
    BY <1>1 DEF SweepFails, Sweeping, Present, Goto
  <2> QED  BY <2>1, IdleCall, GivenUpKeeps
<1>2. CASE Crash(p)
  <2>1. PICK c : c = [at |-> "crashed"]  OBVIOUS
  <2>2. op' = [op EXCEPT ![p] = c] /\ c.at = "crashed" /\ Present' = Present
        /\ settled' = settled
    BY <1>2, <2>1 DEF Crash, Goto, Present
  <2>3. CASE op[p].at \in {"scan", "remove"}
    <3>1. p \in Sweeping /\ abandoned' = abandoned + 1  BY <1>2, <2>3 DEF Crash, Sweeping
    <3> QED  BY <2>2, <3>1, GivenUpKeeps
  <2>4. CASE op[p].at \notin {"scan", "remove"}
    <3>1. abandoned' = abandoned  BY <1>2, <2>4 DEF Crash
    <3> QED  BY <2>2, <2>4, <3>1, OutsideKeeps
  <2> QED  BY <2>3, <2>4
<1> QED  BY <1>1, <1>2

\* Damage adds no file, and neither does time.
LEMMA WorldCap ==
    ASSUME FilesInv, FilesInv', CapInv,
           \/ \E k \in Keys : Damage(k)
           \/ Tick \/ UNCHANGED vars
    PROVE  CapInv'
<1>1. op' = op /\ abandoned' = abandoned /\ settled' = settled /\ Present' \subseteq Present
  BY DEF Damage, Tick, vars, Present, FilesInv, DirInv
<1>2. Sweeping' = Sweeping  BY <1>1 DEF Sweeping
<1> QED  BY <1>1, <1>2, ShrinkKeeps DEF CapInv

\* There always is an order of the sweeps that explains the files beyond the cap.
LEMMA CapAlways == Spec => []CapInv
<1>1. Init /\ FilesInv => CapInv
  <2> SUFFICES ASSUME Init, FilesInv PROVE CapInv
    OBVIOUS
  <2>1. Sweeping = {} /\ Present = {}  BY IdleCall DEF Init, Sweeping, Present
  <2>2. PICK rank : rank = [p \in Procs |-> 0]  OBVIOUS
  <2>3. rank \in [Procs -> Nat] /\ \A p \in Procs : rank[p] <= 0  BY <2>2, SMT
  <2>4. OrderInv(rank, 0)  BY <2>1, <2>3 DEF OrderInv
  <2>5. SettledInv({})
    BY <2>1, FS_EmptySet, DiskAssumption, SMT DEF SettledInv, Init
  <2> QED  BY <2>1, <2>3, <2>4, <2>5 DEF CapInv, Ordered
<1>2. FilesInv /\ FilesInv' /\ CapInv /\ [Next]_vars => CapInv'
  <2> SUFFICES ASSUME FilesInv, FilesInv', CapInv, [Next]_vars  PROVE CapInv'
    OBVIOUS
  <2>1. CASE \E p \in Procs : \E k \in Keys : Create(p, k) \/ Lookup(p, k)
    BY <2>1, CallsCap
  <2>2. CASE \E p \in Procs : \/ Write(p) \/ StoreFails(p) \/ Discard(p) \/ Touch(p)
                              \/ Clear(p) \/ ClearStep(p)
    BY <2>2, CallsCap
  <2>3. CASE \E p \in Procs : Rename(p) \/ SweepDone(p)
    BY <2>3, RenameCap, DoneCap
  <2>4. CASE \E p \in Procs : \E name \in Names : Scan(p, name)
    BY <2>4, ScanCap
  <2>5. CASE \E p \in Procs : Decide(p) \/ RemoveStale(p) \/ RemoveVictim(p)
    BY <2>5, DecideCap, RemoveStaleCap, RemoveVictimCap
  <2>6. CASE \E p \in Procs : SweepFails(p) \/ Crash(p)
    BY <2>6, AbandonCap
  <2>7. CASE (\E k \in Keys : Damage(k)) \/ Tick \/ UNCHANGED vars
    BY <2>7, WorldCap
  <2> QED  BY <2>1, <2>2, <2>3, <2>4, <2>5, <2>6, <2>7 DEF Next
<1> QED  BY <1>1, <1>2, FilesAlways, PTL DEF Spec

\* enforce_file_cap bounds the directory for every number of processes and keys:
\* the files beyond the cap belong to sweeps that still run, or that were given up
\* since the newest finished sweep began.
THEOREM CapHolds == Spec => []WithinCap
<1>1. FilesInv /\ CapInv => WithinCap
  <2> SUFFICES ASSUME FilesInv, CapInv PROVE WithinCap
    OBVIOUS
  <2>1. PICK later \in SUBSET Sweeping : SettledInv(later)  BY DEF CapInv, Ordered
  <2>2. Sweeping \in SUBSET Procs /\ Present \in SUBSET Keys
        /\ abandoned \in Nat /\ settled \in Nat /\ Cap \in Nat
    BY CapTypes DEF Present
  <2>3. Cardinality(later) <= Cardinality(Sweeping) /\ Cardinality(later) \in Nat
        /\ Cardinality(Sweeping) \in Nat /\ Cardinality(Present) \in Nat
    BY <2>2, ProcCounts, KeyCounts
  <2> QED  BY <2>1, <2>2, <2>3, SMT DEF SettledInv, WithinCap
<1> QED  BY <1>1, FilesAlways, CapAlways, PTL
=============================================================================
