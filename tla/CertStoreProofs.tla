-------------------------- MODULE CertStoreProofs --------------------------
(***************************************************************************)
(* The certificate store for every number of threads, queries, builds,     *)
(* calls and faults.  The inductive invariant says, for each place a call  *)
(* can be at, what has happened by then: which build verified the control  *)
(* proof, which accepted the call's proof, which emitted it.  Builds are   *)
(* installed in order, so a hash that is the same before and after a run   *)
(* pins the build that ran.                                                *)
(***************************************************************************)
EXTENDS CertStore, TLAPS

\* Most steps are first-order; those that count or compare name SMT.
USE Zenon

Places ==
    {"idle", "hash", "recall", "probe", "rehash", "remember", "read", "consult", "bind",
     "keep", "before", "run", "after", "exists", "derive", "prove", "resolve", "create",
     "write", "rename", "skipped", "promoted"}

Jobs ==
    [at : Places, kind : {"consume", "mint", "promote", None}, query : Queries \cup {None},
     key : Keys \cup {None}, id : Checkers \cup {None}, sid : Solvers \cup {None},
     ok : BOOLEAN, text : Certs \cup {Torn, None}, proof : Provable \cup {Bogus, None},
     fd : {"staging", "store", "gone", None}]

Staged == {"write", "rename"}

\* What a call has been given, and whose place it is.
Given(j) ==
    /\ j.at # "idle" => j.query \in Queries /\ j.key \in Keys
    /\ j.at \in {"resolve", "before", "run", "after", "keep", "create", "write", "rename"}
          => j.proof \in Provable \cup {Bogus}
    /\ j.kind = "promote" => j.proof \in Provable \cup {Bogus}
    /\ j.at \in {"read", "consult", "bind", "keep"} => j.kind = "consume"
    /\ j.at \in {"exists", "derive", "prove", "resolve", "create", "write", "rename"}
          => j.kind = "mint"
    /\ j.at \in {"hash", "recall", "probe", "rehash", "remember", "before", "run", "after"}
          => j.kind \in {"consume", "mint", "promote"}

\* The call's checker identity, the builds installed up to c, the builds pr that
\* verified the control proof.
Identified(j, c, pr) ==
    /\ j.at \notin {"idle", "exists", "hash"} => j.id \in Checkers /\ j.id <= c
    /\ j.at = "rehash" /\ j.ok => \E b \in pr : j.id <= b /\ b <= c
    /\ j.at = "remember" /\ j.ok => j.id \in pr
    /\ j.at \notin {"idle", "exists", "hash", "recall", "probe", "rehash", "remember"}
          => j.id \in pr

\* The certificate that is being consumed.
Bound(j) ==
    /\ j.at \in {"consult", "bind"} => j.text \in Certs \cup {Torn}
    /\ j.kind = "consume" /\ j.at \in {"before", "run", "after", "keep"} =>
          j.text \in Certs /\ j.text.smt2 = j.query /\ j.text.alethe_proof = j.proof

\* What checkers up to c had accepted.
Accepted(j, c, ch) ==
    /\ j.at = "after" /\ j.ok =>
          \E b \in Checkers : j.id <= b /\ b <= c /\ <<b, j.query, j.proof>> \in ch
    /\ j.at \in {"keep", "create", "write", "rename", "promoted"} =>
          <<j.id, j.query, j.proof>> \in ch
    /\ j.at = "skipped" =>
          j.text \in Certs /\ j.text.smt2 = j.query
          /\ <<j.id, j.query, j.text.alethe_proof>> \in ch

\* What solvers up to s had emitted for a mint.
Emitted(j, s, pd) ==
    /\ j.at = "prove" => j.sid \in Solvers /\ j.sid <= s /\ j.key = <<j.sid, j.query>>
    /\ j.at = "resolve" =>
          /\ j.sid \in Solvers /\ j.key = <<j.sid, j.query>>
          /\ \E b \in Solvers : j.sid <= b /\ b <= s /\ <<b, j.query, j.proof>> \in pd
    /\ j.kind = "mint" /\ j.at \in {"before", "run", "after", "create", "write", "rename"} =>
          /\ j.sid \in Solvers /\ j.key = <<j.sid, j.query>>
          /\ <<j.sid, j.query, j.proof>> \in pd

Fine(j, c, s, pr, ch, pd) ==
    /\ Given(j) /\ Identified(j, c, pr) /\ Bound(j) /\ Accepted(j, c, ch)
    /\ Emitted(j, s, pd)

\* A remembered positive answer rests on a check.
MemoFine(m, pr, ch) ==
    /\ m.text \in Certs /\ m.text.smt2 = m.query
    /\ <<m.checker, m.query, m.text.alethe_proof>> \in ch /\ m.checker \in pr

WorldInv ==
    /\ checker \in Checkers /\ solver \in Solvers /\ probed \subseteq Checkers
    /\ capability \in [Checkers -> {"ok", "defect", None}]
    /\ CapabilityIsOfBytes

MemoInv == \A m \in consumed : MemoFine(m, probed, checked)

JobInv ==
    /\ job \in [Threads -> Jobs]
    /\ \A t \in Threads : Fine(job[t], checker, solver, probed, checked, produced)

\* A whole certificate that belongs under k, see WasVerified.
Verified(text, k, ch, pd) ==
    /\ text \in Certs /\ <<text.producer_ay_identity, text.smt2>> = k
    /\ <<text.producer_ay_identity, text.smt2, text.alethe_proof>> \in pd
    /\ <<text.external_clean_checker_identity, text.smt2, text.alethe_proof>> \in ch

\* A file that mints wrote: whole, or torn.
Written(text, k, ch, pd) == text = Torn \/ Verified(text, k, ch, pd)

\* Mints that share a staging file are known to overlap; a mint that does not
\* overlap finds its staging file as it left it.
StagingInv ==
    /\ \A t, u \in Threads : t # u /\ job[t].at \in Staged /\ job[u].at \in Staged
                             /\ job[t].key = job[u].key => job[t].key \in overlapped
    /\ \A t \in Threads : job[t].at = "write" /\ job[t].key \notin overlapped =>
          job[t].fd = "staging" /\ staging[job[t].key] = Torn
    /\ \A t \in Threads : job[t].at = "rename" /\ staging[job[t].key] = Torn =>
          job[t].key \in overlapped

FilesInv ==
    /\ store \in [Keys -> Certs \cup {Torn, None}]
    /\ staging \in [Keys -> Certs \cup {Torn, None}]
    /\ \A k \in Keys : staging[k] # None => Written(staging[k], k, checked, produced)
    /\ \A k \in Keys : k \notin arrived /\ store[k] # None =>
          Written(store[k], k, checked, produced) /\ (store[k] = Torn => k \in overlapped)

IInv == WorldInv /\ MemoInv /\ JobInv /\ StagingInv /\ FilesInv

-----------------------------------------------------------------------------

\* Installations only move on and histories only grow.
Grows ==
    /\ checker <= checker' /\ solver <= solver'
    /\ probed \subseteq probed' /\ checked \subseteq checked' /\ produced \subseteq produced'

\* What a call had achieved stays achieved while others act.
LEMMA FineGrows ==
    ASSUME NEW j \in Jobs, NEW c \in Nat, NEW s \in Nat, NEW pr, NEW ch, NEW pd,
           NEW c2 \in Nat, NEW s2 \in Nat, NEW pr2, NEW ch2, NEW pd2,
           c <= c2, s <= s2, pr \subseteq pr2, ch \subseteq ch2, pd \subseteq pd2,
           pr \subseteq Checkers,
           Fine(j, c, s, pr, ch, pd)
    PROVE  Fine(j, c2, s2, pr2, ch2, pd2)
<1>1. Identified(j, c2, pr2)
    <2>1. Identified(j, c, pr)  BY DEF Fine
    <2>2. j.at \notin {"idle", "exists", "hash"} => j.id \in Checkers /\ j.id <= c2
        BY <2>1, CertAssumption, SMT DEF Identified, Checkers
    <2>3. j.at = "rehash" /\ j.ok => \E b \in pr2 : j.id <= b /\ b <= c2
        <3> SUFFICES ASSUME j.at = "rehash", j.ok PROVE \E b \in pr2 : j.id <= b /\ b <= c2
            OBVIOUS
        <3>1. PICK b \in pr : j.id <= b /\ b <= c  BY <2>1 DEF Identified
        <3> QED  BY <3>1, CertAssumption, SMT DEF Checkers
    <2> QED  BY <2>1, <2>2, <2>3 DEF Identified
<1>2. Accepted(j, c2, ch2)
    <2>1. Accepted(j, c, ch)  BY DEF Fine
    <2>2. ASSUME j.at = "after", j.ok
          PROVE  \E b \in Checkers : j.id <= b /\ b <= c2 /\ <<b, j.query, j.proof>> \in ch2
        <3>1. PICK b \in Checkers : j.id <= b /\ b <= c /\ <<b, j.query, j.proof>> \in ch
            BY <2>1, <2>2 DEF Accepted
        <3> QED  BY <3>1, CertAssumption, SMT DEF Checkers
    <2> QED  BY <2>1, <2>2 DEF Accepted
<1>3. Emitted(j, s2, pd2)
    <2>1. Emitted(j, s, pd)  BY DEF Fine
    <2>2. j.at = "prove" => j.sid \in Solvers /\ j.sid <= s2 /\ j.key = <<j.sid, j.query>>
        BY <2>1, CertAssumption, SMT DEF Emitted, Solvers
    <2>3. ASSUME j.at = "resolve"
          PROVE  \E b \in Solvers : j.sid <= b /\ b <= s2 /\ <<b, j.query, j.proof>> \in pd2
        <3>1. PICK b \in Solvers : j.sid <= b /\ b <= s /\ <<b, j.query, j.proof>> \in pd
            BY <2>1, <2>3 DEF Emitted
        <3> QED  BY <3>1, CertAssumption, SMT DEF Solvers
    <2> QED  BY <2>1, <2>2, <2>3 DEF Emitted
<1> QED  BY <1>1, <1>2, <1>3 DEF Fine

\* A verified certificate stays one.
LEMMA WrittenGrows ==
    ASSUME NEW text, NEW k, NEW ch, NEW pd, NEW ch2, NEW pd2,
           ch \subseteq ch2, pd \subseteq pd2, Written(text, k, ch, pd)
    PROVE  Written(text, k, ch2, pd2)
BY DEF Written, Verified

\* A thread between calls has nothing to account for.
LEMMA IdleFine ==
    /\ Idle \in Jobs /\ Idle.at = "idle"
    /\ \A c, s, pr, ch, pd : Fine(Idle, c, s, pr, ch, pd)
<1>1. Idle \in Jobs  BY DEF Idle, Jobs, Places
<1>2. Idle.at = "idle" /\ Idle.kind = None  BY DEF Idle
<1> QED
    <2> SUFFICES ASSUME NEW c, NEW s, NEW pr, NEW ch, NEW pd
                 PROVE  Fine(Idle, c, s, pr, ch, pd)
        BY <1>1, <1>2
    <2> HIDE DEF Idle
    <2> QED  BY <1>2, CertAssumption DEF Fine, Given, Identified, Bound, Accepted, Emitted

\* One call moves on, the others stay where they are.
LEMMA OneJob ==
    ASSUME WorldInv, WorldInv', JobInv, Grows, NEW t \in Threads,
           job' = [job EXCEPT ![t] = job'[t]], job'[t] \in Jobs,
           Fine(job'[t], checker', solver', probed', checked', produced')
    PROVE  JobInv'
<1>1. job' \in [Threads -> Jobs]  BY DEF JobInv
<1>2. ASSUME NEW u \in Threads, u # t
      PROVE  Fine(job'[u], checker', solver', probed', checked', produced')
    <2>1. job'[u] = job[u] /\ job[u] \in Jobs  BY <1>2 DEF JobInv
    <2>2. checker \in Nat /\ checker' \in Nat /\ solver \in Nat /\ solver' \in Nat
        BY CertAssumption, SMT DEF WorldInv, Checkers, Solvers
    <2>3. Fine(job[u], checker, solver, probed, checked, produced)  BY DEF JobInv
    <2>4. Fine(job[u], checker', solver', probed', checked', produced')
        BY <2>1, <2>2, <2>3, FineGrows, ZenonT(30) DEF Grows, WorldInv
    <2> QED  BY <2>1, <2>4
<1> QED  BY <1>1, <1>2 DEF JobInv

\* Files and staging stay right when a call moves on that is not at its file.
LEMMA QuietFiles ==
    ASSUME JobInv, StagingInv, FilesInv, Grows, UNCHANGED disk, NEW t \in Threads,
           job' = [job EXCEPT ![t] = job'[t]], job'[t].at \notin Staged
    PROVE  StagingInv' /\ FilesInv'
<1>1. \A u \in Threads : job'[u].at \in Staged => job'[u] = job[u]
    BY DEF JobInv
<1>2. UNCHANGED <<store, staging, overlapped, arrived>>  BY DEF disk
<1>3. StagingInv'
    <2> HIDE DEF Staged
    <2>1. \A u \in Threads : job'[u].at \in {"write", "rename"} => job'[u].at \in Staged
        BY DEF Staged
    <2> QED  BY <1>1, <1>2, <2>1 DEF StagingInv
<1>4. FilesInv'
    <2>1. checked \subseteq checked' /\ produced \subseteq produced'  BY DEF Grows
    <2>2. \A k \in Keys : staging'[k] # None => Written(staging'[k], k, checked', produced')
        BY <1>2, <2>1, WrittenGrows DEF FilesInv
    <2>3. \A k \in Keys : k \notin arrived' /\ store'[k] # None =>
             Written(store'[k], k, checked', produced') /\ (store'[k] = Torn => k \in overlapped')
        BY <1>2, <2>1, WrittenGrows DEF FilesInv
    <2> QED  BY <1>2, <2>2, <2>3 DEF FilesInv
<1> QED  BY <1>3, <1>4

\* A step of one call that only its own place, the memos or the histories record.
LEMMA QuietStep ==
    ASSUME IInv, WorldInv', MemoInv', Grows, UNCHANGED disk, NEW t \in Threads,
           job' = [job EXCEPT ![t] = job'[t]], job'[t] \in Jobs, job'[t].at \notin Staged,
           Fine(job'[t], checker', solver', probed', checked', produced')
    PROVE  IInv'
BY OneJob, QuietFiles DEF IInv

\* Histories and installations that do not change grow.
LEMMA SameGrows ==
    ASSUME WorldInv, UNCHANGED <<world, history>>
    PROVE  Grows
BY CertAssumption, SMT DEF WorldInv, Grows, world, history, Checkers, Solvers

\* A step of one call that changes nothing but its place.
LEMMA SilentStep ==
    ASSUME IInv, UNCHANGED <<disk, world, memos, history>>, NEW t \in Threads,
           job' = [job EXCEPT ![t] = job'[t]], job'[t] \in Jobs, job'[t].at \notin Staged,
           Fine(job'[t], checker, solver, probed, checked, produced)
    PROVE  IInv'
<1>1. WorldInv'  BY DEF IInv, WorldInv, CapabilityIsOfBytes, world, memos, history
<1>2. MemoInv'  BY DEF IInv, MemoInv, memos, history
<1>3. Grows  BY SameGrows DEF IInv
<1>4. Fine(job'[t], checker', solver', probed', checked', produced')
    BY DEF world, history
<1> QED  BY <1>1, <1>2, <1>3, <1>4, QuietStep

\* A call that returns false.
LEMMA ReturnsFalse ==
    ASSUME IInv, UNCHANGED <<disk, world, memos, history>>, NEW t \in Threads,
           Return(t, FALSE)
    PROVE  IInv'
<1>1. job' = [job EXCEPT ![t] = Idle]  BY DEF Return, Goto
<1>2. job'[t] = Idle  BY <1>1 DEF IInv, JobInv
<1> QED  BY <1>1, <1>2, IdleFine, SilentStep DEF Staged

-----------------------------------------------------------------------------
(* The capability of a checker                                             *)

\* HashChecker: the identity is that of a build installed by now.
LEMMA HashCheckerStep ==
    ASSUME IInv, NEW t \in Threads, HashChecker(t)  PROVE  IInv'
<1> DEFINE j == job[t]
           n == [j EXCEPT !.at = "recall", !.id = checker]
<1>1. j \in Jobs /\ checker \in Checkers /\ Fine(j, checker, solver, probed, checked, produced)
    BY DEF IInv, JobInv, WorldInv
<1>2. job' = [job EXCEPT ![t] = n] /\ job'[t] = n
    BY DEF HashChecker, Goto, IInv, JobInv
<1>3. j.at = "hash" /\ UNCHANGED <<disk, world, memos, history>>  BY DEF HashChecker
<1>4. n \in Jobs  BY <1>1 DEF Jobs, Places
<1>5. /\ n.at = "recall" /\ n.id = checker /\ n.kind = j.kind /\ n.query = j.query
      /\ n.key = j.key /\ n.proof = j.proof /\ n.text = j.text /\ n.sid = j.sid
    BY <1>1 DEF Jobs
<1>6. Fine(n, checker, solver, probed, checked, produced)
    <2> HIDE DEF n, j
    <2> QED
    BY <1>1, <1>3, <1>5, CertAssumption, SMT
    DEF Fine, Given, Identified, Bound, Accepted, Emitted, Checkers
<1> QED  BY <1>2, <1>3, <1>4, <1>5, <1>6, SilentStep DEF Staged

\* A call goes on with a checker that is known to be capable.
LEMMA CapableGoesOn ==
    ASSUME NEW j \in Jobs, NEW n, NEW c, NEW s, NEW pr, NEW ch, NEW pd,
           Fine(j, c, s, pr, ch, pd), j.at \in {"recall", "remember"}, j.id \in pr,
           n = [j EXCEPT !.ok = FALSE,
                         !.at = CASE j.kind = "mint" -> "derive"
                                  [] j.kind = "consume" -> "read"
                                  [] j.kind = "promote" -> "before"]
    PROVE  n \in Jobs /\ n.at \notin Staged /\ Fine(n, c, s, pr, ch, pd)
<1>1. j.kind \in {"mint", "consume", "promote"}  BY DEF Fine, Given
<1>2. /\ n.kind = j.kind /\ n.query = j.query /\ n.ok = FALSE /\ n.id = j.id
      /\ n.key = j.key /\ n.proof = j.proof /\ n.text = j.text /\ n.sid = j.sid
      /\ n.at = CASE j.kind = "mint" -> "derive"
                  [] j.kind = "consume" -> "read"
                  [] j.kind = "promote" -> "before"
    BY DEF Jobs
<1>3. /\ n.at \in {"derive", "read", "before"}
      /\ n.at = "derive" => n.kind = "mint"
      /\ n.at = "read" => n.kind = "consume"
      /\ n.at = "before" => n.kind = "promote"
    BY <1>1, <1>2, SMT
<1>4. n \in Jobs
    <2>1. n = [j EXCEPT !.ok = FALSE, !.at = n.at]  BY <1>2
    <2>2. n.at \in Places  BY <1>3 DEF Places
    <2> QED  BY <2>1, <2>2 DEF Jobs
<1>5. Fine(n, c, s, pr, ch, pd)
    BY <1>1, <1>2, <1>3 DEF Fine, Given, Identified, Bound, Accepted, Emitted
<1> QED  BY <1>3, <1>4, <1>5 DEF Staged

\* Recall: what the memo says of the call's identity.
LEMMA RecallStep ==
    ASSUME IInv, NEW t \in Threads, Recall(t)  PROVE  IInv'
<1> DEFINE j == job[t]
<1>1. j \in Jobs /\ Fine(j, checker, solver, probed, checked, produced)
    BY DEF IInv, JobInv
<1>2. j.at = "recall" /\ UNCHANGED <<disk, world, memos, history>>  BY DEF Recall
<1>3. j.id \in Checkers /\ j.id <= checker  BY <1>1, <1>2 DEF Fine, Identified
<1>4. CASE capability[j.id] = None
    <2> DEFINE n == [j EXCEPT !.at = "probe"]
    <2>1. job' = [job EXCEPT ![t] = n] /\ job'[t] = n
        BY <1>4 DEF Recall, Goto, IInv, JobInv
    <2>2. n \in Jobs  BY <1>1 DEF Jobs, Places
    <2>3. /\ n.at = "probe" /\ n.id = j.id /\ n.kind = j.kind /\ n.query = j.query
          /\ n.key = j.key /\ n.proof = j.proof /\ n.text = j.text /\ n.sid = j.sid
        BY <1>1 DEF Jobs
    <2>4. Fine(n, checker, solver, probed, checked, produced)
        <3> HIDE DEF n, j
        <3> QED
        BY <1>1, <1>2, <1>3, <2>3 DEF Fine, Given, Identified, Bound, Accepted, Emitted
    <2> QED  BY <1>2, <2>1, <2>2, <2>3, <2>4, SilentStep DEF Staged
<1>5. CASE capability[j.id] # None /\ capability[j.id] # "ok"
    <2>1. Return(t, FALSE)  BY <1>5 DEF Recall, Capability
    <2> QED  BY <1>2, <2>1, ReturnsFalse
<1>6. CASE capability[j.id] # None /\ capability[j.id] = "ok"
    <2> DEFINE n == [j EXCEPT !.ok = FALSE,
                              !.at = CASE j.kind = "mint" -> "derive"
                                       [] j.kind = "consume" -> "read"
                                       [] j.kind = "promote" -> "before"]
    <2>1. job' = [job EXCEPT ![t] = n] /\ job'[t] = n
        BY <1>6, ZenonT(30) DEF Recall, Capability, Goto, IInv, JobInv
    <2>2. j.id \in probed  BY <1>3, <1>6 DEF IInv, WorldInv, CapabilityIsOfBytes
    <2>3. n \in Jobs /\ n.at \notin Staged /\ Fine(n, checker, solver, probed, checked, produced)
        BY <1>1, <1>2, <2>2, CapableGoesOn
    <2> QED  BY <1>2, <2>1, <2>3, SilentStep
<1> QED  BY <1>4, <1>5, <1>6

\* Probe: whichever build ran was installed after the call had hashed the file.
LEMMA ProbeStep ==
    ASSUME IInv, NEW t \in Threads, Probe(t)  PROVE  IInv'
<1> DEFINE j == job[t]
<1>1. j \in Jobs /\ checker \in Checkers /\ Fine(j, checker, solver, probed, checked, produced)
    BY DEF IInv, JobInv, WorldInv
<1>2. j.at = "probe" /\ UNCHANGED <<disk, world, memos, checked, produced>>  BY DEF Probe
<1>3. PICK ok \in BOOLEAN :
          /\ Goto(t, [j EXCEPT !.at = "rehash", !.ok = ok])
          /\ probed' = IF ok THEN probed \cup {checker} ELSE probed
    BY DEF Probe
<1> DEFINE n == [j EXCEPT !.at = "rehash", !.ok = ok]
<1>4. job' = [job EXCEPT ![t] = n] /\ job'[t] = n  BY <1>3 DEF Goto, IInv, JobInv
<1>5. ok \in BOOLEAN /\ probed \subseteq probed' /\ probed' \subseteq Checkers
    <2>1. probed \subseteq Checkers  BY DEF IInv, WorldInv
    <2> QED  BY <1>1, <1>3, <2>1
<1>6. ok => checker \in probed'  BY <1>3
<1>7. n \in Jobs  BY <1>1, <1>5 DEF Jobs, Places
<1>8. /\ n.at = "rehash" /\ n.ok = ok /\ n.id = j.id /\ n.kind = j.kind
      /\ n.query = j.query /\ n.key = j.key /\ n.proof = j.proof
    BY <1>1, <1>5 DEF Jobs
<1>9. UNCHANGED <<checker, solver, capability, consumed>>  BY <1>2 DEF world, memos
<1>10. Fine(n, checker, solver, probed', checked, produced)
    <2> HIDE DEF n, j
    <2>1. j.id \in Checkers /\ j.id <= checker  BY <1>1, <1>2 DEF Fine, Identified
    <2>2. Identified(n, checker, probed')
        BY <1>1, <1>6, <1>8, <2>1, CertAssumption, SMT DEF Identified, Checkers
    <2> QED  BY <1>1, <1>2, <1>8, <2>2 DEF Fine, Given, Bound, Accepted, Emitted
<1>11. WorldInv' /\ MemoInv'
    <2>1. WorldInv'  BY <1>5, <1>9 DEF IInv, WorldInv, CapabilityIsOfBytes
    <2>2. MemoInv'  BY <1>2, <1>5, <1>9 DEF IInv, MemoInv, MemoFine
    <2> QED  BY <2>1, <2>2
<1>12. Grows
    BY <1>1, <1>2, <1>5, <1>9, CertAssumption, SMT DEF Grows, IInv, WorldInv, Checkers, Solvers
<1> QED
    <2>1. UNCHANGED disk /\ n.at \notin Staged  BY <1>2, <1>8 DEF Staged
    <2>2. Fine(job'[t], checker', solver', probed', checked', produced')
        BY <1>2, <1>4, <1>9, <1>10
    <2> HIDE DEF n, j
    <2> QED  BY <1>4, <1>7, <1>11, <1>12, <2>1, <2>2, QuietStep

\* Rehash: the same hash again means that the identified build ran.
LEMMA RehashStep ==
    ASSUME IInv, NEW t \in Threads, Rehash(t)  PROVE  IInv'
<1> DEFINE j == job[t]
           same == j.ok /\ checker = j.id
           n == [j EXCEPT !.at = "remember", !.ok = same]
<1>1. j \in Jobs /\ checker \in Checkers /\ Fine(j, checker, solver, probed, checked, produced)
    BY DEF IInv, JobInv, WorldInv
<1>2. j.at = "rehash" /\ UNCHANGED <<disk, world, memos, history>>  BY DEF Rehash
<1>3. job' = [job EXCEPT ![t] = n] /\ job'[t] = n  BY <1>1 DEF Rehash, Goto, IInv, JobInv
<1>s. same \in BOOLEAN /\ (same => j.ok /\ checker = j.id)  BY Zenon
<1> HIDE DEF same
<1>4. n \in Jobs  BY <1>1, <1>s DEF Jobs, Places
<1>5. /\ n.at = "remember" /\ n.id = j.id /\ n.kind = j.kind
      /\ n.query = j.query /\ n.key = j.key /\ n.proof = j.proof
      /\ n.ok = same
    BY <1>1, <1>s DEF Jobs
<1>6. Fine(n, checker, solver, probed, checked, produced)
    <2> HIDE DEF n, j
    <2>1. j.id \in Checkers /\ j.id <= checker  BY <1>1, <1>2 DEF Fine, Identified
    <2>2. ASSUME n.ok PROVE j.id \in probed
        <3>0. j.ok /\ checker = j.id  BY <1>5, <1>s, <2>2
        <3>1. PICK b \in probed : j.id <= b /\ b <= checker
            BY <1>1, <1>2, <3>0 DEF Fine, Identified
        <3>2. probed \subseteq Checkers  BY DEF IInv, WorldInv
        <3> QED  BY <1>1, <2>1, <3>0, <3>1, <3>2, CertAssumption, SMT DEF Checkers
    <2>3. Identified(n, checker, probed)  BY <1>5, <2>1, <2>2 DEF Identified
    <2> QED  BY <1>1, <1>2, <1>5, <2>3 DEF Fine, Given, Bound, Accepted, Emitted
<1> QED  BY <1>2, <1>3, <1>4, <1>5, <1>6, SilentStep DEF Staged

\* Remember: a first verdict "ok" is about the identified build.
LEMMA RememberStep ==
    ASSUME IInv, NEW t \in Threads, Remember(t)  PROVE  IInv'
<1> DEFINE j == job[t]
<1>1. j \in Jobs /\ Fine(j, checker, solver, probed, checked, produced)
    BY DEF IInv, JobInv
<1>2. j.at = "remember" /\ UNCHANGED <<disk, world, consumed, history>>  BY DEF Remember
<1>3. j.id \in Checkers /\ (j.ok => j.id \in probed)  BY <1>1, <1>2 DEF Fine, Identified
<1>4. UNCHANGED <<checker, solver, probed, checked, produced>>  BY <1>2 DEF world, history
<1>5. WorldInv'
    <2>1. /\ capability' \in [Checkers -> {"ok", "defect", None}]
          /\ \A b \in Checkers : capability'[b] = "ok" => b \in probed
        BY <1>3, CertAssumption DEF Remember, IInv, WorldInv, CapabilityIsOfBytes
    <2> QED  BY <1>4, <2>1 DEF IInv, WorldInv, CapabilityIsOfBytes
<1>6. MemoInv'  BY <1>2, <1>4 DEF IInv, MemoInv
<1>7. Grows  BY <1>2, SameGrows DEF IInv
<1>8. CASE ~j.ok
    <2>1. job' = [job EXCEPT ![t] = Idle]
        BY <1>8 DEF Remember, Capability, Return, Goto
    <2>2. job'[t] = Idle  BY <2>1 DEF IInv, JobInv
    <2> QED  BY <1>2, <1>5, <1>6, <1>7, <2>1, <2>2, IdleFine, QuietStep DEF Staged
<1>9. CASE j.ok
    <2> DEFINE n == [j EXCEPT !.ok = FALSE,
                              !.at = CASE j.kind = "mint" -> "derive"
                                       [] j.kind = "consume" -> "read"
                                       [] j.kind = "promote" -> "before"]
    <2>1. job' = [job EXCEPT ![t] = n] /\ job'[t] = n
        BY <1>9 DEF Remember, Capability, Goto, IInv, JobInv
    <2>2. n \in Jobs /\ n.at \notin Staged /\ Fine(n, checker, solver, probed, checked, produced)
        BY <1>1, <1>2, <1>3, <1>9, CapableGoesOn
    <2>3. Fine(job'[t], checker', solver', probed', checked', produced')
        BY <1>4, <2>1, <2>2
    <2> HIDE DEF n
    <2> QED  BY <1>2, <1>5, <1>6, <1>7, <2>1, <2>2, <2>3, QuietStep
<1> QED  BY <1>1, <1>8, <1>9

-----------------------------------------------------------------------------
(* The start of a call                                                     *)

\* A new call has its query, its key and, to promote, its proof.
LEMMA BeginStep ==
    ASSUME IInv, NEW t \in Threads, NEW j \in Jobs, Begin(t, j), j.query \in Queries,
           \/ j.at = "hash" /\ j.kind = "consume"
           \/ j.at = "exists" /\ j.kind = "mint"
           \/ j.at = "hash" /\ j.kind = "promote" /\ j.proof \in Provable \cup {Bogus}
    PROVE  IInv'
<1> DEFINE n == [j EXCEPT !.key = <<solver, j.query>>]
<1>1. <<solver, j.query>> \in Keys  BY DEF IInv, WorldInv, Keys
<1>2. job' = [job EXCEPT ![t] = n] /\ job'[t] = n  BY DEF Begin, Goto, IInv, JobInv
<1>3. UNCHANGED <<disk, checker, solver, memos, history>>  BY DEF Begin
<1>4. n \in Jobs  BY <1>1 DEF Jobs
<1>5. /\ n.at = j.at /\ n.kind = j.kind /\ n.query = j.query /\ n.proof = j.proof
      /\ n.key \in Keys
    BY <1>1 DEF Jobs
<1>6. Fine(n, checker, solver, probed, checked, produced)
    <2> HIDE DEF n
    <2> QED  BY <1>5 DEF Fine, Given, Identified, Bound, Accepted, Emitted
<1>7. UNCHANGED <<checker, solver, capability, consumed, probed, checked, produced>>
    BY <1>3 DEF memos, history
<1>8. WorldInv'  BY <1>7 DEF IInv, WorldInv, CapabilityIsOfBytes
<1>9. MemoInv'  BY <1>7 DEF IInv, MemoInv
<1>10. Grows  BY <1>7, CertAssumption, SMT DEF Grows, IInv, WorldInv, Checkers, Solvers
<1> HIDE DEF n
<1>11. Fine(job'[t], checker', solver', probed', checked', produced')
    BY <1>2, <1>6, <1>7
<1> QED  BY <1>2, <1>3, <1>4, <1>5, <1>8, <1>9, <1>10, <1>11, QuietStep DEF Staged

\* The three kinds of calls begin.
LEMMA BeginSteps ==
    ASSUME IInv, NEW t \in Threads, NEW q \in Queries,
           BeginConsume(t, q) \/ BeginMint(t, q) \/ BeginPromote(t, q)
    PROVE  IInv'
<1>1. CASE BeginConsume(t, q)
    <2> DEFINE j == [Idle EXCEPT !.at = "hash", !.kind = "consume", !.query = q]
    <2>1. j \in Jobs /\ j.at = "hash" /\ j.kind = "consume" /\ j.query = q
        BY DEF Idle, Jobs, Places
    <2>2. Begin(t, j)  BY <1>1 DEF BeginConsume
    <2> HIDE DEF j
    <2> QED  BY <2>1, <2>2, BeginStep
<1>2. CASE BeginMint(t, q)
    <2> DEFINE j == [Idle EXCEPT !.at = "exists", !.kind = "mint", !.query = q]
    <2>1. j \in Jobs /\ j.at = "exists" /\ j.kind = "mint" /\ j.query = q
        BY DEF Idle, Jobs, Places
    <2>2. Begin(t, j)  BY <1>2 DEF BeginMint
    <2> HIDE DEF j
    <2> QED  BY <2>1, <2>2, BeginStep
<1>3. CASE BeginPromote(t, q)
    <2>1. PICK proof \in ({q} \cap Provable) \cup {Bogus} :
             Begin(t, [Idle EXCEPT !.at = "hash", !.kind = "promote", !.query = q,
                                   !.proof = proof])
        BY <1>3 DEF BeginPromote
    <2> DEFINE j == [Idle EXCEPT !.at = "hash", !.kind = "promote", !.query = q,
                                 !.proof = proof]
    <2>2. j \in Jobs /\ j.at = "hash" /\ j.kind = "promote" /\ j.query = q
          /\ j.proof \in Provable \cup {Bogus}
        BY DEF Idle, Jobs, Places
    <2> HIDE DEF j
    <2> QED  BY <2>1, <2>2, BeginStep DEF j
<1> QED  BY <1>1, <1>2, <1>3

-----------------------------------------------------------------------------
(* Consuming a certificate                                                 *)

\* ReadCert: what the call read is a text.
LEMMA ReadCertStep ==
    ASSUME IInv, NEW t \in Threads, ReadCert(t)  PROVE  IInv'
<1> DEFINE j == job[t]
           n == [j EXCEPT !.at = "consult", !.text = store[j.key]]
<1>1. j \in Jobs /\ Fine(j, checker, solver, probed, checked, produced)
    BY DEF IInv, JobInv
<1>2. j.at = "read" /\ UNCHANGED <<disk, world, memos, history>>  BY DEF ReadCert
<1>3. CASE store[j.key] = None
    BY <1>2, <1>3, ReturnsFalse DEF ReadCert
<1>4. CASE store[j.key] # None
    <2>1. job' = [job EXCEPT ![t] = n] /\ job'[t] = n
        BY <1>4, SMTT(30) DEF ReadCert, Goto, IInv, JobInv
    <2>2. store[j.key] \in Certs \cup {Torn}
        BY <1>1, <1>2, <1>4 DEF Fine, Given, IInv, FilesInv
    <2>3. n \in Jobs  BY <1>1, <2>2 DEF Jobs, Places
    <2>4. /\ n.at = "consult" /\ n.id = j.id /\ n.kind = j.kind /\ n.query = j.query
          /\ n.key = j.key /\ n.proof = j.proof /\ n.text \in Certs \cup {Torn}
        BY <1>1, <2>2 DEF Jobs
    <2> HIDE DEF n, j
    <2>5. Fine(n, checker, solver, probed, checked, produced)
        BY <1>1, <1>2, <2>4 DEF Fine, Given, Identified, Bound, Accepted, Emitted
    <2> QED  BY <1>2, <2>1, <2>3, <2>4, <2>5, SilentStep DEF Staged
<1> QED  BY <1>3, <1>4

\* Consult: a hit of the memo rests on an earlier check of the same text.
LEMMA ConsultStep ==
    ASSUME IInv, NEW t \in Threads, Consult(t)  PROVE  IInv'
<1> DEFINE j == job[t]
           m == [j EXCEPT !.sid = solver]
<1>1. j \in Jobs /\ Fine(j, checker, solver, probed, checked, produced) /\ solver \in Solvers
    BY DEF IInv, JobInv, WorldInv
<1>2. j.at = "consult" /\ UNCHANGED <<disk, world, memos, history>>  BY DEF Consult
<1>3. CASE ConsumeMemoKey(m) \in consumed
    <2> DEFINE n == [j EXCEPT !.at = "skipped"]
    <2>0. j.kind = "consume"  BY <1>1, <1>2 DEF Fine, Given
    <2>1. job' = [job EXCEPT ![t] = n] /\ job'[t] = n
        BY <1>3, <2>0 DEF Consult, Return, Goto, IInv, JobInv
    <2>2. n \in Jobs  BY <1>1 DEF Jobs, Places
    <2>3. /\ n.at = "skipped" /\ n.id = j.id /\ n.kind = j.kind /\ n.query = j.query
          /\ n.key = j.key /\ n.proof = j.proof /\ n.text = j.text
        BY <1>1 DEF Jobs
    <2>4. MemoFine(ConsumeMemoKey(m), probed, checked)  BY <1>3 DEF IInv, MemoInv
    <2>5. m.text = j.text /\ m.query = j.query /\ m.id = j.id  BY <1>1 DEF Jobs
    <2>6. /\ j.text \in Certs /\ j.text.smt2 = j.query /\ j.id \in probed
          /\ <<j.id, j.query, j.text.alethe_proof>> \in checked
        BY <2>4, <2>5, SMTT(30) DEF MemoFine, ConsumeMemoKey
    <2> HIDE DEF n, j, m
    <2>7. Fine(n, checker, solver, probed, checked, produced)
        BY <1>1, <1>2, <2>3, <2>6, <2>0 DEF Fine, Given, Identified, Bound, Accepted, Emitted
    <2> QED  BY <1>2, <2>1, <2>2, <2>3, <2>7, SilentStep DEF Staged
<1>4. CASE ConsumeMemoKey(m) \notin consumed
    <2> DEFINE n == [m EXCEPT !.at = "bind"]
    <2>1. job' = [job EXCEPT ![t] = n] /\ job'[t] = n
        BY <1>4 DEF Consult, Goto, IInv, JobInv
    <2>2. n \in Jobs  BY <1>1 DEF Jobs, Places
    <2>3. /\ n.at = "bind" /\ n.id = j.id /\ n.kind = j.kind /\ n.query = j.query
          /\ n.key = j.key /\ n.proof = j.proof /\ n.text = j.text
        BY <1>1 DEF Jobs
    <2> HIDE DEF n, j, m
    <2>4. Fine(n, checker, solver, probed, checked, produced)
        BY <1>1, <1>2, <2>3 DEF Fine, Given, Identified, Bound, Accepted, Emitted
    <2> QED  BY <1>2, <2>1, <2>2, <2>3, <2>4, SilentStep DEF Staged
<1> QED  BY <1>3, <1>4

\* Bind: the certificate is about the call's query.
LEMMA BindStep ==
    ASSUME IInv, NEW t \in Threads, Bind(t)  PROVE  IInv'
<1> DEFINE j == job[t]
           n == [j EXCEPT !.at = "before", !.proof = j.text.alethe_proof]
<1>1. j \in Jobs /\ Fine(j, checker, solver, probed, checked, produced)
    BY DEF IInv, JobInv
<1>2. j.at = "bind" /\ UNCHANGED <<disk, world, memos, history>>  BY DEF Bind
<1>3. CASE ~Binds(j.text, j)
    BY <1>2, <1>3, ReturnsFalse DEF Bind
<1>4. CASE Binds(j.text, j)
    <2>1. job' = [job EXCEPT ![t] = n] /\ job'[t] = n
        BY <1>4, SMTT(30) DEF Bind, Goto, IInv, JobInv
    <2>2. j.text \in Certs /\ j.text.smt2 = j.query
        BY <1>1, <1>2, <1>4 DEF Fine, Bound, Binds
    <2>3. j.text.alethe_proof \in Provable \cup {Bogus}  BY <2>2 DEF Certs
    <2>4. n \in Jobs  BY <1>1, <2>3 DEF Jobs, Places
    <2>5. /\ n.at = "before" /\ n.id = j.id /\ n.kind = j.kind /\ n.query = j.query
          /\ n.key = j.key /\ n.proof = j.text.alethe_proof /\ n.text = j.text
        BY <1>1, <2>3 DEF Jobs
    <2>6. j.kind = "consume"  BY <1>1, <1>2, SMTT(30) DEF Fine, Given
    <2> HIDE DEF n, j
    <2>7. Fine(n, checker, solver, probed, checked, produced)
        BY <1>1, <1>2, <2>2, <2>3, <2>5, <2>6
        DEF Fine, Given, Identified, Bound, Accepted, Emitted
    <2> QED  BY <1>2, <2>1, <2>4, <2>5, <2>7, SilentStep DEF Staged
<1> QED  BY <1>3, <1>4

\* Keep: what enters the memo was checked.
LEMMA KeepStep ==
    ASSUME IInv, NEW t \in Threads, Keep(t)  PROVE  IInv'
<1> DEFINE j == job[t]
           n == [j EXCEPT !.at = "skipped"]
<1>1. j \in Jobs /\ Fine(j, checker, solver, probed, checked, produced)
    BY DEF IInv, JobInv
<1>2. j.at = "keep" /\ UNCHANGED <<disk, world, capability, history>>  BY DEF Keep
<1>3. j.kind = "consume"  BY <1>1, <1>2 DEF Fine, Given
<1>4. job' = [job EXCEPT ![t] = n] /\ job'[t] = n
    BY <1>3 DEF Keep, Return, Goto, IInv, JobInv
<1>5. n \in Jobs  BY <1>1 DEF Jobs, Places
<1>6. /\ n.at = "skipped" /\ n.id = j.id /\ n.kind = j.kind /\ n.query = j.query
      /\ n.key = j.key /\ n.proof = j.proof /\ n.text = j.text
    BY <1>1, SMTT(30) DEF Jobs
<1>7. /\ j.text \in Certs /\ j.text.smt2 = j.query /\ j.id \in probed
      /\ <<j.id, j.query, j.text.alethe_proof>> \in checked
    BY <1>1, <1>2, <1>3 DEF Fine, Identified, Bound, Accepted
<1>8. UNCHANGED <<checker, solver, capability, probed, checked, produced>>
    BY <1>2 DEF world, history
<1>9. WorldInv'  BY <1>8 DEF IInv, WorldInv, CapabilityIsOfBytes
<1>10. MemoInv'
    <2>1. MemoFine(ConsumeMemoKey(j), probed, checked)
        BY <1>7 DEF MemoFine, ConsumeMemoKey
    <2>2. consumed' = consumed \cup {ConsumeMemoKey(j)}  BY DEF Keep
    <2> HIDE DEF j
    <2> QED  BY <1>8, <2>1, <2>2 DEF IInv, MemoInv
<1>11. Grows  BY <1>2, SameGrows DEF IInv
<1> HIDE DEF n, j
<1>12. Fine(n, checker, solver, probed, checked, produced)
    BY <1>1, <1>2, <1>3, <1>6, <1>7 DEF Fine, Given, Identified, Bound, Accepted, Emitted
<1>13. Fine(job'[t], checker', solver', probed', checked', produced')
    BY <1>4, <1>8, <1>12
<1> QED  BY <1>2, <1>4, <1>5, <1>6, <1>9, <1>10, <1>11, <1>13, QuietStep DEF Staged

-----------------------------------------------------------------------------
(* The steps of a mint that change files                                   *)

\* What a mint is about to write is verified and belongs under its key.
LEMMA CertOfVerified ==
    ASSUME IInv, NEW t \in Threads, job[t].at \in {"create", "write", "rename"}
    PROVE  /\ Verified(CertOf(job[t]), job[t].key, checked, produced)
           /\ CertOf(job[t]) \in Certs /\ job[t].key \in Keys
<1> DEFINE j == job[t]
<1>1. j \in Jobs /\ Fine(j, checker, solver, probed, checked, produced)
    BY SMTT(30) DEF IInv, JobInv
<1>2. /\ j.query \in Queries /\ j.key \in Keys /\ j.proof \in Provable \cup {Bogus}
      /\ j.kind = "mint"
    BY <1>1 DEF Fine, Given
<1>3. j.id \in Checkers  BY <1>1 DEF Fine, Identified
<1>4. <<j.id, j.query, j.proof>> \in checked  BY <1>1, SMTT(30) DEF Fine, Accepted
<1>5. j.sid \in Solvers /\ j.key = <<j.sid, j.query>> /\ <<j.sid, j.query, j.proof>> \in produced
    BY <1>1, <1>2 DEF Fine, Emitted
<1> HIDE DEF j
<1>6. CertOf(j) \in Certs  BY <1>2, <1>3, <1>5 DEF CertOf, Certs
<1>7. Verified(CertOf(j), j.key, checked, produced)
    BY <1>4, <1>5, <1>6 DEF CertOf, Verified
<1> QED  BY <1>2, <1>6, <1>7 DEF j

\* Create: a second mint at the staging file is noticed in the history.
LEMMA CreateStep ==
    ASSUME IInv, NEW t \in Threads, Create(t)  PROVE  IInv'
<1> DEFINE j == job[t]
           n == [j EXCEPT !.at = "write", !.fd = "staging"]
<1>1. j \in Jobs /\ Fine(j, checker, solver, probed, checked, produced) /\ j.key \in Keys
    BY CertOfVerified DEF IInv, JobInv, Create
<1>2. j.at = "create" /\ UNCHANGED <<store, arrived, world, memos, history>>  BY DEF Create
<1>3. job' = [job EXCEPT ![t] = n] /\ job'[t] = n  BY DEF Create, Goto, IInv, JobInv
<1>4. n \in Jobs  BY <1>1 DEF Jobs, Places
<1>5. /\ n.at = "write" /\ n.fd = "staging" /\ n.id = j.id /\ n.kind = j.kind
      /\ n.query = j.query /\ n.key = j.key /\ n.proof = j.proof /\ n.sid = j.sid
    BY <1>1 DEF Jobs
<1>6. staging' = [staging EXCEPT ![j.key] = Torn]  BY DEF Create
<1>7. /\ overlapped \subseteq overlapped'
      /\ \A u \in Threads : u # t /\ job[u].key = j.key /\ job[u].at \in Staged
                             => j.key \in overlapped'
    BY DEF Create, Staged
<1>8. \A u \in Threads : u # t => job'[u] = job[u]  BY <1>3, SMTT(30) DEF IInv, JobInv
<1> HIDE DEF n, j
<1>9. Fine(n, checker, solver, probed, checked, produced)
    BY <1>1, <1>2, <1>5 DEF Fine, Given, Identified, Bound, Accepted, Emitted
<1>10. WorldInv' /\ MemoInv' /\ Grows
    <2>1. WorldInv'  BY <1>2 DEF IInv, WorldInv, CapabilityIsOfBytes, world, memos, history
    <2>2. MemoInv'  BY <1>2 DEF IInv, MemoInv, memos, history
    <2> QED  BY <1>2, <2>1, <2>2, SameGrows DEF IInv
<1>11. JobInv'
    <2>1. Fine(job'[t], checker', solver', probed', checked', produced')
        BY <1>2, <1>3, <1>9 DEF world, history
    <2> QED  BY <1>3, <1>4, <1>10, <2>1, OneJob DEF IInv
<1>12. StagingInv'
    <2>1. ASSUME NEW u \in Threads, NEW v \in Threads, u # v, job'[u].at \in Staged,
                 job'[v].at \in Staged, job'[u].key = job'[v].key
          PROVE  job'[u].key \in overlapped'
        BY <1>3, <1>5, <1>7, <1>8, <2>1, SMT DEF IInv, StagingInv
    <2>2. ASSUME NEW u \in Threads, job'[u].at = "write", job'[u].key \notin overlapped'
          PROVE  job'[u].fd = "staging" /\ staging'[job'[u].key] = Torn
        <3>1. CASE u = t  BY <1>1, <1>3, <1>5, <1>6, <3>1 DEF IInv, FilesInv
        <3>2. CASE u # t
            <4>1. job'[u] = job[u]  BY <1>8, <3>2
            <4>2. job[u].key # j.key /\ job[u].key \notin overlapped
                BY <1>7, <2>2, <3>2, <4>1 DEF Staged
            <4>3. job[u].fd = "staging" /\ staging[job[u].key] = Torn
                BY <2>2, <4>1, <4>2, SMTT(30) DEF IInv, StagingInv
            <4>4. job[u].key \in Keys  BY <2>2, <4>1, SMTT(30) DEF IInv, JobInv, Fine, Given
            <4> QED  BY <1>6, <4>1, <4>2, <4>3, <4>4 DEF IInv, FilesInv
        <3> QED  BY <3>1, <3>2, SMTT(30)
    <2>3. ASSUME NEW u \in Threads, job'[u].at = "rename", staging'[job'[u].key] = Torn
          PROVE  job'[u].key \in overlapped'
        <3>1. u # t /\ job'[u] = job[u]  BY <1>3, <1>5, <1>8, <2>3
        <3>2. CASE job[u].key = j.key  BY <1>7, <2>3, <3>1, <3>2, SMTT(30) DEF Staged
        <3>3. CASE job[u].key # j.key
            BY <1>6, <1>7, <2>3, <3>1, <3>3, SMTT(30) DEF IInv, StagingInv, FilesInv
        <3> QED  BY <3>2, <3>3
    <2> QED  BY <2>1, <2>2, <2>3 DEF StagingInv
<1>13. FilesInv'
    <2>1. UNCHANGED <<store, arrived, checked, produced>>  BY <1>2 DEF history
    <2>2. staging' \in [Keys -> Certs \cup {Torn, None}]  BY <1>6 DEF IInv, FilesInv
    <2>3. \A k \in Keys : staging'[k] # None => Written(staging'[k], k, checked, produced)
        BY <1>6 DEF IInv, FilesInv, Written
    <2> QED  BY <1>7, <2>1, <2>2, <2>3 DEF IInv, FilesInv
<1> QED  BY <1>10, <1>11, <1>12, <1>13 DEF IInv

\* Write: only overlapping mints leave a torn file.
LEMMA WriteStep ==
    ASSUME IInv, NEW t \in Threads, Write(t)  PROVE  IInv'
<1> DEFINE j == job[t]
           k == j.key
           cert == CertOf(j)
           n == [j EXCEPT !.at = "rename", !.fd = None]
<1>1. j \in Jobs /\ Fine(j, checker, solver, probed, checked, produced)
    BY DEF IInv, JobInv
<1>2. j.at = "write" /\ UNCHANGED <<overlapped, arrived, world, memos, history>>
    BY DEF Write
<1>3. job' = [job EXCEPT ![t] = n] /\ job'[t] = n  BY DEF Write, Goto, IInv, JobInv
<1>4. n \in Jobs  BY <1>1 DEF Jobs, Places
<1>5. /\ n.at = "rename" /\ n.id = j.id /\ n.kind = j.kind
      /\ n.query = j.query /\ n.key = k /\ n.proof = j.proof /\ n.sid = j.sid
    BY <1>1 DEF Jobs
<1>6. Verified(cert, k, checked, produced) /\ cert \in Certs /\ k \in Keys
    BY <1>2, CertOfVerified
<1>7. /\ \/ /\ j.fd = "staging" /\ store' = store
            /\ \E text \in Overwritten(staging[k], cert) : staging' = [staging EXCEPT ![k] = text]
         \/ /\ j.fd # "staging" /\ staging' = staging
            /\ \/ store' = store
               \/ \E text \in Overwritten(store[k], cert) : store' = [store EXCEPT ![k] = text]
    BY DEF Write
<1>8. \A u \in Threads : u # t => job'[u] = job[u]  BY <1>3 DEF IInv, JobInv
<1>9. k \notin overlapped => j.fd = "staging" /\ staging[k] = Torn
    BY <1>2 DEF IInv, StagingInv
<1>10. \A old : Overwritten(old, cert) \subseteq {cert, Torn}  BY DEF Overwritten
<1>11. Overwritten(Torn, cert) = {cert}  BY DEF Overwritten
<1>12. cert # Torn /\ cert # None /\ Torn # None  BY <1>6, CertAssumption, SMTT(30)
<1> HIDE DEF n, j, k, cert
<1>13. Fine(n, checker, solver, probed, checked, produced)
    BY <1>1, <1>2, <1>5, ZenonT(30) DEF Fine, Given, Identified, Bound, Accepted, Emitted, k
<1>14. WorldInv' /\ MemoInv' /\ Grows
    <2>1. WorldInv'  BY <1>2 DEF IInv, WorldInv, CapabilityIsOfBytes, world, memos, history
    <2>2. MemoInv'  BY <1>2 DEF IInv, MemoInv, memos, history
    <2> QED  BY <1>2, <2>1, <2>2, SameGrows DEF IInv
<1>15. JobInv'
    <2>1. Fine(job'[t], checker', solver', probed', checked', produced')
        BY <1>2, <1>3, <1>13 DEF world, history
    <2> QED  BY <1>3, <1>4, <1>14, <2>1, OneJob DEF IInv
<1>16. \A i \in Keys : i # k => staging'[i] = staging[i] /\ store'[i] = store[i]
    BY <1>7 DEF IInv, FilesInv
<1>17. /\ staging' \in [Keys -> Certs \cup {Torn, None}] /\ staging'[k] \in {staging[k], cert, Torn}
       /\ k \notin overlapped => staging'[k] = cert
    BY <1>6, <1>7, <1>9, <1>10, <1>11 DEF IInv, FilesInv
<1>18. /\ store' \in [Keys -> Certs \cup {Torn, None}] /\ store'[k] \in {store[k], cert, Torn}
       /\ k \notin overlapped => store'[k] = store[k]
    BY <1>6, <1>7, <1>9, <1>10, SMTT(30) DEF IInv, FilesInv
<1>19. StagingInv'
    <2>0. \A u \in Threads : u # t /\ job[u].at \in Staged /\ job[u].key = k => k \in overlapped
        BY <1>2 DEF IInv, StagingInv, Staged, j, k
    <2>1. ASSUME NEW u \in Threads, NEW v \in Threads, u # v, job'[u].at \in Staged,
                 job'[v].at \in Staged, job'[u].key = job'[v].key
          PROVE  job'[u].key \in overlapped'
        <3>1. CASE u = t  BY <1>2, <1>3, <1>5, <1>8, <2>0, <2>1, <3>1, SMT
        <3>2. CASE v = t  BY <1>2, <1>3, <1>5, <1>8, <2>0, <2>1, <3>2, SMTT(30)
        <3>3. CASE u # t /\ v # t  BY <1>2, <1>8, <2>1, <3>3, SMTT(30) DEF IInv, StagingInv
        <3> QED  BY <3>1, <3>2, <3>3
    <2>2. ASSUME NEW u \in Threads, job'[u].at = "write", job'[u].key \notin overlapped'
          PROVE  job'[u].fd = "staging" /\ staging'[job'[u].key] = Torn
        <3>1. u # t /\ job'[u] = job[u]  BY <1>3, <1>5, <1>8, <2>2
        <3>2. job[u].key # k  BY <1>2, <2>0, <2>2, <3>1, SMTT(30) DEF Staged
        <3>3. job[u].key \in Keys
            BY <2>2, <3>1 DEF IInv, JobInv, Fine, Given
        <3> QED  BY <1>2, <1>16, <2>2, <3>1, <3>2, <3>3 DEF IInv, StagingInv
    <2>3. ASSUME NEW u \in Threads, job'[u].at = "rename", staging'[job'[u].key] = Torn
          PROVE  job'[u].key \in overlapped'
        <3>1. CASE u = t  BY <1>2, <1>3, <1>5, <1>12, <1>17, <2>3, <3>1, SMT
        <3>2. CASE u # t
            <4>1. job'[u] = job[u]  BY <1>8, <3>2
            <4>2. job[u].key \in Keys  BY <2>3, <4>1 DEF IInv, JobInv, Fine, Given
            <4>3. CASE job[u].key = k  BY <1>2, <2>0, <2>3, <3>2, <4>1, <4>3, SMTT(30) DEF Staged
            <4>4. CASE job[u].key # k
                BY <1>2, <1>16, <2>3, <4>1, <4>2, <4>4, SMTT(30) DEF IInv, StagingInv
            <4> QED  BY <4>3, <4>4, SMTT(30)
        <3> QED  BY <3>1, <3>2
    <2> QED  BY <2>1, <2>2, <2>3 DEF StagingInv
<1>20. FilesInv'
    <2>1. UNCHANGED <<arrived, overlapped, checked, produced>>  BY <1>2 DEF history
    <2>2. Written(cert, k, checked, produced) /\ Written(Torn, k, checked, produced)
        BY <1>6 DEF Written
    <2>3. \A i \in Keys : staging'[i] # None => Written(staging'[i], i, checked, produced)
        BY <1>16, <1>17, <2>2 DEF IInv, FilesInv
    <2>4. \A i \in Keys : i \notin arrived /\ store'[i] # None =>
             Written(store'[i], i, checked, produced) /\ (store'[i] = Torn => i \in overlapped)
        BY <1>12, <1>16, <1>18, <2>2 DEF IInv, FilesInv
    <2> QED  BY <1>17, <1>18, <2>1, <2>3, <2>4 DEF FilesInv
<1> QED  BY <1>14, <1>15, <1>19, <1>20 DEF IInv

\* Which name a mint's open file has by now is no part of what it achieved.
LEMMA FineFd ==
    ASSUME NEW j \in Jobs, NEW c, NEW s, NEW pr, NEW ch, NEW pd, NEW f,
           Fine(j, c, s, pr, ch, pd)
    PROVE  Fine([j EXCEPT !.fd = f], c, s, pr, ch, pd)
<1> DEFINE n == [j EXCEPT !.fd = f]
<1>1. /\ n.at = j.at /\ n.kind = j.kind /\ n.query = j.query /\ n.ok = j.ok /\ n.id = j.id
      /\ n.key = j.key /\ n.proof = j.proof /\ n.text = j.text /\ n.sid = j.sid
    BY SMTT(30) DEF Jobs
<1> HIDE DEF n
<1>2. Given(n) /\ Bound(n)  BY <1>1 DEF Fine, Given, Bound
<1>3. Identified(n, c, pr)  BY <1>1, SMTT(30) DEF Fine, Identified
<1>4. Accepted(n, c, ch) /\ Emitted(n, s, pd)  BY <1>1 DEF Fine, Accepted, Emitted
<1>5. Fine(n, c, s, pr, ch, pd)  BY <1>2, <1>3, <1>4, SMTT(30) DEF Fine
<1> QED  BY <1>5 DEF n

\* Rename: what it publishes is what this mint staged, unless mints overlapped.
LEMMA RenameStep ==
    ASSUME IInv, NEW t \in Threads, Rename(t)  PROVE  IInv'
<1> DEFINE k == job[t].key
<1>0. job \in [Threads -> Jobs]  BY SMTT(30) DEF IInv, JobInv
<1>1. /\ job[t].at = "rename" /\ k \in Keys
      /\ UNCHANGED <<overlapped, arrived, world, memos, history>>
    BY CertOfVerified, ZenonT(30) DEF Rename
<1>2. CASE staging[k] = None
    <2>1. Return(t, FALSE) /\ UNCHANGED <<disk, world, memos, history>>
        BY <1>2, ZenonT(30) DEF Rename, disk
    <2> QED  BY <2>1, ReturnsFalse
<1>3. CASE staging[k] # None
    <2>1. /\ store' = [store EXCEPT ![k] = staging[k]]
          /\ staging' = [staging EXCEPT ![k] = None]
          /\ job' = [u \in Threads |-> IF u = t THEN Idle ELSE Moved(u, k)]
        BY <1>3, SMTT(30) DEF Rename
    <2>2. ASSUME NEW u \in Threads, u # t
          PROVE  /\ job'[u] \in Jobs /\ job'[u].at = job[u].at /\ job'[u].key = job[u].key
                 /\ job[u].key # k => job'[u] = job[u]
                 /\ Fine(job'[u], checker, solver, probed, checked, produced)
        <3>1. job'[u] = Moved(u, k)  BY <2>1, <2>2
        <3>2. Fine(job[u], checker, solver, probed, checked, produced) /\ job[u] \in Jobs
            BY DEF IInv, JobInv
        <3>3. CASE job[u].key # k \/ job[u].fd = None
            BY <3>1, <3>2, <3>3, SMTT(30) DEF Moved
        <3>4. CASE job[u].key = k /\ job[u].fd # None
            <4> DEFINE f == IF job[u].fd = "staging" THEN "store" ELSE "gone"
            <4>0. f \in {"store", "gone"}  OBVIOUS
            <4>1. job'[u] = [job[u] EXCEPT !.fd = f]
                BY <3>1, <3>4 DEF Moved
            <4> HIDE DEF f
            <4>2. Fine(job'[u], checker, solver, probed, checked, produced)
                BY <3>2, <4>1, FineFd, SMT
            <4>3. job'[u] \in Jobs /\ job'[u].at = job[u].at /\ job'[u].key = job[u].key
                BY <3>2, <4>0, <4>1 DEF Jobs
            <4> QED  BY <3>4, <4>2, <4>3
        <3> QED  BY <3>3, <3>4, ZenonT(30)
    <2>3. job'[t] = Idle /\ job'[t].at = "idle"  BY <2>1, IdleFine
    <2>4. WorldInv' /\ MemoInv'
        <3>1. WorldInv'  BY <1>1 DEF IInv, WorldInv, CapabilityIsOfBytes, world, memos, history
        <3>2. MemoInv'  BY <1>1 DEF IInv, MemoInv, memos, history
        <3> QED  BY <3>1, <3>2
    <2>5. JobInv'
        <3>1. \A u \in Threads : job'[u] \in Jobs  BY <2>2, <2>3, IdleFine, SMTT(30)
        <3>2. \A u \in Threads : Fine(job'[u], checker, solver, probed, checked, produced)
            BY <2>2, <2>3, IdleFine
        <3>3. UNCHANGED <<checker, solver, probed, checked, produced>>
            BY <1>1 DEF world, history
        <3>4. job' \in [Threads -> Jobs]
            <4>1. job' = [u \in Threads |-> job'[u]]  BY <2>1
            <4> QED  BY <3>1, <4>1
        <3> QED  BY <3>2, <3>3, <3>4, SMTT(30) DEF JobInv
    <2>6. StagingInv'
        <3>0. \A u \in Threads : u # t /\ job[u].at \in Staged /\ job[u].key = k => k \in overlapped
            BY <1>1, SMTT(30) DEF IInv, StagingInv, Staged
        <3> HIDE DEF k
        <3>1. ASSUME NEW u \in Threads, NEW v \in Threads, u # v, job'[u].at \in Staged,
                     job'[v].at \in Staged, job'[u].key = job'[v].key
              PROVE  job'[u].key \in overlapped'
            <4>1. u # t /\ v # t  BY <2>3, <3>1, SMTT(30) DEF Staged
            <4> QED  BY <1>1, <2>2, <3>1, <4>1, ZenonT(30) DEF IInv, StagingInv
        <3>2. ASSUME NEW u \in Threads, job'[u].at = "write", job'[u].key \notin overlapped'
              PROVE  job'[u].fd = "staging" /\ staging'[job'[u].key] = Torn
            <4>1. u # t  BY <2>3, <3>2, SMTT(30)
            <4>2. job[u].key # k  BY <1>1, <2>2, <3>0, <3>2, <4>1, ZenonT(30) DEF Staged
            <4>3. job'[u] = job[u] /\ staging[job[u].key] = Torn /\ job[u].fd = "staging"
                <5>1. job'[u] = job[u]  BY <2>2, <4>1, <4>2, ZenonT(30)
                <5>2. job[u].at = "write" /\ job[u].key \notin overlapped
                    BY <1>1, <3>2, <5>1, ZenonT(30)
                <5>3. staging[job[u].key] = Torn /\ job[u].fd = "staging"
                    BY <5>2, ZenonT(30) DEF IInv, StagingInv
                <5> QED  BY <5>1, <5>3, SMTT(30)
            <4>4. job[u].key \in Keys  BY <3>2, <4>3, SMTT(30) DEF IInv, JobInv, Fine, Given
            <4> QED  BY <2>1, <4>2, <4>3, <4>4 DEF IInv, FilesInv
        <3>3. ASSUME NEW u \in Threads, job'[u].at = "rename", staging'[job'[u].key] = Torn
              PROVE  job'[u].key \in overlapped'
            <4>1. u # t  BY <2>3, <3>3, SMTT(30)
            <4>2. CASE job[u].key = k  BY <1>1, <2>2, <3>0, <3>3, <4>1, <4>2, SMTT(30) DEF Staged
            <4>3. CASE job[u].key # k
                <5>1. job'[u] = job[u]  BY <2>2, <4>1, <4>3, SMTT(30)
                <5>2. job[u].key \in Keys  BY <3>3, <5>1 DEF IInv, JobInv, Fine, Given
                <5>3. staging[job[u].key] = Torn
                    BY <2>1, <3>3, <4>3, <5>1, <5>2 DEF IInv, FilesInv
                <5> QED  BY <1>1, <3>3, <5>1, <5>3, SMTT(30) DEF IInv, StagingInv
            <4> QED  BY <4>2, <4>3
        <3> QED  BY <3>1, <3>2, <3>3 DEF StagingInv
    <2>7. FilesInv'
        <3>1. UNCHANGED <<arrived, overlapped, checked, produced>>  BY <1>1 DEF history
        <3>2. staging[k] = Torn => k \in overlapped  BY <1>1, SMTT(30) DEF IInv, StagingInv
        <3>3. /\ Written(staging[k], k, checked, produced) /\ staging[k] \in Certs \cup {Torn}
            BY <1>1, <1>3, SMTT(30) DEF IInv, FilesInv
        <3> HIDE DEF k
        <3>4. /\ staging' \in [Keys -> Certs \cup {Torn, None}]
              /\ store' \in [Keys -> Certs \cup {Torn, None}]
            BY <1>1, <2>1, <3>3 DEF IInv, FilesInv
        <3>5. \A i \in Keys : staging'[i] # None => Written(staging'[i], i, checked, produced)
            BY <2>1 DEF IInv, FilesInv
        <3>6. \A i \in Keys : i \notin arrived /\ store'[i] # None =>
                 Written(store'[i], i, checked, produced) /\ (store'[i] = Torn => i \in overlapped)
            BY <2>1, <3>2, <3>3 DEF IInv, FilesInv
        <3> QED  BY <3>1, <3>4, <3>5, <3>6 DEF FilesInv
    <2> QED  BY <2>4, <2>5, <2>6, <2>7, SMTT(30) DEF IInv
<1> QED  BY <1>2, <1>3

-----------------------------------------------------------------------------
(* Checking a proof                                                        *)

\* HashBefore: the build to run is installed now.
LEMMA HashBeforeStep ==
    ASSUME IInv, NEW t \in Threads, HashBefore(t)  PROVE  IInv'
<1> DEFINE j == job[t]
           n == [j EXCEPT !.at = "run"]
<1>1. j \in Jobs /\ Fine(j, checker, solver, probed, checked, produced)
    BY DEF IInv, JobInv
<1>2. j.at = "before" /\ UNCHANGED <<disk, world, memos, history>>  BY DEF HashBefore
<1>3. CASE checker # j.id
    BY <1>2, <1>3, ReturnsFalse DEF HashBefore
<1>4. CASE checker = j.id
    <2>1. job' = [job EXCEPT ![t] = n] /\ job'[t] = n
        BY <1>4 DEF HashBefore, Goto, IInv, JobInv
    <2>2. n \in Jobs  BY <1>1 DEF Jobs, Places
    <2>3. /\ n.at = "run" /\ n.id = j.id /\ n.kind = j.kind /\ n.query = j.query
          /\ n.key = j.key /\ n.proof = j.proof /\ n.text = j.text /\ n.sid = j.sid
        BY <1>1, SMTT(30) DEF Jobs
    <2> HIDE DEF n, j
    <2>4. Fine(n, checker, solver, probed, checked, produced)
        BY <1>1, <1>2, <2>3 DEF Fine, Given, Identified, Bound, Accepted, Emitted
    <2> QED  BY <1>2, <2>1, <2>2, <2>3, <2>4, SilentStep DEF Staged
<1> QED  BY <1>3, <1>4

\* RunChecker: whichever build answered was installed after the call's build.
LEMMA RunCheckerStep ==
    ASSUME IInv, NEW t \in Threads, RunChecker(t)  PROVE  IInv'
<1> DEFINE j == job[t]
           run == <<checker, j.query, j.proof>>
<1>1. j \in Jobs /\ checker \in Checkers /\ Fine(j, checker, solver, probed, checked, produced)
    BY DEF IInv, JobInv, WorldInv
<1>2. j.at = "run" /\ UNCHANGED <<disk, world, memos, probed, produced>>  BY DEF RunChecker
<1>3. PICK ok \in BOOLEAN :
          /\ Goto(t, [j EXCEPT !.at = "after", !.ok = ok])
          /\ checked' = IF ok THEN checked \cup {run} ELSE checked
    BY DEF RunChecker
<1> DEFINE n == [j EXCEPT !.at = "after", !.ok = ok]
<1>4. job' = [job EXCEPT ![t] = n] /\ job'[t] = n  BY <1>3 DEF Goto, IInv, JobInv
<1>5. checked \subseteq checked' /\ (ok => run \in checked')  BY <1>3
<1>6. n \in Jobs  BY <1>1 DEF Jobs, Places
<1>7. /\ n.at = "after" /\ n.ok = ok /\ n.id = j.id /\ n.kind = j.kind
      /\ n.query = j.query /\ n.key = j.key /\ n.proof = j.proof /\ n.text = j.text
      /\ n.sid = j.sid
    BY <1>1 DEF Jobs
<1>8. UNCHANGED <<checker, solver, capability, consumed>>  BY <1>2 DEF world, memos
<1>9. Fine(n, checker, solver, probed, checked', produced)
    <2>1. j.id \in Checkers /\ j.id <= checker /\ j.id \in probed
        BY <1>1, <1>2, SMTT(30) DEF Fine, Identified
    <2>2. Accepted(n, checker, checked')
        <3>1. n.ok => run \in checked'  BY <1>5, <1>7
        <3> HIDE DEF n, j
        <3> QED  BY <1>1, <1>7, <2>1, <3>1, CertAssumption, SMT DEF Accepted, Checkers
    <2> HIDE DEF n, j
    <2> QED  BY <1>1, <1>2, <1>7, <2>1, <2>2, ZenonT(30) DEF Fine, Given, Identified, Bound, Emitted
<1>10. WorldInv'  BY <1>2, <1>8 DEF IInv, WorldInv, CapabilityIsOfBytes
<1>11. MemoInv'  BY <1>2, <1>5, <1>8 DEF IInv, MemoInv, MemoFine
<1>12. Grows
    BY <1>2, <1>5, <1>8, CertAssumption, SMT DEF Grows, IInv, WorldInv, Checkers, Solvers
<1> HIDE DEF n, j, run
<1>13. Fine(job'[t], checker', solver', probed', checked', produced')
    BY <1>2, <1>4, <1>8, <1>9
<1> QED  BY <1>2, <1>4, <1>6, <1>7, <1>10, <1>11, <1>12, <1>13, QuietStep DEF Staged

\* HashAfter: the same hash again means that the identified build accepted.
LEMMA HashAfterStep ==
    ASSUME IInv, NEW t \in Threads, HashAfter(t)  PROVE  IInv'
<1> DEFINE j == job[t]
           next == IF j.kind = "promote" THEN "promoted"
                   ELSE IF j.kind = "mint" THEN "create" ELSE "keep"
           n == [j EXCEPT !.at = next]
<1>1. j \in Jobs /\ checker \in Checkers /\ Fine(j, checker, solver, probed, checked, produced)
    BY DEF IInv, JobInv, WorldInv
<1>2. j.at = "after" /\ UNCHANGED <<disk, world, memos, history>>  BY DEF HashAfter
<1>3. j.ok \in BOOLEAN  BY <1>1 DEF Jobs
<1>4. CASE ~(j.ok /\ checker = j.id)
    <2>1. Return(t, FALSE)
        BY <1>4 DEF HashAfter, Answer, Return
    <2> QED  BY <1>2, <2>1, ReturnsFalse
<1>5. CASE j.ok /\ checker = j.id
    <2>1. job' = [job EXCEPT ![t] = n] /\ job'[t] = n
        BY <1>5 DEF HashAfter, Answer, Return, Goto, IInv, JobInv
    <2>2. next \in {"promoted", "create", "keep"}  OBVIOUS
    <2>3. /\ next = "keep" => j.kind = "consume"
          /\ next = "create" => j.kind = "mint"
          /\ next = "promoted" => j.kind = "promote"
        BY <1>1, <1>2, ZenonT(30) DEF Fine, Given
    <2> HIDE DEF next
    <2>4. n \in Jobs  BY <1>1, <2>2 DEF Jobs, Places
    <2>5. /\ n.at = next /\ n.id = j.id /\ n.kind = j.kind /\ n.query = j.query
          /\ n.key = j.key /\ n.proof = j.proof /\ n.text = j.text /\ n.sid = j.sid
        BY <1>1, <2>2, SMTT(30) DEF Jobs
    <2>6. <<j.id, j.query, j.proof>> \in checked /\ j.id \in Checkers /\ j.id \in probed
        <3>1. PICK b \in Checkers :
                 j.id <= b /\ b <= checker /\ <<b, j.query, j.proof>> \in checked
            BY <1>1, <1>2, <1>5, SMTT(30) DEF Fine, Accepted
        <3>2. b = j.id  BY <1>1, <1>5, <3>1, CertAssumption, SMTT(30) DEF Checkers
        <3> QED  BY <1>1, <1>2, <3>1, <3>2, SMTT(30) DEF Fine, Identified
    <2> HIDE DEF n, j
    <2>7. Given(n) /\ Bound(n) /\ Emitted(n, solver, produced)
        BY <1>1, <1>2, <2>2, <2>3, <2>5, SMTT(30) DEF Fine, Given, Bound, Emitted
    <2>8. Identified(n, checker, probed) /\ Accepted(n, checker, checked)
        BY <1>1, <1>2, <1>5, <2>2, <2>3, <2>5, <2>6, ZenonT(30) DEF Fine, Identified, Accepted
    <2>9. Fine(n, checker, solver, probed, checked, produced)  BY <2>7, <2>8 DEF Fine
    <2> QED  BY <1>2, <2>1, <2>2, <2>4, <2>5, <2>9, SilentStep DEF Staged
<1> QED  BY <1>4, <1>5

-----------------------------------------------------------------------------
(* Minting a certificate                                                   *)

\* Exists: a mint goes on only if there is no certificate.
LEMMA ExistsStep ==
    ASSUME IInv, NEW t \in Threads, Exists(t)  PROVE  IInv'
<1> DEFINE j == job[t]
           n == [j EXCEPT !.at = "hash"]
<1>1. j \in Jobs /\ Fine(j, checker, solver, probed, checked, produced)
    BY DEF IInv, JobInv
<1>2. j.at = "exists" /\ UNCHANGED <<disk, world, memos, history>>  BY DEF Exists
<1>3. CASE store[j.key] # None
    BY <1>2, <1>3, ReturnsFalse DEF Exists
<1>4. CASE store[j.key] = None
    <2>1. job' = [job EXCEPT ![t] = n] /\ job'[t] = n
        BY <1>4 DEF Exists, Goto, IInv, JobInv
    <2>2. n \in Jobs  BY <1>1 DEF Jobs, Places
    <2>3. /\ n.at = "hash" /\ n.kind = j.kind /\ n.query = j.query
          /\ n.key = j.key /\ n.proof = j.proof
        BY <1>1, SMTT(30) DEF Jobs
    <2> HIDE DEF n, j
    <2>4. Fine(n, checker, solver, probed, checked, produced)
        BY <1>1, <1>2, <2>3, ZenonT(30) DEF Fine, Given, Identified, Bound, Accepted, Emitted
    <2> QED  BY <1>2, <2>1, <2>2, <2>3, <2>4, SilentStep DEF Staged
<1> QED  BY <1>3, <1>4

\* Derive: the key is that of the solver installed now.
LEMMA DeriveStep ==
    ASSUME IInv, NEW t \in Threads, Derive(t)  PROVE  IInv'
<1> DEFINE j == job[t]
           n == [j EXCEPT !.at = "prove", !.sid = solver]
<1>1. j \in Jobs /\ solver \in Solvers /\ Fine(j, checker, solver, probed, checked, produced)
    BY DEF IInv, JobInv, WorldInv
<1>2. j.at = "derive" /\ UNCHANGED <<disk, world, memos, history>>  BY DEF Derive
<1>3. CASE ~(store[j.key] = None /\ <<solver, j.query>> = j.key)
    BY <1>2, <1>3, ReturnsFalse DEF Derive
<1>4. CASE store[j.key] = None /\ <<solver, j.query>> = j.key
    <2>1. job' = [job EXCEPT ![t] = n] /\ job'[t] = n
        BY <1>4 DEF Derive, Goto, IInv, JobInv
    <2>2. n \in Jobs  BY <1>1 DEF Jobs, Places
    <2>3. /\ n.at = "prove" /\ n.id = j.id /\ n.kind = j.kind /\ n.query = j.query
          /\ n.key = j.key /\ n.proof = j.proof /\ n.sid = solver
        BY <1>1 DEF Jobs
    <2> HIDE DEF n, j
    <2>4. Emitted(n, solver, produced)
        BY <1>1, <1>4, <2>3, CertAssumption, SMTT(30) DEF Emitted, Solvers
    <2>5. Fine(n, checker, solver, probed, checked, produced)
        BY <1>1, <1>2, <2>3, <2>4, ZenonT(30) DEF Fine, Given, Identified, Bound, Accepted
    <2> QED  BY <1>2, <2>1, <2>2, <2>3, <2>5, SilentStep DEF Staged
<1> QED  BY <1>3, <1>4

\* Prove: whichever build emitted the proof was installed after the key's build.
LEMMA ProveStep ==
    ASSUME IInv, NEW t \in Threads, Prove(t)  PROVE  IInv'
<1> DEFINE j == job[t]
<1>1. j \in Jobs /\ solver \in Solvers /\ Fine(j, checker, solver, probed, checked, produced)
    BY DEF IInv, JobInv, WorldInv
<1>2. j.at = "prove" /\ UNCHANGED <<disk, world, memos, probed, checked>>  BY DEF Prove
<1>3. CASE Return(t, FALSE) /\ UNCHANGED produced
    BY <1>2, <1>3, ReturnsFalse DEF history
<1>4. CASE \E proof \in ({j.query} \cap Provable) \cup {Bogus} :
             /\ Goto(t, [j EXCEPT !.at = "resolve", !.proof = proof])
             /\ produced' = produced \cup {<<solver, j.query, proof>>}
    <2>1. PICK proof \in ({j.query} \cap Provable) \cup {Bogus} :
             /\ Goto(t, [j EXCEPT !.at = "resolve", !.proof = proof])
             /\ produced' = produced \cup {<<solver, j.query, proof>>}
        BY <1>4
    <2> DEFINE n == [j EXCEPT !.at = "resolve", !.proof = proof]
    <2>2. job' = [job EXCEPT ![t] = n] /\ job'[t] = n  BY <2>1 DEF Goto, IInv, JobInv
    <2>3. proof \in Provable \cup {Bogus}  OBVIOUS
    <2>4. n \in Jobs  BY <1>1, <2>3 DEF Jobs, Places
    <2>5. /\ n.at = "resolve" /\ n.id = j.id /\ n.kind = j.kind /\ n.query = j.query
          /\ n.key = j.key /\ n.proof = proof /\ n.sid = j.sid
        BY <1>1, <2>3 DEF Jobs
    <2>6. produced \subseteq produced' /\ <<solver, j.query, proof>> \in produced'
        BY <2>1
    <2>7. UNCHANGED <<checker, solver, capability, consumed>>  BY <1>2, SMTT(30) DEF world, memos
    <2> HIDE DEF n, j
    <2>8. Emitted(n, solver, produced')
        <3>1. j.sid \in Solvers /\ j.sid <= solver /\ j.key = <<j.sid, j.query>>
            BY <1>1, <1>2, ZenonT(30) DEF Fine, Emitted
        <3> QED  BY <1>1, <2>5, <2>6, <3>1, CertAssumption, SMTT(30) DEF Emitted, Solvers
    <2>9. Fine(n, checker, solver, probed, checked, produced')
        BY <1>1, <1>2, <2>3, <2>5, <2>8, ZenonT(30) DEF Fine, Given, Identified, Bound, Accepted
    <2>10. WorldInv'  BY <1>2, <2>7 DEF IInv, WorldInv, CapabilityIsOfBytes
    <2>11. MemoInv'  BY <1>2, <2>7 DEF IInv, MemoInv
    <2>12. Grows
        BY <1>2, <2>6, <2>7, CertAssumption, SMT DEF Grows, IInv, WorldInv, Checkers, Solvers
    <2>13. Fine(job'[t], checker', solver', probed', checked', produced')
        BY <1>2, <2>2, <2>7, <2>9
    <2> QED  BY <1>2, <2>2, <2>4, <2>5, <2>10, <2>11, <2>12, <2>13, QuietStep DEF Staged
<1> QED  BY <1>3, <1>4 DEF Prove

\* Resolve: the same hash again means that the key's build emitted the proof.
LEMMA ResolveStep ==
    ASSUME IInv, NEW t \in Threads, Resolve(t)  PROVE  IInv'
<1> DEFINE j == job[t]
           n == [j EXCEPT !.at = "before"]
<1>1. j \in Jobs /\ solver \in Solvers /\ Fine(j, checker, solver, probed, checked, produced)
    BY DEF IInv, JobInv, WorldInv
<1>2. j.at = "resolve" /\ UNCHANGED <<disk, world, memos, history>>  BY DEF Resolve
<1>3. CASE solver # j.sid
    BY <1>2, <1>3, ReturnsFalse DEF Resolve
<1>4. CASE solver = j.sid
    <2>1. job' = [job EXCEPT ![t] = n] /\ job'[t] = n
        BY <1>4 DEF Resolve, Goto, IInv, JobInv
    <2>2. n \in Jobs  BY <1>1 DEF Jobs, Places
    <2>3. /\ n.at = "before" /\ n.id = j.id /\ n.kind = j.kind /\ n.query = j.query
          /\ n.key = j.key /\ n.proof = j.proof /\ n.sid = j.sid
        BY <1>1, SMTT(30) DEF Jobs
    <2>4. j.kind = "mint"  BY <1>1, <1>2, ZenonT(30) DEF Fine, Given
    <2>5. /\ j.sid \in Solvers /\ j.key = <<j.sid, j.query>>
          /\ <<j.sid, j.query, j.proof>> \in produced
        <3>1. PICK b \in Solvers :
                 j.sid <= b /\ b <= solver /\ <<b, j.query, j.proof>> \in produced
            BY <1>1, <1>2, ZenonT(30) DEF Fine, Emitted
        <3>2. b = j.sid  BY <1>1, <1>4, <3>1, CertAssumption, SMT DEF Solvers
        <3> QED  BY <1>1, <1>2, <3>1, <3>2, ZenonT(30) DEF Fine, Emitted
    <2> HIDE DEF n, j
    <2>6. Fine(n, checker, solver, probed, checked, produced)
        BY <1>1, <1>2, <2>3, <2>4, <2>5, ZenonT(30) DEF Fine, Given, Identified, Bound, Accepted, Emitted
    <2> QED  BY <1>2, <2>1, <2>2, <2>3, <2>6, SilentStep DEF Staged
<1> QED  BY <1>3, <1>4

\* MintFails: the call ends where it is.
LEMMA MintFailsStep ==
    ASSUME IInv, NEW t \in Threads, MintFails(t)  PROVE  IInv'
BY ReturnsFalse DEF MintFails

-----------------------------------------------------------------------------
(* The environment                                                         *)

\* Installations and process restarts leave the files alone.
LEMMA FilesStay ==
    ASSUME FilesInv, UNCHANGED <<disk, history>>
    PROVE  FilesInv'
BY DEF FilesInv, disk, history

\* A newer checker or solver is installed: no call loses what it achieved.
LEMMA ReplaceStep ==
    ASSUME IInv, ReplaceChecker \/ ReplaceSolver  PROVE  IInv'
<1>1. UNCHANGED <<disk, memos, job, history>>  BY DEF ReplaceChecker, ReplaceSolver
<1>2. /\ checker' \in Checkers /\ solver' \in Solvers
      /\ checker <= checker' /\ solver <= solver'
      /\ checker \in Nat /\ checker' \in Nat /\ solver \in Nat /\ solver' \in Nat
    BY CertAssumption, SMT DEF IInv, WorldInv, ReplaceChecker, ReplaceSolver, Checkers, Solvers
<1>3. WorldInv'
    BY <1>1, <1>2 DEF IInv, WorldInv, CapabilityIsOfBytes, memos, history
<1>4. MemoInv'  BY <1>1 DEF IInv, MemoInv, memos, history
<1>5. UNCHANGED <<job, probed, checked, produced>>  BY <1>1 DEF history
<1>6. JobInv'
    <2>1. ASSUME NEW u \in Threads
          PROVE  Fine(job[u], checker', solver', probed, checked, produced)
        <3>1. job[u] \in Jobs /\ Fine(job[u], checker, solver, probed, checked, produced)
              /\ probed \subseteq Checkers
            BY DEF IInv, JobInv, WorldInv
        <3> QED  BY <1>2, <3>1, FineGrows
    <2> QED  BY <1>5, <2>1 DEF IInv, JobInv
<1>7. StagingInv'  BY <1>1 DEF IInv, StagingInv, disk
<1> QED  BY <1>1, <1>3, <1>4, <1>6, <1>7, FilesStay DEF IInv

\* Arrive: nothing is claimed of a key under which a file arrived.
LEMMA ArriveStep ==
    ASSUME IInv, NEW k \in Keys, NEW text \in Foreign, Arrive(k, text)  PROVE  IInv'
<1>1. /\ store' = [store EXCEPT ![k] = text] /\ arrived' = arrived \cup {k}
      /\ job' = [u \in Threads |->
                   IF job[u].key = k /\ job[u].fd = "store" THEN [job[u] EXCEPT !.fd = "gone"]
                   ELSE job[u]]
      /\ UNCHANGED <<staging, overlapped, checker, solver, memos, history>>
    BY SMTT(30) DEF Arrive
<1>2. ASSUME NEW u \in Threads
      PROVE  /\ job'[u] \in Jobs /\ job'[u].at = job[u].at /\ job'[u].key = job[u].key
             /\ job[u].fd = "staging" => job'[u] = job[u]
             /\ Fine(job'[u], checker, solver, probed, checked, produced)
    <2>1. Fine(job[u], checker, solver, probed, checked, produced) /\ job[u] \in Jobs
        BY DEF IInv, JobInv
    <2>2. CASE job[u].key = k /\ job[u].fd = "store"
        <3> DEFINE f == "gone"
        <3>0. f = "gone"  OBVIOUS
        <3>1. job'[u] = [job[u] EXCEPT !.fd = f]  BY <1>1, <2>2
        <3> HIDE DEF f
        <3>2. Fine([job[u] EXCEPT !.fd = f], checker, solver, probed, checked, produced)
            BY <2>1, FineFd
        <3>3. job'[u] \in Jobs /\ job'[u].at = job[u].at /\ job'[u].key = job[u].key
            BY <2>1, <3>0, <3>1 DEF Jobs
        <3> QED  BY <2>2, <3>1, <3>2, <3>3
    <2>3. CASE ~(job[u].key = k /\ job[u].fd = "store")
        <3>1. job'[u] = job[u]  BY <1>1, <2>3
        <3> QED  BY <2>1, <3>1
    <2> QED  BY <2>2, <2>3
<1>3. WorldInv'  BY <1>1 DEF IInv, WorldInv, CapabilityIsOfBytes, memos, history
<1>4. MemoInv'  BY <1>1, SMTT(30) DEF IInv, MemoInv, memos, history
<1>5. JobInv'
    <2>1. job' = [u \in Threads |-> job'[u]]  BY <1>1
    <2>2. job' \in [Threads -> Jobs]  BY <1>2, <2>1
    <2>3. UNCHANGED <<checker, solver, probed, checked, produced>>  BY <1>1, SMTT(30) DEF history
    <2> QED  BY <1>2, <2>2, <2>3 DEF JobInv
<1>6. StagingInv'
    <2>1. UNCHANGED <<staging, overlapped>>  BY <1>1
    <2>2. ASSUME NEW u \in Threads, job'[u].at = "write", job'[u].key \notin overlapped'
          PROVE  job'[u].fd = "staging" /\ staging'[job'[u].key] = Torn
        BY <1>2, <2>1, <2>2 DEF IInv, StagingInv
    <2> QED  BY <1>2, <2>1, <2>2, ZenonT(30) DEF IInv, StagingInv
<1>7. FilesInv'
    <2>1. UNCHANGED <<staging, overlapped, checked, produced>>  BY <1>1 DEF history
    <2>2. text \in Certs \cup {Torn, None}  BY CertAssumption
    <2>3. store' \in [Keys -> Certs \cup {Torn, None}]  BY <1>1, <2>2 DEF IInv, FilesInv
    <2>4. \A i \in Keys : i \notin arrived' => i \notin arrived /\ store'[i] = store[i]
        BY <1>1 DEF IInv, FilesInv
    <2> QED  BY <2>1, <2>3, <2>4 DEF IInv, FilesInv
<1> QED  BY <1>3, <1>4, <1>5, <1>6, <1>7 DEF IInv

\* Threads between calls, and empty memos, have nothing to account for.
LEMMA FreshProcess ==
    ASSUME job' = [t \in Threads |-> Idle], capability' = [b \in Checkers |-> None],
           consumed' = {}, checker' \in Checkers, solver' \in Solvers,
           probed' \subseteq Checkers
    PROVE  WorldInv' /\ MemoInv' /\ JobInv' /\ StagingInv'
<1>1. WorldInv' /\ MemoInv'
    BY CertAssumption DEF WorldInv, CapabilityIsOfBytes, MemoInv
<1> HIDE DEF Idle
<1>2. \A t \in Threads : job'[t] = Idle  OBVIOUS
<1>3. JobInv'  BY <1>2, IdleFine, SMTT(30) DEF JobInv
<1>4. StagingInv'  BY <1>2, IdleFine DEF StagingInv, Staged
<1> QED  BY <1>1, <1>3, <1>4, SMTT(30)

\* Crash: a staging file that is left behind is only ever overwritten or renamed.
LEMMA CrashStep ==
    ASSUME IInv, Crash  PROVE  IInv'
<1>1. /\ job' = [t \in Threads |-> Idle] /\ capability' = [b \in Checkers |-> None]
      /\ consumed' = {} /\ UNCHANGED <<disk, checker, solver, history>>
    BY DEF Crash
<1>2. checker' \in Checkers /\ solver' \in Solvers /\ probed' \subseteq Checkers
    BY <1>1 DEF IInv, WorldInv, history
<1> HIDE DEF Idle
<1> QED  BY <1>1, <1>2, FreshProcess, FilesStay DEF IInv

-----------------------------------------------------------------------------
(* The theorems                                                            *)

\* An empty store, nothing probed.
LEMMA InitInv == Init => IInv
<1> SUFFICES ASSUME Init PROVE IInv  OBVIOUS
<1> USE DEF Init
<1>1. checker \in Checkers /\ solver \in Solvers  BY CertAssumption, SMT DEF Checkers, Solvers
<1>2. WorldInv  BY <1>1, CertAssumption DEF WorldInv, CapabilityIsOfBytes
<1>3. MemoInv  BY DEF MemoInv
<1> HIDE DEF Idle
<1>4. \A t \in Threads : job[t] = Idle  OBVIOUS
<1>5. JobInv  BY <1>4, IdleFine DEF JobInv
<1>6. StagingInv  BY <1>4, IdleFine DEF StagingInv, Staged
<1>7. FilesInv  BY DEF FilesInv
<1> QED  BY <1>2, <1>3, <1>5, <1>6, <1>7 DEF IInv

\* Every step preserves the invariant.
LEMMA NextInv == IInv /\ [Next]_vars => IInv'
<1> SUFFICES ASSUME IInv, [Next]_vars PROVE IInv'  OBVIOUS
<1>1. CASE UNCHANGED vars
    <2>1. UNCHANGED <<store, staging, overlapped, arrived, checker, solver, capability,
                      consumed, job, probed, checked, produced>>
        BY <1>1 DEF vars, disk, world, memos, history
    <2>2. WorldInv' /\ MemoInv'
        BY <2>1, SMTT(30) DEF IInv, WorldInv, CapabilityIsOfBytes, MemoInv
    <2>3. JobInv' /\ StagingInv'  BY <2>1 DEF IInv, JobInv, StagingInv
    <2>4. FilesInv'  BY <2>1 DEF IInv, FilesInv
    <2> QED  BY <2>2, <2>3, <2>4 DEF IInv
<1>2. ASSUME NEW t \in Threads, NEW q \in Queries,
             BeginConsume(t, q) \/ BeginMint(t, q) \/ BeginPromote(t, q)
      PROVE  IInv'
    BY <1>2, BeginSteps
<1>3. ASSUME NEW t \in Threads,
             HashChecker(t) \/ Recall(t) \/ Probe(t) \/ Rehash(t) \/ Remember(t)
      PROVE  IInv'
    BY <1>3, HashCheckerStep, RecallStep, ProbeStep, RehashStep, RememberStep
<1>4. ASSUME NEW t \in Threads, ReadCert(t) \/ Consult(t) \/ Bind(t) \/ Keep(t)
      PROVE  IInv'
    BY <1>4, ReadCertStep, ConsultStep, BindStep, KeepStep
<1>5. ASSUME NEW t \in Threads, HashBefore(t) \/ RunChecker(t) \/ HashAfter(t)
      PROVE  IInv'
    BY <1>5, HashBeforeStep, RunCheckerStep, HashAfterStep
<1>6. ASSUME NEW t \in Threads, Exists(t) \/ Derive(t) \/ Prove(t) \/ Resolve(t)
      PROVE  IInv'
    BY <1>6, ExistsStep, DeriveStep, ProveStep, ResolveStep
<1>7. ASSUME NEW t \in Threads, Create(t) \/ Write(t) \/ Rename(t) \/ MintFails(t)
      PROVE  IInv'
    BY <1>7, CreateStep, WriteStep, RenameStep, MintFailsStep
<1>8. CASE ReplaceChecker \/ ReplaceSolver  BY <1>8, ReplaceStep
<1>9. CASE Crash  BY <1>9, CrashStep
<1>10. ASSUME NEW k \in Keys, NEW text \in Foreign, Arrive(k, text)  PROVE IInv'
    BY <1>10, ArriveStep
<1> QED
    BY <1>1, <1>2, <1>3, <1>4, <1>5, <1>6, <1>7, <1>8, <1>9, <1>10 DEF Next

\* The invariant holds in every reachable state.
LEMMA AlwaysInv == Spec => []IInv
BY InitInv, NextInv, PTL DEF Spec

\* A verdict that alethe_cert_skip_verified or carcara_verify lets through was
\* checked by the identified, capable build, for every number of threads, builds,
\* foreign files and restarts.
THEOREM AcceptedChecked == Spec => []AcceptedWasChecked
<1>1. IInv => AcceptedWasChecked
    <2> SUFFICES ASSUME IInv, NEW t \in Threads
                 PROVE  /\ job[t].at = "skipped" =>
                             /\ job[t].text # Torn /\ job[t].text.smt2 = job[t].query
                             /\ <<job[t].id, job[t].query, job[t].text.alethe_proof>> \in checked
                             /\ job[t].id \in probed
                        /\ job[t].at = "promoted" =>
                             /\ <<job[t].id, job[t].query, job[t].proof>> \in checked
                             /\ job[t].id \in probed
        BY DEF AcceptedWasChecked
    <2>1. Fine(job[t], checker, solver, probed, checked, produced)  BY SMTT(30) DEF IInv, JobInv
    <2>2. job[t].at \in {"skipped", "promoted"} => job[t].id \in probed
        BY <2>1, SMTT(30) DEF Fine, Identified
    <2>3. job[t].at = "skipped" =>
             /\ job[t].text # Torn /\ job[t].text.smt2 = job[t].query
             /\ <<job[t].id, job[t].query, job[t].text.alethe_proof>> \in checked
        BY <2>1, CertAssumption, SMTT(30) DEF Fine, Accepted
    <2>4. job[t].at = "promoted" => <<job[t].id, job[t].query, job[t].proof>> \in checked
        BY <2>1 DEF Fine, Accepted
    <2> QED  BY <2>2, <2>3, <2>4
<1> QED  BY <1>1, AlwaysInv, PTL

\* checker_capability_memo never credits bytes with another binary's probe.
THEOREM CapabilityOfBytes == Spec => []CapabilityIsOfBytes
<1>1. IInv => CapabilityIsOfBytes  BY DEF IInv, WorldInv
<1> QED  BY <1>1, AlwaysInv, PTL

\* mint_into publishes only verified certificates, under their own key; a torn file
\* needs two overlapping mints of the key.
THEOREM PublishedVerified == Spec => []PublishedWasVerified
<1>1. IInv => PublishedWasVerified
    <2> SUFFICES ASSUME IInv, NEW k \in Keys, k \notin arrived, store[k] # None
                 PROVE  \/ store[k] = Torn /\ k \in overlapped
                        \/ store[k] # Torn /\ WasVerified(store[k], k)
        BY DEF PublishedWasVerified
    <2>1. Written(store[k], k, checked, produced) /\ (store[k] = Torn => k \in overlapped)
        BY DEF IInv, FilesInv
    <2>2. store[k] # Torn => WasVerified(store[k], k)
        BY <2>1 DEF Written, Verified, WasVerified
    <2> QED  BY <2>1, <2>2
<1> QED  BY <1>1, AlwaysInv, PTL

=============================================================================
