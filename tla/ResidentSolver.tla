--------------------------- MODULE ResidentSolver ---------------------------
(***************************************************************************)
(* AyServer and run_solver_via_server (trust-cg-verify/src/ay_bridge.rs):  *)
(* one resident solver process behind a global lock.  A query is written   *)
(* to its stdin with an echoed sentinel and a reset; its stdout comes back *)
(* line by line through a reader thread, and is read up to the sentinel or *)
(* up to the deadline.                                                     *)
(*                                                                         *)
(* The process is external.  For each script it prints up to MaxLines      *)
(* lines of any kind before the sentinel; it may stop answering or die at  *)
(* any point.  Dropping the server kills the process and its channel.  The *)
(* channel holds one unread line: a line printed later reaches the same    *)
(* window.                                                                 *)
(***************************************************************************)
EXTENDS SolverIdentity, Sequences

CONSTANTS
    Queries,    \* the SMT-LIB scripts of the obligations
    MaxLines    \* bound on the lines of an answer

ASSUME ResidentAssumption == MaxLines \in Nat

VARIABLES
    server,   \* ay_server_slot: the resident process, or None
    holder,   \* the thread holding the slot's lock, or None
    window,   \* the holder's window
    nextSeq,  \* ay_server_next_seq
    unusable  \* ay_server_unusable_paths

residentVars == <<server, holder, window, nextSeq, unusable>>

Verdicts == {"sat", "unsat", "unknown"}

\* A script is a query with its sentinel; the model query of q is another.
Asked(q, ask, n) == [q |-> q, ask |-> ask, seq |-> n]

\* verdict and count: the first verdict line and verdict_lines; error:
\* protocol_error; source: the process and script the verdict came from.
NoWindow == [script |-> None, verdict |-> None, count |-> 0, error |-> "no", source |-> None]

ResidentInit ==
    /\ server = None /\ holder = None /\ window = NoWindow
    /\ nextSeq = 0 /\ unusable = {}

\* spawn_ay_server
Spawn(p) ==
    [solver |-> Current(p), stdin |-> <<>>, line |-> None, printed |-> 0, state |-> "up"]

\* Mutant: the resident process answers for every path.
MutResident(p) == IF server # None THEN server ELSE Spawn(p)

\* The slot once a query for p holds it: a process of another path is dropped.
Resident(p) ==
    IF server # None /\ server.solver.path = p THEN server ELSE Spawn(p)

\* Lock the slot and find or spawn the process; the caller's script is opened.
AcquireServer(t, p, script) ==
    /\ holder = None
    /\ holder' = t /\ server' = Resident(p)
    /\ window' = [NoWindow EXCEPT !.script = script]
    /\ UNCHANGED <<nextSeq, unusable>>

\* A process of another path is dropped, the spawn fails, the lock is released.
SpawnFails(p) ==
    /\ holder = None /\ (server # None => server.solver.path # p)
    /\ server' = None
    /\ UNCHANGED <<holder, window, nextSeq, unusable>>

\* write_all and flush: a busy process takes what its pipe holds.
WriteScript ==
    /\ server.state = "up" \/ (server.state = "hung" /\ env.pipe = "holds")
    /\ server' = [server EXCEPT !.stdin = Append(@, window.script)]
    /\ UNCHANGED <<holder, window, nextSeq, unusable>>

Leave(s) == server' = s /\ holder' = None /\ window' = NoWindow /\ UNCHANGED <<nextSeq, unusable>>

\* A write error drops the server.
WriteFails == server.state = "dead" /\ Leave(None)

IsSentinel(l) == l.kind = "sentinel" /\ l.script.seq = window.script.seq

\* One line of the window: the verdicts are counted, the first one is kept.
RecvLine ==
    /\ server.line # None /\ ~IsSentinel(server.line)
    /\ LET k == server.line.kind IN
       window' = IF k \in Verdicts
                 THEN [window EXCEPT !.count = @ + 1,
                          !.verdict = IF @ = None THEN k ELSE @,
                          !.source = IF @ = None THEN [path |-> server.solver.path,
                                                       script |-> server.line.script] ELSE @]
                 ELSE IF k = "error" THEN [window EXCEPT !.error = "yes"] ELSE window
    /\ server' = [server EXCEPT !.line = None]
    /\ UNCHANGED <<holder, nextSeq, unusable>>

\* The sentinel ends the window; exactly one verdict completes it.
Framed == server.line # None /\ IsSentinel(server.line)
WellFramed == window.count = 1
CompleteWindow == Framed /\ WellFramed /\ Leave([server EXCEPT !.line = None])
MisframedWindow == Framed /\ ~WellFramed /\ Leave(None)

\* The result parsed from the window: an error line wins, a line that reports a
\* timeout makes it a timeout.
Answers == IF window.error = "yes" THEN {"error"} ELSE {window.verdict, "timeout"}

\* Mutant: the process is kept for the next query.
MutDeadline == Leave(server)

\* Mutant: a read waits for the process as long as it lives.
MutNoDeadline == server.state = "dead" /\ Leave(None)

\* The deadline passes: the server is dropped.
Deadline == Leave(None)

\* The process is gone and what it printed is read.
Disconnected == server.state = "dead" /\ server.line = None /\ Leave(None)

(***************************************************************************)
(* The process (external)                                                  *)
(***************************************************************************)

Busy == server # None /\ server.state = "up" /\ server.stdin # <<>> /\ server.line = None

PrintLine(kind) ==
    /\ Busy /\ server.printed < MaxLines
    /\ server' = [server EXCEPT !.printed = @ + 1,
          !.line = [kind |-> kind, script |-> Head(server.stdin)]]
    /\ UNCHANGED <<holder, window, nextSeq, unusable>>

PrintSentinel ==
    /\ Busy
    /\ server' = [server EXCEPT !.printed = 0, !.stdin = Tail(@),
          !.line = [kind |-> "sentinel", script |-> Head(server.stdin)]]
    /\ UNCHANGED <<holder, window, nextSeq, unusable>>

Stops(how) ==
    /\ server # None /\ server.state = "up" /\ (how = "hung" => env.pipe = "fills")
    /\ server' = [server EXCEPT !.state = how]
    /\ UNCHANGED <<holder, window, nextSeq, unusable>>

ProcessStep ==
    \/ \E k \in Verdicts \union {"error"} : PrintLine(k)
    \/ PrintSentinel
    \/ \E how \in {"hung", "dead"} : Stops(how)

(***************************************************************************)
(* Properties                                                              *)
(***************************************************************************)

Scripts == [q : Queries, ask : {"verdict", "model"}, seq : Nat]
Lines == [kind : Verdicts \union {"error", "sentinel"}, script : Scripts]
Servers ==
    [solver : Versions, stdin : Seq(Scripts), line : Lines \union {None},
     printed : 0..MaxLines, state : {"up", "hung", "dead"}]
Windows ==
    [script : Scripts \union {None}, verdict : Verdicts \union {None}, count : Nat,
     error : {"yes", "no"}, source : [path : Paths, script : Scripts] \union {None}]

\* The state of the resident process and its slot is well formed.
ResidentTypeOK ==
    /\ server \in Servers \union {None}
    /\ holder \in Threads \union {None}
    /\ window \in Windows
    /\ nextSeq \in Nat /\ unusable \subseteq Paths
=============================================================================
