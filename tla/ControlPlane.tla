---------------------------- MODULE ControlPlane ----------------------------
(***************************************************************************)
(* The control plane: apps/window-engine, which announces its windows to   *)
(* the scheduler, and apps/control-api, which passes its callers' tune and *)
(* close calls on to the scheduler.                                        *)
(*                                                                         *)
(* Of the scheduler only its promise is taken: its steps here are those of *)
(* SessionLeases, which Scheduler is proved to implement, and its shutdown,*)
(* during which Fastify answers what still arrives with 503.               *)
(*                                                                         *)
(* A call goes from its caller to the control api, on to the scheduler and *)
(* back.  Either connection may break at any time; the scheduler does not  *)
(* notice, and goes on with what it has received.  A crash of the control  *)
(* api is the break of every call's connections, one after the other.      *)
(***************************************************************************)
EXTENDS Naturals, FiniteSets

CONSTANTS
    Calls,      \* calls that may be under way at one time
    SessionIds, \* session identifiers
    Windows,    \* receiver windows; one is fresh while nobody has it
    Tunings,    \* what can be tuned to
    Serves,     \* Serves[w]: the tunings inside the service band of window w
    MaxFaults,  \* bound: connections of calls that break
    NoWindow,   \* no receiver window
    Nobody      \* no session

ASSUME NamesAssumption == NoWindow \notin Windows /\ Nobody \notin SessionIds
ASSUME ServesAssumption == Serves \in [Windows -> SUBSET Tunings]
ASSUME FaultsAssumption == MaxFaults \in Nat

VARIABLES
    (* the window engine *)
    windows,    \* WindowManager.windows: the status of each window
    announcing, \* the announcements that notifyScheduler has under way
    newest,     \* the window created last, by any life of the engine
    missed,     \* its announcement was lost, overtaken or forgotten
    (* the scheduler *)
    phase,      \* whether app.close() is under way
    window, asked, lease, reply,
    (* the control api and its callers *)
    calls,      \* the calls under way
    known,      \* the sessions that callers hold
    faults      \* connections broken so far

engineVars == <<windows, announcing, newest, missed>>
leaseVars == <<window, asked, lease, reply>>
vars == <<engineVars, phase, leaseVars, calls, known, faults>>

Scheduler == INSTANCE SessionLeases WITH Requests <- Calls

\* What the scheduler answers, and what the control api makes of it.
Answer == [told : {"none", "granted", "refused", "closed", "unknown", "unavailable", "error"},
           session : SessionIds \cup {Nobody}]

Says(what, s) == [told |-> what, session |-> s]

\* heard: the connections to the caller stand.  request: on its way to the
\* scheduler, suspended there, or over.  A close names its session.
Call == [op : {"tune", "close"}, session : SessionIds \cup {Nobody}, heard : BOOLEAN,
         request : {"coming", "pending", "over"}, answer : Answer]

TypeOK ==
    /\ DOMAIN windows \subseteq Windows
    /\ \A w \in DOMAIN windows : windows[w] \in {"active", "stopped"}
    /\ announcing \subseteq Windows
    /\ newest \in Windows \cup {NoWindow}
    /\ missed \in BOOLEAN
    /\ phase \in {"up", "closing"}
    /\ window \in Windows \cup {NoWindow}
    /\ DOMAIN asked \subseteq Calls
    /\ \A k \in DOMAIN asked : asked[k] \in Scheduler!Streams
    /\ DOMAIN lease \subseteq SessionIds
    /\ \A s \in DOMAIN lease : lease[s] \in Scheduler!Streams
    /\ reply \in [Calls -> Scheduler!Answers]
    /\ DOMAIN calls \subseteq Calls
    /\ \A k \in DOMAIN calls : calls[k] \in Call
    /\ known \subseteq SessionIds
    /\ faults \in 0 .. MaxFaults

Nothing == [x \in {} |-> {}]
With(f, k, v) == [x \in DOMAIN f \cup {k} |-> IF x = k THEN v ELSE f[x]]
Without(f, k) == [x \in DOMAIN f \ {k} |-> f[x]]

\* The calls without those that are over and that nobody waits for.
Kept(f) == [k \in {x \in DOMAIN f : f[x].heard \/ f[x].request # "over"} |-> f[k]]

\* randomUUID() repeats no id that anybody still has.
FreshWindow(w) ==
    /\ w \notin DOMAIN windows \cup announcing \cup {newest, window}
    /\ \A k \in DOMAIN asked : asked[k].windowId # w
    /\ \A s \in DOMAIN lease : lease[s].windowId # w
FreshSession(s) ==
    /\ s \notin DOMAIN lease \cup known
    /\ \A k \in DOMAIN calls : calls[k].session # s /\ calls[k].answer.session # s

----------------------------------------------------------------------------

Init ==
    /\ windows = Nothing /\ announcing = {} /\ newest = NoWindow /\ missed = FALSE
    /\ phase = "up" /\ Scheduler!Init
    /\ calls = Nothing /\ known = {} /\ faults = 0

(* The window engine.                                                      *)

Created(w) == With(windows, w, "active")

Stopped(w) == [windows EXCEPT ![w] = "stopped"]

\* Mutant of Create: what is announced is the default window, not the new one.
CreateDefault(w) ==
    /\ FreshWindow(w)
    /\ windows' = Created(w)
    /\ LET active == {x \in DOMAIN windows : windows[x] = "active"}
       IN \E d \in IF active = {} THEN {w} ELSE active : announcing' = announcing \cup {d}
    /\ newest' = w /\ missed' = FALSE
    /\ UNCHANGED <<phase, leaseVars, calls, known, faults>>

\* POST /windows creates and activates in one step; nobody waits for the call
\* that announces the window.
Create(w) ==
    /\ FreshWindow(w)
    /\ windows' = Created(w)
    /\ announcing' = announcing \cup {w}
    /\ newest' = w /\ missed' = FALSE
    /\ UNCHANGED <<phase, leaseVars, calls, known, faults>>

\* DELETE /windows/:id, of which the scheduler is not told.
Stop(w) ==
    /\ w \in DOMAIN windows
    /\ windows' = Stopped(w)
    /\ UNCHANGED <<announcing, newest, missed, phase, leaseVars, calls, known, faults>>

\* The engine starts again without its windows; what it was announcing is cut off
\* or has left.
EngineRestart ==
    /\ windows' = Nothing
    /\ announcing' \in SUBSET announcing
    /\ missed' = (missed \/ newest \in announcing \ announcing')
    /\ UNCHANGED <<newest, phase, leaseVars, calls, known, faults>>

\* PUT /window reaches the scheduler, in any order.
Announced(w) ==
    /\ w \in announcing /\ phase = "up"
    /\ Scheduler!Announce(w)
    /\ announcing' = announcing \ {w}
    /\ missed' = (missed \/ newest \notin announcing)
    /\ UNCHANGED <<windows, newest, phase, calls, known, faults>>

\* The announcement fails, which is logged, or is answered 503, which is not.
AnnouncementLost(w) ==
    /\ w \in announcing
    /\ announcing' = announcing \ {w}
    /\ missed' = (missed \/ w = newest)
    /\ UNCHANGED <<windows, newest, phase, leaseVars, calls, known, faults>>

(* The callers, and the control api between them and the scheduler.        *)

NewCall(op, s) == [op |-> op, session |-> s, heard |-> TRUE, request |-> "coming",
                   answer |-> Says("none", Nobody)]

PostTune(k) ==
    /\ k \notin DOMAIN calls
    /\ calls' = With(calls, k, NewCall("tune", Nobody))
    /\ UNCHANGED <<engineVars, phase, leaseVars, known, faults>>

DeleteSession(k, s) ==
    /\ k \notin DOMAIN calls /\ s \in known
    /\ calls' = With(calls, k, NewCall("close", s))
    /\ UNCHANGED <<engineVars, phase, leaseVars, known, faults>>

\* Mutant of Relayed: the body of a tune's answer is not passed on.
RelayedStatus(c) ==
    CASE c.op = "tune" -> Says("refused", Nobody)
      [] c.op = "close" /\ c.answer.told = "unknown" -> c.answer
      [] OTHER -> Says("closed", Nobody)

\* What the control api makes of the scheduler's answer: a tune's 200 and a
\* close's 404 are passed on, all else becomes a 409 and a 204.
Relayed(c) ==
    CASE c.op = "tune" /\ c.answer.told = "granted" -> c.answer
      [] c.op = "tune" /\ c.answer.told # "granted" -> Says("refused", Nobody)
      [] c.op = "close" /\ c.answer.told = "unknown" -> c.answer
      [] c.op = "close" /\ c.answer.told # "unknown" -> Says("closed", Nobody)

\* Mutant of Failed: a close that failed is answered 204 as well.
FailedClosed(c) == Says(IF c.op = "tune" THEN "refused" ELSE "closed", Nobody)

\* What it makes of a fetch that rejects, in its catch blocks: 409 and 500.
Failed(c) == Says(IF c.op = "tune" THEN "refused" ELSE "error", Nobody)

\* Mutant of Learns: every answer to a tune is taken for a success.
LearnsUnchecked(k, a) ==
    known' = CASE calls[k].op = "tune" -> known \cup {a.session}
               [] a.told \in {"closed", "unknown"} -> known \ {calls[k].session}
               [] OTHER -> known

\* The caller takes answer a: 200 brings a session, 204 and 404 end one; any
\* other makes the harness throw, and a session that was to be closed is still
\* the caller's.
Learns(k, a) ==
    known' = CASE a.told = "granted" -> known \cup {a.session}
               [] a.told \in {"closed", "unknown"} -> known \ {calls[k].session}
               [] OTHER -> known

Hear(k) ==
    /\ k \in DOMAIN calls /\ calls[k].heard /\ calls[k].request = "over"
    /\ Learns(k, Relayed(calls[k]))
    /\ calls' = Without(calls, k)
    /\ reply' = [reply EXCEPT ![k] = "none"]
    /\ UNCHANGED <<engineVars, phase, window, asked, lease, faults>>

\* A connection breaks, before the request came to the scheduler or after, and an
\* answer that was under way is lost.  The caller gets what the control api makes
\* of it or, if it was the caller's own connection, learns as little.
Break(k) ==
    /\ k \in DOMAIN calls /\ calls[k].heard
    /\ faults < MaxFaults /\ faults' = faults + 1
    /\ Learns(k, Failed(calls[k]))
    /\ \E arrives \in BOOLEAN :
           calls' = Kept([calls EXCEPT
               ![k].heard = FALSE, ![k].answer = Says("none", Nobody),
               ![k].request = IF @ = "coming" /\ ~arrives THEN "over" ELSE @])
    /\ UNCHANGED <<engineVars, phase, leaseVars>>

(* The scheduler.                                                          *)

\* Its answer to call k, which is lost if nobody is there to hear it.
Answered(k, a) ==
    calls' = Kept([calls EXCEPT ![k].request = "over",
                                ![k].answer = IF calls[k].heard THEN a ELSE @])

HandleTune(k) ==
    /\ k \in DOMAIN calls /\ phase = "up"
    /\ calls[k].op = "tune" /\ calls[k].request = "coming"
    /\ \/ Scheduler!Refuse(k) /\ Answered(k, Says("refused", Nobody))
       \/ \E st \in Scheduler!Streams :
              /\ Scheduler!Ask(k, st)
              /\ calls' = [calls EXCEPT ![k].request = "pending"]
       \/ \E st \in Scheduler!Streams, s \in SessionIds :
              /\ FreshSession(s) /\ Scheduler!GrantAtOnce(k, st, s)
              /\ Answered(k, Says("granted", s))
    /\ UNCHANGED <<engineVars, phase, known, faults>>

\* The suspended tune is resumed, also while the scheduler is closing.
Settle(k) ==
    /\ k \in DOMAIN asked
    /\ \/ Scheduler!Refuse(k) /\ Answered(k, Says("refused", Nobody))
       \/ \E s \in SessionIds : /\ FreshSession(s) /\ Scheduler!Grant(k, s)
                                /\ Answered(k, Says("granted", s))
    /\ UNCHANGED <<engineVars, phase, known, faults>>

HandleClose(k) ==
    /\ k \in DOMAIN calls /\ phase = "up"
    /\ calls[k].op = "close" /\ calls[k].request = "coming"
    /\ IF calls[k].session \in DOMAIN lease
       THEN Scheduler!End(calls[k].session) /\ Answered(k, Says("closed", Nobody))
       ELSE UNCHANGED leaseVars /\ Answered(k, Says("unknown", Nobody))
    /\ UNCHANGED <<engineVars, phase, known, faults>>

\* While app.close() runs a request is answered 503, or its connection refused.
HandleClosing(k) ==
    /\ k \in DOMAIN calls /\ calls[k].request = "coming" /\ phase = "closing"
    /\ \/ Answered(k, Says("unavailable", Nobody)) /\ UNCHANGED known
       \/ /\ IF calls[k].heard THEN Learns(k, Failed(calls[k])) ELSE UNCHANGED known
          /\ calls' = Without(calls, k)
    /\ UNCHANGED <<engineVars, phase, leaseVars, faults>>

\* SIGTERM.
Shutdown ==
    /\ phase = "up" /\ phase' = "closing"
    /\ UNCHANGED <<engineVars, leaseVars, calls, known, faults>>

\* The process ends, when app.close() has waited for its handlers or killed at any
\* time, and its container starts it anew.  It has forgotten everything; the calls it
\* has not answered are rejected, which leaves the callers what they have.
SchedulerRestart ==
    /\ phase' = "up" /\ Scheduler!Forget
    /\ calls' = [k \in {x \in DOMAIN calls : calls[x].request = "over"} |-> calls[k]]
    /\ missed' = (missed \/ newest \notin announcing)
    /\ UNCHANGED <<windows, announcing, newest, known, faults>>

----------------------------------------------------------------------------

Handle(k) == HandleTune(k) \/ HandleClose(k) \/ HandleClosing(k)

Next ==
    \/ \E w \in Windows : Create(w) \/ Stop(w) \/ Announced(w) \/ AnnouncementLost(w)
    \/ EngineRestart
    \/ \E k \in Calls : \/ PostTune(k) \/ \E s \in SessionIds : DeleteSession(k, s)
                        \/ Hear(k) \/ Break(k) \/ Handle(k) \/ Settle(k)
    \/ Shutdown \/ SchedulerRestart

Spec == Init /\ [][Next]_vars

----------------------------------------------------------------------------

\* The sessions that an answer under way is about to bring to its caller.
Promised == {calls[k].answer.session : k \in DOMAIN calls}

\* Leased for ever: nobody knows the session who could close it.
Orphans == DOMAIN lease \ (known \cup Promised)

\* The scheduler goes on with the tune of a caller that has given up, and its
\* sessions have no time-out: each broken connection may leave one session that
\* nobody can close, but nothing else does, whatever is in flight together.
OrphansBounded == phase = "up" => Cardinality(Orphans) <= faults

\* Who is told that a session is closed, or unknown, can rely on it, though the
\* control api tells no failure but a 404 apart: the session is over, or the
\* scheduler that has it answered 503 and is about to forget it.
ClosedMeansGone ==
    [][\A s \in known \ known' : s \notin DOMAIN lease \/ phase = "closing"]_vars

\* The scheduler judges tunes by the window created last as soon as that one's
\* announcement is through, and until an older one arrives after it or the
\* scheduler restarts; a lost announcement is not repeated.
NewestServed ==
    newest # NoWindow /\ newest \notin announcing /\ ~missed => window = newest
============================================================================
