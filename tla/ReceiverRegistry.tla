-------------------------- MODULE ReceiverRegistry --------------------------
(***************************************************************************)
(* The receiver registry (apps/receiver-registry) and the receivers that   *)
(* keep themselves registered with it (native/receiver-emulator).          *)
(*                                                                         *)
(* The registry is one JavaScript process: a handler or a firing of the    *)
(* prune timer is one step.  A receiver has a main thread, which registers *)
(* and at the end deregisters, and a heartbeat thread.  Their HTTP calls   *)
(* are sent, handled and answered in separate steps, and may be lost on    *)
(* either leg.                                                             *)
(*                                                                         *)
(* Time is counted in ticks and a tick overtakes nothing that is due: the  *)
(* prune timer and the sleeps end on time, a leg of a call takes at most   *)
(* MaxDelay ticks, a lost call at most CallLimit.  An entry carries the    *)
(* time since its last heartbeat instead of the date of it.                *)
(***************************************************************************)
EXTENDS Naturals, FiniteSets, Functions

CONSTANTS
    Receivers,   \* receiver processes
    Ids,         \* receiver ids; one is fresh while nobody has it
    Period,      \* the heartbeat thread's sleep (5 s)
    RetryDelay,  \* the sleep between two registration attempts (3 s)
    MaxAttempts, \* registration attempts before the process gives up (10)
    CallLimit,   \* curl's limit on a whole call (10 s)
    Timeout,     \* receiverTimeoutMs (15 s)
    PruneEvery,  \* the prune timer's interval, a third of Timeout
    MaxDelay,    \* bound on each leg of a call that is not lost
    MaxFaults,   \* bound on lost calls and crashes together
    Nobody       \* no id, no call

ASSUME TimingAssumption ==
    /\ Period \in Nat \ {0} /\ RetryDelay \in Nat /\ MaxAttempts \in Nat \ {0}
    /\ CallLimit \in Nat /\ MaxDelay \in 0 .. CallLimit
    /\ Timeout \in Nat /\ PruneEvery \in Nat \ {0} /\ MaxFaults \in Nat
ASSUME IdsAssumption ==
    Nobody \notin Ids /\ Cardinality(Ids) >= Cardinality(Receivers) + MaxFaults

VARIABLES
    entries,  \* registry: ReceiverRegistry.receivers; ticks since the last heartbeat
    claimed,  \* registry: the entries whose `claimed' is set
    pruneIn,  \* registry: ticks until the prune timer fires
    main,     \* receivers: where the main thread is
    shutdown, \* receivers: g_shutdown
    beating,  \* receivers: whether the heartbeat thread is alive
    self,     \* receivers: receiver_id
    attempt,  \* receivers: the registration attempt
    sleep,    \* receivers: ticks until the sleeping thread wakes
    calls,    \* the call each thread waits for
    faults    \* calls lost and processes crashed so far

registryVars == <<entries, claimed, pruneIn>>
receiverVars == <<main, shutdown, beating, self, attempt, sleep>>
vars == <<registryVars, receiverVars, calls, faults>>

Threads == Receivers \X {"main", "beat"}

\* due: the ticks that are left for this leg, or for curl to give up.
Call == [op : {"register", "heartbeat", "deregister"}, id : Ids \cup {Nobody},
         leg : {"sent", "answered", "lost"}, due : 0 .. CallLimit]

ASSUME CallsAssumption == Nobody \notin Call

TypeOK ==
    /\ DOMAIN entries \subseteq Ids
    /\ \A i \in DOMAIN entries : entries[i] \in Nat
    /\ claimed \subseteq DOMAIN entries
    /\ pruneIn \in 0 .. PruneEvery
    /\ main \in [Receivers -> {"down", "registering", "running", "leaving", "stopping", "joining"}]
    /\ shutdown \in [Receivers -> BOOLEAN]
    /\ beating \in [Receivers -> BOOLEAN]
    /\ self \in [Receivers -> Ids \cup {Nobody}]
    /\ attempt \in [Receivers -> 1 .. MaxAttempts]
    /\ sleep \in [Receivers -> 0 .. (Period + RetryDelay)]
    /\ calls \in [Threads -> Call \cup {Nobody}]
    /\ faults \in 0 .. MaxFaults

Waiting(t) == calls[t] # Nobody

InFlight(t, op, leg) == Waiting(t) /\ calls[t].op = op /\ calls[t].leg = leg

\* Ids known to nobody: randomUUID() never repeats one.
Fresh == Ids \ (DOMAIN entries \cup Range(self)
                 \cup {calls[t].id : t \in {u \in Threads : Waiting(u)}})

\* Entries that have not sent a heartbeat within the timeout.
Stale == {i \in DOMAIN entries : entries[i] > Timeout}

Without(f, S) == Restrict(f, DOMAIN f \ S)

----------------------------------------------------------------------------

Init ==
    /\ entries = [i \in {} |-> 0] /\ claimed = {}
    /\ pruneIn = PruneEvery
    /\ main = [r \in Receivers |-> "down"]
    /\ shutdown = [r \in Receivers |-> FALSE]
    /\ beating = [r \in Receivers |-> FALSE]
    /\ self = [r \in Receivers |-> Nobody]
    /\ attempt = [r \in Receivers |-> 1]
    /\ sleep = [r \in Receivers |-> 0]
    /\ calls = [t \in Threads |-> Nobody]
    /\ faults = 0

(* The registry's handlers and its timer.                                  *)

Answer(t, i) ==
    calls' = [calls EXCEPT ![t] = [@ EXCEPT !.leg = "answered", !.id = i, !.due = MaxDelay]]

HandleRegister(t) ==
    /\ InFlight(t, "register", "sent")
    /\ \E i \in Fresh :
           /\ entries' = [x \in DOMAIN entries \cup {i} |-> IF x = i THEN 0 ELSE entries[x]]
           /\ Answer(t, i)
    /\ UNCHANGED <<claimed, pruneIn, receiverVars, faults>>

\* Mutants of HandleHeartbeat: an unknown receiver is put back; the date is kept.
HandleHeartbeatUpserts(t) ==
    /\ InFlight(t, "heartbeat", "sent")
    /\ entries' = [x \in DOMAIN entries \cup {calls[t].id} |->
                       IF x = calls[t].id THEN 0 ELSE entries[x]]
    /\ Answer(t, calls[t].id)
    /\ UNCHANGED <<claimed, pruneIn, receiverVars, faults>>
HandleHeartbeatUndated(t) ==
    /\ InFlight(t, "heartbeat", "sent")
    /\ Answer(t, calls[t].id)
    /\ UNCHANGED <<registryVars, receiverVars, faults>>

\* An unknown receiver is told 404, which nobody looks at.
HandleHeartbeat(t) ==
    /\ InFlight(t, "heartbeat", "sent")
    /\ entries' = [x \in DOMAIN entries |-> IF x = calls[t].id THEN 0 ELSE entries[x]]
    /\ Answer(t, calls[t].id)
    /\ UNCHANGED <<claimed, pruneIn, receiverVars, faults>>

HandleDeregister(t) ==
    /\ InFlight(t, "deregister", "sent")
    /\ entries' = Without(entries, {calls[t].id})
    /\ claimed' = claimed \ {calls[t].id}
    /\ Answer(t, calls[t].id)
    /\ UNCHANGED <<pruneIn, receiverVars, faults>>

Handle(t) == HandleRegister(t) \/ HandleHeartbeat(t) \/ HandleDeregister(t)

\* Mutants of Prune: a claimed receiver is spared; the timer is set a tick late.
PruneUnclaimed ==
    /\ pruneIn = 0
    /\ entries' = Without(entries, Stale \ claimed)
    /\ claimed' = claimed
    /\ pruneIn' = PruneEvery
    /\ UNCHANGED <<receiverVars, calls, faults>>
PruneSlow ==
    /\ pruneIn = 0
    /\ entries' = Without(entries, Stale)
    /\ claimed' = claimed \ Stale
    /\ pruneIn' = PruneEvery + 1
    /\ UNCHANGED <<receiverVars, calls, faults>>

\* The prune timer fires: the entries older than the timeout are removed.
Prune ==
    /\ pruneIn = 0
    /\ entries' = Without(entries, Stale)
    /\ claimed' = claimed \ Stale
    /\ pruneIn' = PruneEvery
    /\ UNCHANGED <<receiverVars, calls, faults>>

\* POST /receivers/:id/claim, which the registry grants once, to whatever window.
Claim(i) ==
    /\ i \in DOMAIN entries \ claimed
    /\ claimed' = claimed \cup {i}
    /\ UNCHANGED <<entries, pruneIn, receiverVars, calls, faults>>

\* POST /receivers/:id/release, by anybody.
Release(i) ==
    /\ i \in claimed
    /\ claimed' = claimed \ {i}
    /\ UNCHANGED <<entries, pruneIn, receiverVars, calls, faults>>

\* The handlers of claims, which receivers do not send.
HandleClaim(i) == Claim(i) \/ Release(i)

\* The registry restarts, empty; the calls in flight see their connection reset.
RegistryRestart ==
    /\ entries' = [i \in {} |-> 0] /\ claimed' = {}
    /\ pruneIn' = PruneEvery
    /\ calls' = [t \in Threads |-> IF Waiting(t)
                                   THEN [calls[t] EXCEPT !.leg = "lost", !.due = 0]
                                   ELSE Nobody]
    /\ UNCHANGED <<receiverVars, faults>>

(* The receivers.                                                          *)

Send(t, op) ==
    calls' = [calls EXCEPT ![t] = [op |-> op, id |-> self[t[1]],
                                   leg |-> "sent", due |-> MaxDelay]]

\* The container starts, for the first time or after an exit.
Start(r) ==
    /\ main[r] = "down"
    /\ main' = [main EXCEPT ![r] = "registering"]
    /\ shutdown' = [shutdown EXCEPT ![r] = FALSE]
    /\ attempt' = [attempt EXCEPT ![r] = 1]
    /\ sleep' = [sleep EXCEPT ![r] = 0]
    /\ UNCHANGED <<registryVars, beating, self, calls, faults>>

\* SIGTERM: the flag is set, which nobody looks at before the registration is over.
Terminate(r) ==
    /\ main[r] # "down" /\ ~shutdown[r]
    /\ shutdown' = [shutdown EXCEPT ![r] = TRUE]
    /\ UNCHANGED <<registryVars, main, beating, self, attempt, sleep, calls, faults>>

SendRegister(r) ==
    /\ main[r] = "registering" /\ sleep[r] = 0 /\ ~Waiting(<<r, "main">>)
    /\ Send(<<r, "main">>, "register")
    /\ UNCHANGED <<registryVars, receiverVars, faults>>

\* register_self returns: the heartbeat thread is started, and ends at once when
\* the flag is already set.
RegisterReturns(r) ==
    /\ InFlight(<<r, "main">>, "register", "answered")
    /\ main' = [main EXCEPT ![r] = "running"]
    /\ self' = [self EXCEPT ![r] = calls[<<r, "main">>].id]
    /\ beating' = [beating EXCEPT ![r] = ~shutdown[r]]
    /\ sleep' = [sleep EXCEPT ![r] = Period]
    /\ calls' = [calls EXCEPT ![<<r, "main">>] = Nobody]
    /\ UNCHANGED <<registryVars, shutdown, attempt, faults>>

\* register_self throws: another attempt after a sleep, or the process gives up.
RegisterFails(r) ==
    /\ InFlight(<<r, "main">>, "register", "lost")
    /\ calls' = [calls EXCEPT ![<<r, "main">>] = Nobody]
    /\ IF attempt[r] < MaxAttempts
       THEN /\ attempt' = [attempt EXCEPT ![r] = @ + 1]
            /\ sleep' = [sleep EXCEPT ![r] = RetryDelay]
            /\ UNCHANGED main
       ELSE main' = [main EXCEPT ![r] = "down"] /\ UNCHANGED <<attempt, sleep>>
    /\ UNCHANGED <<registryVars, shutdown, beating, self, faults>>

\* The heartbeat thread wakes; it does not look at the flag before it sends.
SendHeartbeat(r) ==
    /\ beating[r] /\ sleep[r] = 0 /\ ~Waiting(<<r, "beat">>)
    /\ Send(<<r, "beat">>, "heartbeat")
    /\ UNCHANGED <<registryVars, receiverVars, faults>>

\* Mutant of HeartbeatEnds: the thread never looks at the flag.
HeartbeatEndsNever(r) ==
    /\ \E leg \in {"answered", "lost"} : InFlight(<<r, "beat">>, "heartbeat", leg)
    /\ sleep' = [sleep EXCEPT ![r] = Period]
    /\ calls' = [calls EXCEPT ![<<r, "beat">>] = Nobody]
    /\ UNCHANGED <<registryVars, main, shutdown, beating, self, attempt, faults>>

\* heartbeat() returns true or false, which is ignored, and the loop goes round.
HeartbeatEnds(r) ==
    /\ \E leg \in {"answered", "lost"} : InFlight(<<r, "beat">>, "heartbeat", leg)
    /\ beating' = [beating EXCEPT ![r] = ~shutdown[r]]
    /\ sleep' = [sleep EXCEPT ![r] = Period]
    /\ calls' = [calls EXCEPT ![<<r, "beat">>] = Nobody]
    /\ UNCHANGED <<registryVars, main, shutdown, self, attempt, faults>>

\* The main thread sees the flag and deregisters, while heartbeats go on.
Leave(r) ==
    /\ main[r] = "running" /\ shutdown[r]
    /\ main' = [main EXCEPT ![r] = "leaving"]
    /\ Send(<<r, "main">>, "deregister")
    /\ UNCHANGED <<registryVars, shutdown, beating, self, attempt, sleep, faults>>

\* deregister() returns, having caught any failure.
DeregisterEnds(r) ==
    /\ \E leg \in {"answered", "lost"} : InFlight(<<r, "main">>, "deregister", leg)
    /\ main' = [main EXCEPT ![r] = "stopping"]
    /\ calls' = [calls EXCEPT ![<<r, "main">>] = Nobody]
    /\ UNCHANGED <<registryVars, shutdown, beating, self, attempt, sleep, faults>>

\* emulator->stop(), server.stop() and server_thread.join() have returned.  They need
\* not: each may wait for ever, for a stream or for a handler (module Emulator).
StopServing(r) ==
    /\ main[r] = "stopping"
    /\ main' = [main EXCEPT ![r] = "joining"]
    /\ UNCHANGED <<registryVars, shutdown, beating, self, attempt, sleep, calls, faults>>

\* heartbeat_thread.join() returns and so does main.
Exit(r) ==
    /\ main[r] = "joining" /\ ~beating[r]
    /\ main' = [main EXCEPT ![r] = "down"]
    /\ self' = [self EXCEPT ![r] = Nobody]
    /\ UNCHANGED <<registryVars, shutdown, beating, attempt, sleep, calls, faults>>

\* The process is killed.  A call it had sent was handled before, or never is.
Crash(r) ==
    /\ main[r] # "down" /\ faults < MaxFaults
    /\ faults' = faults + 1
    /\ main' = [main EXCEPT ![r] = "down"]
    /\ beating' = [beating EXCEPT ![r] = FALSE]
    /\ self' = [self EXCEPT ![r] = Nobody]
    /\ calls' = [calls EXCEPT ![<<r, "main">>] = Nobody, ![<<r, "beat">>] = Nobody]
    /\ UNCHANGED <<registryVars, shutdown, attempt, sleep>>

\* A request or an answer is lost; the caller learns of it within CallLimit.
Lose(t) ==
    /\ Waiting(t) /\ calls[t].leg # "lost" /\ faults < MaxFaults
    /\ faults' = faults + 1
    /\ calls' = [calls EXCEPT ![t] = [@ EXCEPT !.leg = "lost", !.due = CallLimit]]
    /\ UNCHANGED <<registryVars, receiverVars>>

----------------------------------------------------------------------------

\* A sleep is over and its thread has not gone on.
Awake(r) ==
    /\ sleep[r] = 0
    /\ \/ main[r] = "registering" /\ ~Waiting(<<r, "main">>)
       \/ beating[r] /\ ~Waiting(<<r, "beat">>)

Tick ==
    /\ pruneIn > 0
    /\ \A r \in Receivers : ~Awake(r)
    /\ \A t \in Threads : Waiting(t) => calls[t].due > 0
    /\ entries' = [i \in DOMAIN entries |-> entries[i] + 1]
    /\ pruneIn' = pruneIn - 1
    /\ sleep' = [r \in Receivers |-> IF sleep[r] > 0 THEN sleep[r] - 1 ELSE 0]
    /\ calls' = [t \in Threads |-> IF Waiting(t) THEN [calls[t] EXCEPT !.due = @ - 1]
                                                 ELSE Nobody]
    /\ UNCHANGED <<claimed, main, shutdown, beating, self, attempt, faults>>

Runs(r) ==
    \/ SendRegister(r) \/ RegisterReturns(r) \/ RegisterFails(r)
    \/ SendHeartbeat(r) \/ HeartbeatEnds(r)
    \/ Leave(r) \/ DeregisterEnds(r) \/ Exit(r)

Next ==
    \/ \E t \in Threads : Handle(t) \/ Lose(t)
    \/ \E r \in Receivers :
           Runs(r) \/ StopServing(r) \/ Start(r) \/ Terminate(r) \/ Crash(r)
    \/ \E i \in Ids : HandleClaim(i)
    \/ Prune \/ RegistryRestart
    \/ Tick

Spec == Init /\ [][Next]_vars

\* Threads and handlers run, and time passes however often receivers come and
\* go in between; starts, signals, losses, crashes and restarts need not happen,
\* and what StopServing waits for need not either.
Fairness ==
    /\ \A t \in Threads : WF_vars(Handle(t))
    /\ \A r \in Receivers : WF_vars(Runs(r))
    /\ WF_vars(Prune) /\ SF_vars(Tick)

FairSpec == Spec /\ Fairness

----------------------------------------------------------------------------

\* A receiver that stopped heartbeating is listed no longer than the timeout and
\* one prune interval, however it went away: crashed, or with its answer lost, and
\* whether or not somebody has claimed it.
StaleListedBriefly ==
    \A i \in DOMAIN entries : entries[i] <= Timeout + PruneEvery

Up(r) == main[r] = "running" /\ ~shutdown[r]

\* How old the entry of a receiver that is up can get: one round of the
\* heartbeat loop, and one more, cut by curl's limit, for each fault.
FreshFor == 2 * MaxDelay + Period + faults * (MaxDelay + CallLimit + Period)

\* The prune timer removes no receiver that is up, as long as the faults so far
\* leave room for it in the timeout: its entry is never older than FreshFor.
FreshWhileUp ==
    \A r \in Receivers :
        Up(r) /\ self[r] \in DOMAIN entries => entries[self[r]] <= FreshFor

\* An id that was removed never comes back: not by a heartbeat that follows the
\* deregistration, nor by one that was under way when the entry was pruned.
NoResurrection ==
    [][\A i \in DOMAIN entries' \ DOMAIN entries : i \in Fresh]_vars

\* SIGTERM ends the process, although the two threads look at the flag at
\* different times and wait for calls and for each other; only the stopping of its
\* stream and its server may keep it for ever.
Terminates ==
    \A r \in Receivers :
        shutdown[r] /\ main[r] # "down" ~> main[r] = "down" \/ [](main[r] = "stopping")

\* The heartbeat "keeps the registration alive": a receiver that is up and finds
\* itself unregistered is registered again.  It never is after a registry restart.
KeptAlive ==
    \A r \in Receivers :
        (Up(r) /\ self[r] \notin DOMAIN entries)
            ~> (~Up(r) \/ self[r] \in DOMAIN entries)
============================================================================
