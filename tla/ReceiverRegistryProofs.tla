----------------------- MODULE ReceiverRegistryProofs -----------------------
(***************************************************************************)
(* Proofs about ReceiverRegistry, for any number of receivers and any      *)
(* timing constants: type correctness, the bound on the time a silent      *)
(* receiver is listed, that no removed id returns, how fresh the entry of  *)
(* a receiver that is up stays, and that only a restart of the registry    *)
(* (or faults that use up the timeout) unlists it.                         *)
(***************************************************************************)
EXTENDS ReceiverRegistry, TLAPS

USE TimingAssumption

\* A step other than Tick and Prune leaves the timer alone or sets it anew.
\* Every entry of the next state is an old one, as old as it was, or is new.
EntriesKept ==
    /\ DOMAIN entries' \subseteq Ids
    /\ \A i \in DOMAIN entries' : \/ entries'[i] = 0
                                  \/ i \in DOMAIN entries /\ entries'[i] = entries[i]

\* What the run of a receiver leaves alone.
LEMMA RunsLocal ==
    ASSUME NEW r \in Receivers, Runs(r)
    PROVE  UNCHANGED registryVars
  BY DEF Runs, SendRegister, RegisterReturns, RegisterFails, SendHeartbeat,
         HeartbeatEnds, Leave, DeregisterEnds, Exit, registryVars, receiverVars

LEMMA EventsLocal ==
    ASSUME NEW r \in Receivers, StopServing(r) \/ Start(r) \/ Terminate(r) \/ Crash(r)
    PROVE  UNCHANGED registryVars
  BY DEF StopServing, Start, Terminate, Crash, registryVars, receiverVars

\* What the registry's handlers do to the entries.
LEMMA HandleEntries ==
    ASSUME TypeOK, NEW t \in Threads, Handle(t)
    PROVE  EntriesKept /\ pruneIn' = pruneIn /\ claimed' \subseteq DOMAIN entries'
<1>1. CASE HandleRegister(t)
  BY <1>1 DEF HandleRegister, EntriesKept, TypeOK, Fresh
<1>2. CASE HandleHeartbeat(t)
  BY <1>2 DEF HandleHeartbeat, EntriesKept, TypeOK
<1>3. CASE HandleDeregister(t)
  BY <1>3 DEF HandleDeregister, EntriesKept, TypeOK, Without, Restrict
<1> QED
  BY <1>1, <1>2, <1>3 DEF Handle

-----------------------------------------------------------------------------
(* Type correctness.                                                        *)

LEMMA TypeInit == Init => TypeOK
  BY DEF Init, TypeOK, Threads

\* A call that moves to its next leg is still a call.
LEMMA NextLegTyped ==
    ASSUME TypeOK, NEW t \in Threads, Waiting(t), NEW i \in Ids \cup {Nobody},
           NEW leg \in {"sent", "answered", "lost"}, NEW due \in 0 .. CallLimit
    PROVE  [calls EXCEPT ![t] = [@ EXCEPT !.leg = leg, !.id = i, !.due = due]]
               \in [Threads -> Call \cup {Nobody}]
<1> DEFINE c == [calls[t] EXCEPT !.leg = leg, !.id = i, !.due = due]
<1>1. calls[t] \in Call
  BY DEF TypeOK, Waiting
<1>2. c \in Call
  BY <1>1 DEF Call
<1>3. [calls EXCEPT ![t] = c] \in [Threads -> Call \cup {Nobody}]
  BY <1>2 DEF TypeOK
<1> QED
  BY <1>3

LEMMA TypeHandle ==
    ASSUME TypeOK, NEW t \in Threads, Handle(t)
    PROVE  TypeOK'
<1>1. PICK id \in Ids \cup {Nobody} : Answer(t, id) /\ Waiting(t)
  <2>1. CASE HandleRegister(t)
    BY <2>1 DEF HandleRegister, Fresh, InFlight
  <2>2. CASE HandleHeartbeat(t) \/ HandleDeregister(t)
    BY <2>2 DEF HandleHeartbeat, HandleDeregister, InFlight, Waiting, TypeOK, Call
  <2> QED
    BY <2>1, <2>2 DEF Handle
<1>2. calls' \in [Threads -> Call \cup {Nobody}]
  BY <1>1, NextLegTyped DEF Answer
<1>3. UNCHANGED <<receiverVars, faults>>
  BY DEF Handle, HandleRegister, HandleHeartbeat, HandleDeregister, registryVars
<1>4. DOMAIN entries' \subseteq Ids /\ \A i \in DOMAIN entries' : entries'[i] \in Nat
  BY HandleEntries DEF EntriesKept, TypeOK
<1> QED
  BY <1>2, <1>3, <1>4, HandleEntries DEF TypeOK, receiverVars

\* Sending a call is well typed.
LEMMA SendTyped ==
    ASSUME TypeOK, NEW t \in Threads, NEW op \in {"register", "heartbeat", "deregister"},
           Send(t, op)
    PROVE  calls' \in [Threads -> Call \cup {Nobody}]
<1>1. t[1] \in Receivers
  BY DEF Threads
<1>2. [op |-> op, id |-> self[t[1]], leg |-> "sent", due |-> MaxDelay] \in Call
  BY <1>1 DEF Call, TypeOK
<1> QED
  BY <1>2 DEF Send, TypeOK

LEMMA TypeRuns ==
    ASSUME TypeOK, NEW r \in Receivers, Runs(r)
    PROVE  TypeOK'
<1> USE DEF receiverVars, registryVars
<1>1. <<r, "main">> \in Threads /\ <<r, "beat">> \in Threads
  BY DEF Threads
<1>2. ASSUME NEW t \in Threads
      PROVE  [calls EXCEPT ![t] = Nobody] \in [Threads -> Call \cup {Nobody}]
  BY DEF TypeOK
<1>3. CASE SendRegister(r)
  BY <1>1, <1>3, SendTyped DEF SendRegister, TypeOK
<1>4. CASE RegisterReturns(r)
  <2>1. calls[<<r, "main">>].id \in Ids \cup {Nobody}
    BY <1>1, <1>4 DEF RegisterReturns, InFlight, Waiting, TypeOK, Call
  <2> QED
    BY <1>1, <1>2, <1>4, <2>1 DEF RegisterReturns, TypeOK
<1>5. CASE RegisterFails(r)
  BY <1>1, <1>2, <1>5 DEF RegisterFails, TypeOK
<1>6. CASE SendHeartbeat(r)
  BY <1>1, <1>6, SendTyped DEF SendHeartbeat, TypeOK
<1>7. CASE HeartbeatEnds(r)
  BY <1>1, <1>2, <1>7 DEF HeartbeatEnds, TypeOK
<1>8. CASE Leave(r)
  BY <1>1, <1>8, SendTyped DEF Leave, TypeOK
<1>9. CASE DeregisterEnds(r)
  BY <1>1, <1>2, <1>9 DEF DeregisterEnds, TypeOK
<1>10. CASE Exit(r)
  BY <1>10 DEF Exit, TypeOK
<1> QED
  BY <1>3, <1>4, <1>5, <1>6, <1>7, <1>8, <1>9, <1>10 DEF Runs

LEMMA TypeEvents ==
    ASSUME TypeOK, NEW r \in Receivers, StopServing(r) \/ Start(r) \/ Terminate(r) \/ Crash(r)
    PROVE  TypeOK'
<1> USE DEF receiverVars, registryVars, TypeOK
<1>1. CASE Start(r)
  BY <1>1 DEF Start
<1>2. CASE Terminate(r)
  BY <1>2 DEF Terminate
<1>3. CASE Crash(r)
  <2>1. <<r, "main">> \in Threads /\ <<r, "beat">> \in Threads
    BY DEF Threads
  <2>2. calls' \in [Threads -> Call \cup {Nobody}]
    BY <1>3, <2>1 DEF Crash
  <2>3. faults' \in 0 .. MaxFaults
    BY <1>3 DEF Crash
  <2> QED
    BY <1>3, <2>2, <2>3 DEF Crash
<1>4. CASE StopServing(r)
  BY <1>4 DEF StopServing
<1> QED
  BY <1>1, <1>2, <1>3, <1>4

LEMMA TypeLose ==
    ASSUME TypeOK, NEW t \in Threads, Lose(t)
    PROVE  TypeOK'
<1>1. calls[t].id \in Ids \cup {Nobody}
  BY DEF Lose, Waiting, TypeOK, Call
<1>2. calls' = [calls EXCEPT ![t] = [@ EXCEPT !.leg = "lost", !.id = calls[t].id,
                                                !.due = CallLimit]]
  BY DEF Lose, Waiting, TypeOK, Call
<1>3. [calls EXCEPT ![t] = [@ EXCEPT !.leg = "lost", !.id = calls[t].id, !.due = CallLimit]]
          \in [Threads -> Call \cup {Nobody}]
  <2>1. Waiting(t) /\ CallLimit \in 0 .. CallLimit
    BY DEF Lose
  <2> QED
    BY <1>1, <2>1, NextLegTyped
<1>4. faults' \in 0 .. MaxFaults
  BY DEF Lose, TypeOK
<1>5. calls' \in [Threads -> Call \cup {Nobody}]
  BY <1>2, <1>3, Zenon
<1> QED
  BY <1>4, <1>5 DEF Lose, TypeOK, receiverVars, registryVars

LEMMA TypeClock ==
    ASSUME TypeOK, Prune \/ RegistryRestart \/ Tick
    PROVE  TypeOK'
<1>1. CASE Prune
  BY <1>1 DEF Prune, Stale, Without, Restrict, TypeOK, receiverVars
<1>2. CASE RegistryRestart
  <2>1. ASSUME NEW t \in Threads, Waiting(t)
        PROVE  [calls[t] EXCEPT !.leg = "lost", !.due = 0] \in Call
    <3>1. calls[t] \in Call
      BY <2>1 DEF Waiting, TypeOK
    <3>2. 0 \in 0 .. CallLimit
      OBVIOUS
    <3> QED
      BY <3>1, <3>2 DEF Call
  <2>2. calls' \in [Threads -> Call \cup {Nobody}]
    BY <1>2, <2>1 DEF RegistryRestart
  <2>3. entries' = [i \in {} |-> 0] /\ claimed' = {} /\ pruneIn' = PruneEvery
    BY <1>2 DEF RegistryRestart
  <2>4. UNCHANGED <<receiverVars, faults>>
    BY <1>2 DEF RegistryRestart
  <2> QED
    BY <2>2, <2>3, <2>4 DEF TypeOK, receiverVars
<1>3. CASE Tick
  <2>1. calls' \in [Threads -> Call \cup {Nobody}]
    BY <1>3 DEF Tick, Waiting, Call, TypeOK
  <2> QED
    BY <1>3, <2>1 DEF Tick, TypeOK
<1> QED
  BY <1>1, <1>2, <1>3

LEMMA TypeClaims ==
    ASSUME TypeOK, NEW i \in Ids, HandleClaim(i)
    PROVE  TypeOK'
  BY DEF HandleClaim, Claim, Release, TypeOK, receiverVars

LEMMA TypeNext == TypeOK /\ [Next]_vars => TypeOK'
<1> SUFFICES ASSUME TypeOK, [Next]_vars PROVE TypeOK'
  OBVIOUS
<1>1. CASE UNCHANGED vars
  BY <1>1 DEF vars, receiverVars, registryVars, TypeOK
<1> QED
  BY <1>1, TypeHandle, TypeLose, TypeRuns, TypeEvents, TypeClock, TypeClaims DEF Next

\* The registry's map and the receivers' threads stay well formed.
THEOREM TypeCorrect == Spec => []TypeOK
  BY TypeInit, TypeNext, PTL DEF Spec

-----------------------------------------------------------------------------
(* How long a silent receiver is listed.  The bound alone is not inductive: *)
(* a tick would break it.  With the time left on the timer added it is,     *)
(* because a tick takes from the timer what it adds to the age.             *)

StaleInv ==
    TypeOK /\ \A i \in DOMAIN entries : entries[i] + pruneIn <= Timeout + PruneEvery

LEMMA StaleNext == StaleInv /\ [Next]_vars => StaleInv'
<1> SUFFICES ASSUME StaleInv, [Next]_vars
             PROVE  \A i \in DOMAIN entries' : entries'[i] + pruneIn' <= Timeout + PruneEvery
  BY TypeNext DEF StaleInv
<1> USE DEF StaleInv
<1>1. ASSUME NEW t \in Threads, Handle(t) \/ Lose(t)
      PROVE  EntriesKept /\ pruneIn' = pruneIn
  BY <1>1, HandleEntries DEF Lose, registryVars, EntriesKept, TypeOK
<1>2. ASSUME NEW r \in Receivers, Runs(r) \/ StopServing(r) \/ Start(r) \/ Terminate(r) \/ Crash(r)
      PROVE  EntriesKept /\ pruneIn' = pruneIn
  BY <1>2, RunsLocal, EventsLocal DEF registryVars, EntriesKept, TypeOK
<1>3. CASE UNCHANGED vars
  BY <1>3 DEF vars, registryVars
<1>4. CASE EntriesKept /\ pruneIn' = pruneIn
  BY <1>4 DEF EntriesKept, TypeOK
<1>5. CASE Prune
  BY <1>5 DEF Prune, Stale, Without, Restrict, TypeOK
<1>6. CASE RegistryRestart
  BY <1>6 DEF RegistryRestart
<1>7. CASE Tick
  BY <1>7 DEF Tick, TypeOK
<1>8. ASSUME NEW i \in Ids, HandleClaim(i)
      PROVE  EntriesKept /\ pruneIn' = pruneIn
  BY <1>8 DEF HandleClaim, Claim, Release, EntriesKept, TypeOK
<1> QED
  BY <1>1, <1>2, <1>3, <1>4, <1>5, <1>6, <1>7, <1>8 DEF Next

\* However a receiver went away, the timer of pruneStale removes it no later
\* than a timeout and one interval after its last heartbeat.
THEOREM StaleAlwaysBrief == Spec => []StaleListedBriefly
<1>1. Init => StaleInv
  BY TypeInit DEF Init, StaleInv
<1>2. StaleInv => StaleListedBriefly
  BY DEF StaleInv, StaleListedBriefly, TypeOK
<1> QED
  BY <1>1, <1>2, StaleNext, PTL DEF Spec

-----------------------------------------------------------------------------
(* Only a registration adds an id, and it picks one that nobody has: not    *)
(* the registry, not a receiver, not a call that is still under way.        *)

LEMMA NoResurrectionStep ==
    TypeOK /\ [Next]_vars => [\A i \in DOMAIN entries' \ DOMAIN entries : i \in Fresh]_vars
<1> SUFFICES ASSUME TypeOK, Next, NEW i \in DOMAIN entries' \ DOMAIN entries
             PROVE  i \in Fresh
  OBVIOUS
<1>1. ASSUME NEW t \in Threads, HandleRegister(t) PROVE i \in Fresh
  BY <1>1 DEF HandleRegister
<1>2. ASSUME NEW t \in Threads, HandleHeartbeat(t) \/ HandleDeregister(t) \/ Lose(t)
      PROVE  DOMAIN entries' \subseteq DOMAIN entries
  BY <1>2 DEF HandleHeartbeat, HandleDeregister, Lose, Without, Restrict, registryVars
<1>3. ASSUME NEW r \in Receivers, Runs(r) \/ StopServing(r) \/ Start(r) \/ Terminate(r) \/ Crash(r)
      PROVE  DOMAIN entries' \subseteq DOMAIN entries
  BY <1>3, RunsLocal, EventsLocal DEF registryVars
<1>4. CASE Prune \/ RegistryRestart \/ Tick
  BY <1>4 DEF Prune, RegistryRestart, Tick, Without, Restrict
<1>5. ASSUME NEW e \in Ids, HandleClaim(e)
      PROVE  DOMAIN entries' \subseteq DOMAIN entries
  BY <1>5 DEF HandleClaim, Claim, Release
<1> QED
  BY <1>1, <1>2, <1>3, <1>4, <1>5 DEF Next, Handle

\* A heartbeat that arrives after the entry was pruned or deregistered does not
\* bring it back, whatever else is under way.
THEOREM RemovedStaysRemoved == Spec => NoResurrection
  BY TypeInit, TypeNext, NoResurrectionStep, PTL DEF Spec, NoResurrection

-----------------------------------------------------------------------------
(* A receiver that is up stays fresh.  Where its heartbeat thread is in its *)
(* round bounds the age of its entry: age and what is left of the sleep or  *)
(* of the call add up to no more than one round and the faults' delays.     *)

Slack == faults * (MaxDelay + CallLimit + Period)

MainCall(r) == calls[<<r, "main">>]
BeatCall(r) == calls[<<r, "beat">>]

\* Who has a call under way, and for what.
CallsKnown(r) ==
    /\ main[r] \in {"down", "registering"} => ~beating[r]
    /\ Up(r) => beating[r]
    /\ Waiting(<<r, "beat">>) =>
           beating[r] /\ BeatCall(r).op = "heartbeat" /\ BeatCall(r).id = self[r]
    /\ Waiting(<<r, "main">>) /\ MainCall(r).op = "register" => main[r] = "registering"

\* An entry whose answer is under way is as old as that one.
NewIsFresh(r) ==
    InFlight(<<r, "main">>, "register", "answered") /\ MainCall(r).id \in DOMAIN entries
        => entries[MainCall(r).id] + MainCall(r).due <= MaxDelay

\* The heartbeat thread asleep, its request under way, and its answer.
RoundBounded(r) ==
    Up(r) /\ self[r] \in DOMAIN entries =>
        /\ ~Waiting(<<r, "beat">>)
               => entries[self[r]] + sleep[r] <= MaxDelay + Period + Slack
        /\ Waiting(<<r, "beat">>) /\ BeatCall(r).leg = "sent"
               => entries[self[r]] + BeatCall(r).due <= 2 * MaxDelay + Period + Slack
        /\ Waiting(<<r, "beat">>) /\ BeatCall(r).leg # "sent"
               => entries[self[r]] + BeatCall(r).due <= MaxDelay + Slack

Punctual(r) == CallsKnown(r) /\ NewIsFresh(r) /\ RoundBounded(r)

FreshInv == TypeOK /\ \A r \in Receivers : Punctual(r)

\* Each fault gives a round more.
LEMMA SlackTyped == ASSUME TypeOK PROVE Slack \in Nat
<1>1. faults \in Nat /\ MaxDelay + CallLimit + Period \in Nat
  BY DEF TypeOK
<1> QED
  BY <1>1 DEF Slack

LEMMA SlackGrows ==
    ASSUME TypeOK, faults' = faults + 1
    PROVE  Slack' = Slack + MaxDelay + CallLimit + Period
<1> DEFINE p == MaxDelay + CallLimit + Period
<1>1. faults \in Nat /\ p \in Nat
  BY DEF TypeOK
<1> HIDE DEF p
<1>2. (faults + 1) * p = faults * p + p
  BY <1>1
<1> USE DEF p
<1>3. faults * p \in Nat
  BY SlackTyped DEF Slack
<1> QED
  BY <1>2, <1>3 DEF Slack

\* What a step does to the entries of others: they get no older, and what is
\* added has an id that no receiver has.
Rejuvenated ==
    \A i \in DOMAIN entries' :
        i \in Fresh \/ (i \in DOMAIN entries /\ entries'[i] \in Nat /\ entries'[i] <= entries[i])

LEMMA FreshNobodys ==
    ASSUME TypeOK, NEW r \in Receivers
    PROVE  /\ self[r] \notin Fresh
           /\ Waiting(<<r, "main">>) => MainCall(r).id \notin Fresh
<1>1. <<r, "main">> \in Threads
  BY DEF Threads
<1>2. self[r] \in Range(self)
  BY DEF Range, TypeOK
<1> QED
  BY <1>1, <1>2 DEF Fresh, MainCall

\* The calls of a receiver have the types of calls.
LEMMA CallsTyped ==
    ASSUME TypeOK, NEW r \in Receivers
    PROVE  /\ <<r, "main">> \in Threads /\ <<r, "beat">> \in Threads
           /\ Waiting(<<r, "beat">>) => BeatCall(r) \in Call /\ BeatCall(r).due \in Nat
           /\ Waiting(<<r, "main">>) => MainCall(r) \in Call /\ MainCall(r).due \in Nat
<1>1. <<r, "main">> \in Threads /\ <<r, "beat">> \in Threads
  BY DEF Threads
<1>2. \A t \in Threads : Waiting(t) => calls[t] \in Call
  BY DEF Waiting, TypeOK
<1>3. \A c \in Call : c.due \in Nat
  BY DEF Call
<1> QED
  BY <1>1, <1>2, <1>3 DEF MainCall, BeatCall

\* The numbers that the bounds speak of.
LEMMA AgesTyped ==
    ASSUME TypeOK, NEW r \in Receivers
    PROVE  /\ Slack \in Nat /\ sleep[r] \in Nat
           /\ \A i \in DOMAIN entries : entries[i] \in Nat
<1>1. sleep[r] \in 0 .. (Period + RetryDelay)
  BY DEF TypeOK
<1>2. sleep[r] \in Nat
  BY <1>1
<1> QED
  BY <1>2, SlackTyped DEF TypeOK

\* A step that leaves the main thread's call alone.
LEMMA NewElsewhere ==
    ASSUME TypeOK, NEW r \in Receivers, NewIsFresh(r), Rejuvenated,
           MainCall(r)' = MainCall(r)
    PROVE  NewIsFresh(r)'
<1>1. InFlight(<<r, "main">>, "register", "answered")'
          = InFlight(<<r, "main">>, "register", "answered")
  BY DEF InFlight, Waiting, MainCall
<1>2. InFlight(<<r, "main">>, "register", "answered") => Waiting(<<r, "main">>)
  BY DEF InFlight
<1> SUFFICES ASSUME InFlight(<<r, "main">>, "register", "answered"),
                    MainCall(r).id \in DOMAIN entries'
             PROVE  entries'[MainCall(r).id] + MainCall(r).due <= MaxDelay
  BY <1>1 DEF NewIsFresh
<1>3. /\ MainCall(r).id \in DOMAIN entries /\ entries[MainCall(r).id] \in Nat
      /\ entries'[MainCall(r).id] \in Nat
      /\ entries'[MainCall(r).id] <= entries[MainCall(r).id]
  BY <1>2, FreshNobodys, AgesTyped DEF Rejuvenated
<1>4. MainCall(r).due \in Nat
  BY <1>2, CallsTyped
<1> QED
  BY <1>3, <1>4 DEF NewIsFresh

\* A step that leaves a heartbeat thread alone, whatever the main thread does,
\* unless a receiver comes up by it.
LEMMA RoundElsewhere ==
    ASSUME TypeOK, NEW r \in Receivers, RoundBounded(r), Rejuvenated,
           Up(r)' => Up(r), UNCHANGED <<self[r], sleep[r]>>,
           BeatCall(r)' = BeatCall(r), Slack' \in Nat, Slack <= Slack'
    PROVE  RoundBounded(r)'
<1>1. Waiting(<<r, "beat">>)' = Waiting(<<r, "beat">>)
  BY DEF Waiting, BeatCall
<1> SUFFICES ASSUME Up(r), self[r] \in DOMAIN entries'
             PROVE  RoundBounded(r)'
  BY DEF RoundBounded
<1>2. /\ self[r] \in DOMAIN entries /\ entries[self[r]] \in Nat
      /\ entries'[self[r]] \in Nat /\ entries'[self[r]] <= entries[self[r]]
  BY FreshNobodys, AgesTyped DEF Rejuvenated
<1>3. /\ Slack \in Nat /\ sleep[r] \in Nat
      /\ Waiting(<<r, "beat">>) => BeatCall(r).due \in Nat
  BY AgesTyped, CallsTyped
<1> QED
  BY <1>1, <1>2, <1>3 DEF RoundBounded

\* A step that leaves the threads of r alone.
LEMMA PunctualElsewhere ==
    ASSUME TypeOK, NEW r \in Receivers, Punctual(r), Rejuvenated,
           UNCHANGED <<main[r], shutdown[r], beating[r], self[r], sleep[r]>>,
           MainCall(r)' = MainCall(r), BeatCall(r)' = BeatCall(r),
           Slack' \in Nat, Slack <= Slack'
    PROVE  Punctual(r)'
<1>1. CallsKnown(r)'
  BY DEF CallsKnown, Punctual, MainCall, BeatCall, Waiting, Up
<1>2. NewIsFresh(r)'
  BY NewElsewhere DEF Punctual
<1>3. RoundBounded(r)'
  BY RoundElsewhere DEF Punctual, Up
<1> QED
  BY <1>1, <1>2, <1>3 DEF Punctual

LEMMA PunctualHandle ==
    ASSUME FreshInv, NEW t \in Threads, Handle(t), NEW r \in Receivers
    PROVE  Punctual(r)'
<1> USE DEF FreshInv
<1>1. TypeOK /\ Punctual(r) /\ CallsKnown(r) /\ NewIsFresh(r) /\ RoundBounded(r)
  BY DEF Punctual
<1>2. PICK i \in Ids \cup {Nobody} : Answer(t, i) /\ Waiting(t)
  <2>1. CASE HandleRegister(t)
    BY <2>1 DEF HandleRegister, Fresh, InFlight
  <2>2. CASE HandleHeartbeat(t) \/ HandleDeregister(t)
    BY <2>2 DEF HandleHeartbeat, HandleDeregister, InFlight, Waiting, TypeOK, Call
  <2> QED
    BY <2>1, <2>2 DEF Handle
<1>3. UNCHANGED <<receiverVars, faults>>
  BY DEF Handle, HandleRegister, HandleHeartbeat, HandleDeregister, registryVars
<1>4. UNCHANGED <<main, shutdown, beating, self, sleep, Slack>> /\ Slack \in Nat
  BY <1>3, SlackTyped DEF receiverVars, Slack
<1>5. Rejuvenated
  <2>1. CASE HandleRegister(t)
    BY <2>1 DEF HandleRegister, Rejuvenated, TypeOK
  <2>2. CASE HandleHeartbeat(t)
    BY <2>2 DEF HandleHeartbeat, Rejuvenated, TypeOK
  <2>3. CASE HandleDeregister(t)
    BY <2>3 DEF HandleDeregister, Rejuvenated, TypeOK, Without, Restrict
  <2> QED
    BY <2>1, <2>2, <2>3 DEF Handle
<1>6. \A u \in Threads : u # t => calls'[u] = calls[u]
  BY <1>2 DEF Answer, TypeOK
<1>7. /\ calls'[t] = [calls[t] EXCEPT !.leg = "answered", !.id = i, !.due = MaxDelay]
      /\ calls[t] \in Call
  BY <1>2 DEF Answer, Waiting, TypeOK
<1>8. calls'[t].leg = "answered" /\ calls'[t].due = MaxDelay /\ calls'[t].op = calls[t].op
      /\ calls'[t].id = i
  BY <1>7 DEF Call
<1>9. CASE t = <<r, "main">>
  <2>1. BeatCall(r)' = BeatCall(r) /\ MainCall(r) = calls[t] /\ MainCall(r)' = calls'[t]
    BY <1>6, <1>9, CallsTyped DEF BeatCall, MainCall
  <2>2. CallsKnown(r)'
    BY <1>1, <1>2, <1>4, <1>8, <1>9, <2>1 DEF CallsKnown, Waiting, Up, BeatCall, MainCall
  <2>3. RoundBounded(r)'
    BY <1>1, <1>4, <1>5, <2>1, RoundElsewhere DEF Up
  <2>4. CASE HandleRegister(t)
    <3>1. entries'[calls'[t].id] = 0
      <4>1. PICK j \in Fresh :
                /\ entries' = [x \in DOMAIN entries \cup {j} |-> IF x = j THEN 0 ELSE entries[x]]
                /\ Answer(t, j)
        BY <2>4 DEF HandleRegister
      <4>2. calls'[t].id = j
        BY <1>7, <4>1 DEF Answer, Call, TypeOK
      <4> QED
        BY <4>1, <4>2
    <3> QED
      BY <1>8, <2>1, <2>2, <2>3, <3>1 DEF NewIsFresh, Punctual
  <2>5. CASE ~HandleRegister(t)
    <3>1. calls[t].op # "register"
      BY <2>5 DEF Handle, HandleHeartbeat, HandleDeregister, InFlight
    <3> QED
      BY <1>8, <1>9, <2>2, <2>3, <3>1 DEF NewIsFresh, Punctual, InFlight
  <2> QED
    BY <2>4, <2>5
<1>10. CASE t = <<r, "beat">>
  <2>1. MainCall(r)' = MainCall(r) /\ BeatCall(r) = calls[t] /\ BeatCall(r)' = calls'[t]
    BY <1>6, <1>10, CallsTyped DEF BeatCall, MainCall
  <2>2. calls[t].op = "heartbeat" /\ calls[t].id = self[r] /\ beating[r]
    BY <1>1, <1>2, <1>10, <2>1 DEF CallsKnown
  <2>3. HandleHeartbeat(t)
    BY <2>2 DEF Handle, HandleRegister, HandleDeregister, InFlight
  <2>4. /\ self[r] \in DOMAIN entries' => entries'[self[r]] = 0
        /\ calls'[t].id = self[r]
    BY <1>7, <2>2, <2>3 DEF HandleHeartbeat, Answer, Call, TypeOK
  <2>5. CallsKnown(r)'
    BY <1>1, <1>2, <1>4, <1>8, <1>10, <2>1, <2>2, <2>4
    DEF CallsKnown, Waiting, Up, BeatCall, MainCall
  <2>6. NewIsFresh(r)'
    BY <1>1, <1>5, <2>1, NewElsewhere
  <2>7. Waiting(<<r, "beat">>)'
    <3>1. calls'[t] \in Call
      BY <1>7 DEF Call
    <3> QED
      BY <1>10, <3>1, CallsAssumption DEF Waiting
  <2>8. RoundBounded(r)'
    BY <1>4, <1>8, <2>1, <2>4, <2>7 DEF RoundBounded
  <2> QED
    BY <2>5, <2>6, <2>8 DEF Punctual
<1>11. CASE t # <<r, "main">> /\ t # <<r, "beat">>
  <2>1. MainCall(r)' = MainCall(r) /\ BeatCall(r)' = BeatCall(r)
    BY <1>6, <1>11, CallsTyped DEF BeatCall, MainCall
  <2> QED
    BY <1>1, <1>4, <1>5, <2>1, PunctualElsewhere
<1> QED
  BY <1>9, <1>10, <1>11

LEMMA PunctualRuns ==
    ASSUME FreshInv, NEW q \in Receivers, Runs(q), NEW r \in Receivers
    PROVE  Punctual(r)'
<1> USE DEF FreshInv
<1>1. TypeOK /\ Punctual(r) /\ CallsKnown(r) /\ NewIsFresh(r) /\ RoundBounded(r)
  BY DEF Punctual
<1>2. UNCHANGED <<registryVars, faults>>
  BY RunsLocal DEF Runs, SendRegister, RegisterReturns, RegisterFails, SendHeartbeat,
     HeartbeatEnds, Leave, DeregisterEnds, Exit
<1>3. UNCHANGED <<entries, Slack>> /\ Slack \in Nat /\ Slack <= Slack'
  BY <1>2, SlackTyped DEF registryVars, Slack
<1>4. Rejuvenated
  BY <1>3 DEF Rejuvenated, TypeOK
<1>5. /\ <<r, "main">> \in Threads /\ <<r, "beat">> \in Threads
      /\ <<q, "main">> \in Threads /\ <<q, "beat">> \in Threads
  BY DEF Threads
<1>6. CASE q # r
  <2>1. UNCHANGED <<main[r], shutdown[r], beating[r], self[r], sleep[r]>>
    BY <1>6 DEF Runs, SendRegister, RegisterReturns, RegisterFails, SendHeartbeat,
       HeartbeatEnds, Leave, DeregisterEnds, Exit, receiverVars, TypeOK
  <2>2. MainCall(r)' = MainCall(r) /\ BeatCall(r)' = BeatCall(r)
    BY <1>5, <1>6 DEF Runs, SendRegister, RegisterReturns, RegisterFails, SendHeartbeat,
       HeartbeatEnds, Leave, DeregisterEnds, Exit, Send, MainCall, BeatCall, TypeOK
  <2> QED
    BY <1>1, <1>3, <1>4, <2>1, <2>2, PunctualElsewhere
<1>7. CASE q = r
  <2> USE <1>7
  <2>1. CASE SendRegister(r)
    <3>1. UNCHANGED <<main, shutdown, beating, self, sleep>> /\ main[r] = "registering"
      BY <2>1 DEF SendRegister, receiverVars
    <3>2. /\ BeatCall(r)' = BeatCall(r) /\ MainCall(r)'.op = "register"
          /\ MainCall(r)'.leg = "sent"
      BY <1>5, <2>1 DEF SendRegister, Send, MainCall, BeatCall, TypeOK
    <3>3. CallsKnown(r)'
      BY <1>1, <3>1, <3>2 DEF CallsKnown, Waiting, Up, BeatCall, MainCall
    <3>4. NewIsFresh(r)'
      BY <3>2 DEF NewIsFresh, InFlight, MainCall
    <3>5. RoundBounded(r)'
      BY <3>1 DEF RoundBounded, Up
    <3> QED
      BY <3>3, <3>4, <3>5 DEF Punctual
  <2>2. CASE RegisterReturns(r)
    <3>1. /\ InFlight(<<r, "main">>, "register", "answered")
          /\ main'[r] = "running" /\ shutdown'[r] = shutdown[r]
          /\ self'[r] = MainCall(r).id /\ beating'[r] = ~shutdown[r] /\ sleep'[r] = Period
          /\ calls'[<<r, "main">>] = Nobody /\ calls'[<<r, "beat">>] = calls[<<r, "beat">>]
      BY <1>5, <2>2 DEF RegisterReturns, MainCall, TypeOK
    <3>2. main[r] = "registering" /\ ~Waiting(<<r, "beat">>)
      BY <1>1, <3>1 DEF CallsKnown, InFlight, MainCall
    <3>3. ~Waiting(<<r, "beat">>)' /\ ~Waiting(<<r, "main">>)'
      BY <3>1, <3>2 DEF Waiting
    <3>4. CallsKnown(r)' /\ NewIsFresh(r)'
      BY <3>1, <3>3 DEF CallsKnown, NewIsFresh, InFlight, Up
    <3>5. RoundBounded(r)'
      <4>1. MainCall(r).due \in Nat
        BY <3>1, CallsTyped DEF InFlight
      <4>2. self'[r] \in DOMAIN entries => entries[self'[r]] <= MaxDelay
        BY <1>1, <3>1, <4>1, AgesTyped DEF NewIsFresh
      <4> QED
        BY <1>3, <3>1, <3>3, <4>2, AgesTyped DEF RoundBounded
    <3> QED
      BY <3>4, <3>5 DEF Punctual
  <2>3. CASE RegisterFails(r)
    <3>1. /\ main'[r] \in {main[r], "down"} /\ shutdown' = shutdown /\ beating' = beating
          /\ calls'[<<r, "main">>] = Nobody /\ calls'[<<r, "beat">>] = calls[<<r, "beat">>]
          /\ self' = self /\ InFlight(<<r, "main">>, "register", "lost")
      BY <1>5, <2>3 DEF RegisterFails, TypeOK
    <3>2. main[r] = "registering"
      BY <1>1, <3>1 DEF CallsKnown, InFlight, MainCall
    <3> QED
      BY <1>1, <3>1, <3>2
      DEF Punctual, CallsKnown, NewIsFresh, RoundBounded, InFlight, Waiting, Up, BeatCall
  <2>4. CASE SendHeartbeat(r)
    <3>1. /\ UNCHANGED <<main, shutdown, beating, self, sleep>>
          /\ beating[r] /\ sleep[r] = 0 /\ ~Waiting(<<r, "beat">>)
      BY <2>4 DEF SendHeartbeat, receiverVars
    <3>2. /\ MainCall(r)' = MainCall(r) /\ BeatCall(r)'.op = "heartbeat"
          /\ BeatCall(r)'.id = self[r] /\ BeatCall(r)'.leg = "sent"
          /\ BeatCall(r)'.due = MaxDelay
      BY <1>5, <2>4 DEF SendHeartbeat, Send, MainCall, BeatCall, TypeOK
    <3>3. BeatCall(r)' \in Call
      <4>1. [op |-> "heartbeat", id |-> self[r], leg |-> "sent", due |-> MaxDelay] \in Call
        BY DEF Call, TypeOK
      <4> QED
        BY <1>5, <2>4, <4>1 DEF SendHeartbeat, Send, BeatCall, TypeOK
    <3>4. Waiting(<<r, "beat">>)'
      BY <3>3, CallsAssumption DEF Waiting, BeatCall
    <3>5. CallsKnown(r)'
      BY <1>1, <3>1, <3>2 DEF CallsKnown, Waiting, Up, MainCall
    <3>6. NewIsFresh(r)'
      BY <1>1, <1>4, <3>2, NewElsewhere
    <3>7. RoundBounded(r)'
      BY <1>1, <1>3, <3>1, <3>2, <3>4, AgesTyped DEF RoundBounded, Up
    <3> QED
      BY <3>5, <3>6, <3>7 DEF Punctual
  <2>5. CASE HeartbeatEnds(r)
    <3>1. /\ UNCHANGED <<main, shutdown, self>> /\ beating'[r] = ~shutdown[r]
          /\ sleep'[r] = Period /\ BeatCall(r)' = Nobody /\ MainCall(r)' = MainCall(r)
          /\ Waiting(<<r, "beat">>) /\ BeatCall(r).leg # "sent"
      BY <1>5, <2>5 DEF HeartbeatEnds, InFlight, MainCall, BeatCall, TypeOK
    <3>2. ~Waiting(<<r, "beat">>)'
      BY <3>1 DEF Waiting, BeatCall
    <3>3. CallsKnown(r)'
      BY <1>1, <3>1, <3>2 DEF CallsKnown, Waiting, Up, MainCall
    <3>4. NewIsFresh(r)'
      BY <1>1, <1>4, <3>1, NewElsewhere
    <3>5. BeatCall(r).due \in Nat
      BY <3>1, CallsTyped
    <3>6. RoundBounded(r)'
      BY <1>1, <1>3, <3>1, <3>2, <3>5, AgesTyped DEF RoundBounded, Up
    <3> QED
      BY <3>3, <3>4, <3>6 DEF Punctual
  <2>6. CASE Leave(r)
    <3>1. /\ main'[r] = "leaving" /\ UNCHANGED <<beating, self>>
          /\ BeatCall(r)' = BeatCall(r) /\ MainCall(r)'.op = "deregister"
      BY <1>5, <2>6 DEF Leave, Send, MainCall, BeatCall, TypeOK
    <3> QED
      BY <1>1, <3>1
      DEF Punctual, CallsKnown, NewIsFresh, RoundBounded, InFlight, Waiting, Up, BeatCall, MainCall
  <2>7. CASE DeregisterEnds(r)
    <3>1. /\ main'[r] = "stopping" /\ UNCHANGED <<beating, self>>
          /\ BeatCall(r)' = BeatCall(r) /\ MainCall(r)' = Nobody
      BY <1>5, <2>7 DEF DeregisterEnds, MainCall, BeatCall, TypeOK
    <3> QED
      BY <1>1, <3>1
      DEF Punctual, CallsKnown, NewIsFresh, RoundBounded, InFlight, Waiting, Up, BeatCall, MainCall
  <2>8. CASE Exit(r)
    <3>1. /\ main[r] = "joining" /\ ~beating[r] /\ main'[r] = "down"
          /\ UNCHANGED <<beating, calls>>
      BY <2>8 DEF Exit, TypeOK
    <3>2. ~Waiting(<<r, "beat">>) /\ ~InFlight(<<r, "main">>, "register", "answered")
      BY <1>1, <3>1 DEF CallsKnown, InFlight, MainCall
    <3> QED
      BY <1>1, <3>1, <3>2
      DEF Punctual, CallsKnown, NewIsFresh, RoundBounded, InFlight, Waiting, Up, MainCall
  <2> QED
    BY <2>1, <2>2, <2>3, <2>4, <2>5, <2>6, <2>7, <2>8 DEF Runs
<1> QED
  BY <1>6, <1>7

LEMMA PunctualEvents ==
    ASSUME FreshInv, NEW q \in Receivers, StopServing(q) \/ Start(q) \/ Terminate(q) \/ Crash(q),
           NEW r \in Receivers
    PROVE  Punctual(r)'
<1> USE DEF FreshInv
<1>1. TypeOK /\ Punctual(r) /\ CallsKnown(r) /\ NewIsFresh(r) /\ RoundBounded(r)
  BY DEF Punctual
<1>2. entries' = entries /\ Rejuvenated
  BY EventsLocal DEF registryVars, Rejuvenated, TypeOK
<1>3. Slack' \in Nat /\ Slack <= Slack'
  <2>1. CASE faults' = faults
    BY <2>1, SlackTyped DEF Slack
  <2>2. CASE faults' = faults + 1
    BY <2>2, SlackTyped, SlackGrows
  <2> QED
    BY <2>1, <2>2 DEF StopServing, Start, Terminate, Crash
<1>4. /\ <<r, "main">> \in Threads /\ <<r, "beat">> \in Threads
      /\ <<q, "main">> \in Threads /\ <<q, "beat">> \in Threads
  BY DEF Threads
<1>5. CASE q # r
  <2>1. UNCHANGED <<main[r], shutdown[r], beating[r], self[r], sleep[r]>>
    BY <1>5 DEF StopServing, Start, Terminate, Crash, TypeOK
  <2>2. MainCall(r)' = MainCall(r) /\ BeatCall(r)' = BeatCall(r)
    BY <1>4, <1>5 DEF StopServing, Start, Terminate, Crash, MainCall, BeatCall, TypeOK
  <2> QED
    BY <1>1, <1>2, <1>3, <2>1, <2>2, PunctualElsewhere
<1>6. CASE q = r
  <2> USE <1>6
  <2>1. CASE Start(r)
    <3>1. main[r] = "down" /\ main'[r] = "registering" /\ UNCHANGED <<beating, self, calls>>
      BY <2>1 DEF Start, TypeOK
    <3>2. ~Waiting(<<r, "beat">>) /\ ~InFlight(<<r, "main">>, "register", "answered")
      BY <1>1, <3>1 DEF CallsKnown, InFlight, MainCall
    <3> QED
      BY <1>1, <3>1, <3>2
      DEF Punctual, CallsKnown, NewIsFresh, RoundBounded, InFlight, Waiting, Up, MainCall
  <2>2. CASE Terminate(r)
    <3>1. shutdown'[r] /\ UNCHANGED <<entries, main, beating, self, calls>>
      BY <1>2, <2>2 DEF Terminate, TypeOK
    <3> QED
      BY <1>1, <3>1
      DEF Punctual, CallsKnown, NewIsFresh, RoundBounded, InFlight, Waiting, Up, MainCall, BeatCall
  <2>3. CASE Crash(r)
    <3>1. /\ main'[r] = "down" /\ ~beating'[r]
          /\ calls'[<<r, "main">>] = Nobody /\ calls'[<<r, "beat">>] = Nobody
      BY <1>4, <2>3 DEF Crash, TypeOK
    <3> QED
      BY <3>1 DEF Punctual, CallsKnown, NewIsFresh, RoundBounded, InFlight, Waiting, Up
  <2>4. CASE StopServing(r)
    <3>1. /\ main[r] = "stopping" /\ main'[r] = "joining" /\ UNCHANGED <<beating, self, calls>>
      BY <2>4 DEF StopServing, TypeOK
    <3>2. ~InFlight(<<r, "main">>, "register", "answered")
      BY <1>1, <3>1 DEF CallsKnown, InFlight, MainCall
    <3> QED
      BY <1>1, <3>1, <3>2
      DEF Punctual, CallsKnown, NewIsFresh, RoundBounded, InFlight, Waiting, Up, MainCall, BeatCall
  <2> QED
    BY <2>1, <2>2, <2>3, <2>4
<1> QED
  BY <1>5, <1>6

LEMMA PunctualLose ==
    ASSUME FreshInv, NEW t \in Threads, Lose(t), NEW r \in Receivers
    PROVE  Punctual(r)'
<1> USE DEF FreshInv
<1>1. TypeOK /\ Punctual(r) /\ CallsKnown(r) /\ NewIsFresh(r) /\ RoundBounded(r)
  BY DEF Punctual
<1>2. /\ UNCHANGED <<entries, main, shutdown, beating, self, sleep>> /\ Rejuvenated
      /\ Waiting(t) /\ faults' = faults + 1
  BY DEF Lose, registryVars, receiverVars, Rejuvenated, TypeOK
<1>3. Slack \in Nat /\ Slack' = Slack + MaxDelay + CallLimit + Period
  BY <1>2, SlackTyped, SlackGrows
<1>4. Slack' \in Nat /\ Slack <= Slack'
  BY <1>3
<1>5. \A u \in Threads : u # t => calls'[u] = calls[u]
  BY DEF Lose, TypeOK
<1>6. /\ calls[t] \in Call /\ calls'[t].leg = "lost" /\ calls'[t].due = CallLimit
      /\ calls'[t].op = calls[t].op /\ calls'[t].id = calls[t].id /\ calls'[t] \in Call
  <2>1. calls[t] \in Call
    BY <1>2 DEF Waiting, TypeOK
  <2>2. calls'[t] = [calls[t] EXCEPT !.leg = "lost", !.due = CallLimit]
    BY DEF Lose, TypeOK
  <2>3. CallLimit \in 0 .. CallLimit
    OBVIOUS
  <2> QED
    BY <2>1, <2>2, <2>3 DEF Call
<1>7. CASE t = <<r, "main">>
  <2>1. BeatCall(r)' = BeatCall(r) /\ MainCall(r) = calls[t] /\ MainCall(r)' = calls'[t]
    BY <1>5, <1>7, CallsTyped DEF BeatCall, MainCall
  <2>2. CallsKnown(r)'
    BY <1>1, <1>2, <1>6, <1>7, <2>1 DEF CallsKnown, Waiting, Up, BeatCall
  <2>3. RoundBounded(r)'
    BY <1>1, <1>2, <1>4, <2>1, RoundElsewhere DEF Up
  <2> QED
    BY <1>6, <1>7, <2>2, <2>3 DEF Punctual, NewIsFresh, InFlight
<1>8. CASE t = <<r, "beat">>
  <2>1. MainCall(r)' = MainCall(r) /\ BeatCall(r) = calls[t] /\ BeatCall(r)' = calls'[t]
    BY <1>5, <1>8, CallsTyped DEF BeatCall, MainCall
  <2>2. CallsKnown(r)'
    BY <1>1, <1>2, <1>6, <1>8, <2>1 DEF CallsKnown, Waiting, Up, MainCall
  <2>3. NewIsFresh(r)'
    BY <1>1, <1>2, <2>1, NewElsewhere
  <2>4. Waiting(<<r, "beat">>)' /\ BeatCall(r).due \in Nat
    BY <1>2, <1>6, <1>8, CallsTyped, CallsAssumption DEF Waiting
  <2>5. RoundBounded(r)'
    BY <1>1, <1>2, <1>3, <1>6, <1>8, <2>1, <2>4, AgesTyped DEF RoundBounded, Up
  <2> QED
    BY <2>2, <2>3, <2>5 DEF Punctual
<1>9. CASE t # <<r, "main">> /\ t # <<r, "beat">>
  <2>1. MainCall(r)' = MainCall(r) /\ BeatCall(r)' = BeatCall(r)
    BY <1>5, <1>9, CallsTyped DEF BeatCall, MainCall
  <2> QED
    BY <1>1, <1>2, <1>4, <2>1, PunctualElsewhere
<1> QED
  BY <1>7, <1>8, <1>9

\* Claims and the prune timer touch no receiver; the restart leaves no entry.
LEMMA PunctualRegistry ==
    ASSUME FreshInv, Prune \/ RegistryRestart \/ (\E i \in Ids : HandleClaim(i)),
           NEW r \in Receivers
    PROVE  Punctual(r)'
<1> USE DEF FreshInv
<1>1. TypeOK /\ Punctual(r) /\ CallsKnown(r)
  BY DEF Punctual
<1>2. UNCHANGED <<main, shutdown, beating, self, sleep>> /\ Slack' \in Nat /\ Slack <= Slack'
  <2>1. UNCHANGED <<receiverVars, faults>>
    BY DEF Prune, RegistryRestart, HandleClaim, Claim, Release
  <2>2. Slack' = Slack /\ Slack \in Nat
    BY <2>1, SlackTyped DEF Slack
  <2> QED
    BY <2>1, <2>2 DEF receiverVars
<1>3. CASE Prune \/ \E i \in Ids : HandleClaim(i)
  <2>1. UNCHANGED calls
    BY <1>3 DEF Prune, HandleClaim, Claim, Release
  <2>2. Rejuvenated
    <3>1. CASE Prune
      BY <3>1 DEF Prune, Rejuvenated, Without, Restrict, TypeOK
    <3>2. CASE \E i \in Ids : HandleClaim(i)
      BY <3>2 DEF HandleClaim, Claim, Release, Rejuvenated, TypeOK
    <3> QED
      BY <1>3, <3>1, <3>2
  <2>3. MainCall(r)' = MainCall(r) /\ BeatCall(r)' = BeatCall(r)
    BY <2>1 DEF MainCall, BeatCall
  <2> QED
    BY <1>1, <1>2, <2>2, <2>3, PunctualElsewhere
<1>4. CASE RegistryRestart
  <2>1. DOMAIN entries' = {}
    BY <1>4 DEF RegistryRestart
  <2>2. ASSUME NEW t \in Threads
        PROVE  IF Waiting(t) THEN /\ calls'[t].op = calls[t].op /\ calls'[t].id = calls[t].id
                             ELSE calls'[t] = Nobody
    <3>1. Waiting(t) => calls[t] \in Call
      BY DEF Waiting, TypeOK
    <3> QED
      BY <1>4, <3>1 DEF RegistryRestart, Call
  <2>3. CallsKnown(r)'
    BY <1>1, <1>2, <2>2, CallsTyped DEF CallsKnown, Waiting, Up, MainCall, BeatCall
  <2> QED
    BY <2>1, <2>3 DEF Punctual, NewIsFresh, RoundBounded
<1> QED
  BY <1>3, <1>4

\* An entry gets older while a sleep or a call under way gets shorter.
LEMMA PunctualTick ==
    ASSUME FreshInv, Tick, NEW r \in Receivers
    PROVE  Punctual(r)'
<1> USE DEF FreshInv
<1>1. TypeOK /\ Punctual(r) /\ CallsKnown(r) /\ NewIsFresh(r) /\ RoundBounded(r)
  BY DEF Punctual
<1>2. UNCHANGED <<main, shutdown, beating, self, Slack>> /\ Slack \in Nat
  BY SlackTyped DEF Tick, Slack
<1>3. ASSUME NEW t \in Threads
      PROVE  /\ Waiting(t)' = Waiting(t)
             /\ Waiting(t) => /\ calls'[t].op = calls[t].op /\ calls'[t].id = calls[t].id
                              /\ calls'[t].leg = calls[t].leg
                              /\ calls'[t].due = calls[t].due - 1 /\ calls[t].due \in Nat
  <2>1. CASE Waiting(t)
    <3>1. calls[t] \in Call /\ calls[t].due > 0
      BY <2>1 DEF Tick, Waiting, TypeOK
    <3>2. calls'[t] = [calls[t] EXCEPT !.due = @ - 1]
      BY <2>1 DEF Tick
    <3>3. calls[t].due - 1 \in 0 .. CallLimit /\ calls[t].due \in Nat
      BY <3>1 DEF Call
    <3>4. calls'[t] \in Call
      BY <3>1, <3>2, <3>3 DEF Call
    <3> QED
      BY <2>1, <3>1, <3>2, <3>3, <3>4, CallsAssumption DEF Call, Waiting
  <2>2. CASE ~Waiting(t)
    BY <2>2 DEF Tick, Waiting
  <2> QED
    BY <2>1, <2>2
<1>4. /\ DOMAIN entries' = DOMAIN entries
      /\ \A i \in DOMAIN entries : entries'[i] = entries[i] + 1 /\ entries[i] \in Nat
  BY DEF Tick, TypeOK
<1>5. CallsKnown(r)'
  BY <1>1, <1>2, <1>3, CallsTyped DEF CallsKnown, Up, MainCall, BeatCall
<1>6. NewIsFresh(r)'
  <2>1. InFlight(<<r, "main">>, "register", "answered")'
            = InFlight(<<r, "main">>, "register", "answered")
    BY <1>3, CallsTyped DEF InFlight
  <2> SUFFICES ASSUME InFlight(<<r, "main">>, "register", "answered"),
                      MainCall(r)'.id \in DOMAIN entries'
               PROVE  entries'[MainCall(r)'.id] + MainCall(r)'.due <= MaxDelay
    BY <2>1 DEF NewIsFresh
  <2>2. /\ MainCall(r)'.id = MainCall(r).id /\ MainCall(r)'.due = MainCall(r).due - 1
        /\ MainCall(r).due \in Nat
    BY <1>3, CallsTyped DEF InFlight, MainCall
  <2>3. entries[MainCall(r).id] + MainCall(r).due <= MaxDelay
    BY <1>1, <1>4, <2>2 DEF NewIsFresh
  <2> QED
    BY <1>4, <2>2, <2>3
<1>7. RoundBounded(r)'
  <2>1. Up(r) /\ ~Waiting(<<r, "beat">>) => sleep'[r] = sleep[r] - 1
    BY <1>1 DEF Tick, Awake, CallsKnown, TypeOK
  <2>2. /\ Waiting(<<r, "beat">>)' = Waiting(<<r, "beat">>)
        /\ Waiting(<<r, "beat">>) => /\ BeatCall(r)'.leg = BeatCall(r).leg
                                     /\ BeatCall(r)'.due = BeatCall(r).due - 1
                                     /\ BeatCall(r).due \in Nat
    BY <1>3, CallsTyped DEF BeatCall
  <2> SUFFICES ASSUME Up(r), self[r] \in DOMAIN entries
               PROVE  RoundBounded(r)'
    BY <1>2, <1>4 DEF RoundBounded, Up
  <2>3. entries'[self[r]] = entries[self[r]] + 1 /\ entries[self[r]] \in Nat
    BY <1>4
  <2> QED
    BY <1>1, <1>2, <2>1, <2>2, <2>3, AgesTyped DEF RoundBounded
<1> QED
  BY <1>5, <1>6, <1>7 DEF Punctual

LEMMA FreshNext == FreshInv /\ [Next]_vars => FreshInv'
<1> SUFFICES ASSUME FreshInv, [Next]_vars PROVE FreshInv'
  OBVIOUS
<1>1. TypeOK'
  BY TypeNext DEF FreshInv
<1>2. ASSUME NEW r \in Receivers PROVE Punctual(r)'
  <2>1. CASE UNCHANGED vars
    BY <2>1 DEF vars, registryVars, receiverVars, FreshInv, Punctual, CallsKnown, NewIsFresh,
       RoundBounded, InFlight, Waiting, Up, MainCall, BeatCall, Slack
  <2> QED
    BY <2>1, PunctualHandle, PunctualLose, PunctualRuns, PunctualEvents, PunctualRegistry,
       PunctualTick DEF Next
<1> QED
  BY <1>1, <1>2 DEF FreshInv

LEMMA FreshInit == Init => FreshInv
  BY TypeInit DEF Init, FreshInv, Punctual, CallsKnown, NewIsFresh, RoundBounded, InFlight,
     Waiting, Up, Threads

LEMMA FreshBounds == FreshInv => FreshWhileUp
<1> SUFFICES ASSUME FreshInv, NEW r \in Receivers, Up(r), self[r] \in DOMAIN entries
             PROVE  entries[self[r]] <= FreshFor
  BY DEF FreshWhileUp
<1>1. RoundBounded(r) /\ TypeOK
  BY DEF FreshInv, Punctual
<1>2. /\ entries[self[r]] \in Nat /\ sleep[r] \in Nat /\ Slack \in Nat
      /\ Waiting(<<r, "beat">>) => BeatCall(r).due \in Nat
  BY <1>1, AgesTyped, CallsTyped
<1>3. entries[self[r]] <= 2 * MaxDelay + Period + Slack
  BY <1>1, <1>2 DEF RoundBounded
<1> QED
  BY <1>3 DEF FreshFor, Slack

\* The prune timer never removes a receiver that is up on account of a delay:
\* however calls are delayed and lost, the entry of its id is at most one round of
\* the heartbeat loop old, and one more for each fault there has been.
THEOREM UpAlwaysFresh == Spec => []FreshWhileUp
  BY FreshInit, FreshNext, FreshBounds, PTL DEF Spec

-----------------------------------------------------------------------------
(* A receiver that is up stays listed.  Nobody else deregisters its id,     *)
(* since no two processes have one id, and no prune finds it stale.         *)

\* The registration is answered, which the receiver does not know yet.
Admitted(r) == InFlight(<<r, "main">>, "register", "answered")

InService(r) == Up(r) \/ Admitted(r)

\* The id that belongs to the process.
Holds(r) == IF Admitted(r) THEN MainCall(r).id ELSE self[r]

Own(r) ==
    /\ main[r] \in {"down", "registering"} => self[r] = Nobody
    /\ Waiting(<<r, "main">>) /\ MainCall(r).op = "deregister" =>
           main[r] = "leaving" /\ MainCall(r).id = self[r]

IdsInv ==
    /\ FreshInv
    /\ \A r \in Receivers : Own(r)
    /\ \A q, r \in Receivers : q # r /\ Holds(q) = Holds(r) => Holds(q) = Nobody

\* What a step may do to the id of a receiver, unless it is registered by it.
Settled(r) ==
    /\ Own(r)'
    /\ Holds(r)' \in {Holds(r), Nobody}
    /\ InService(r)' => InService(r) /\ Holds(r)' = Holds(r)

\* Where the main thread is, by the call it waits for.
LEMMA OwnFacts ==
    ASSUME IdsInv, NEW r \in Receivers
    PROVE  /\ TypeOK /\ Own(r) /\ CallsKnown(r) /\ <<r, "main">> \in Threads
           /\ Admitted(r) => main[r] = "registering" /\ self[r] = Nobody
<1>1. TypeOK /\ Own(r) /\ CallsKnown(r) /\ <<r, "main">> \in Threads
  BY DEF IdsInv, FreshInv, Punctual, Threads
<1>2. Admitted(r) => main[r] = "registering"
  BY <1>1 DEF Admitted, InFlight, CallsKnown, MainCall
<1> QED
  BY <1>1, <1>2 DEF Own

\* A step that leaves the main thread and its call alone.
LEMMA SettledElsewhere ==
    ASSUME NEW r \in Receivers, Own(r), UNCHANGED <<main[r], self[r]>>,
           MainCall(r)' = MainCall(r), Up(r)' => Up(r)
    PROVE  Settled(r) /\ Admitted(r)' = Admitted(r)
<1>1. Waiting(<<r, "main">>)' = Waiting(<<r, "main">>)
  BY DEF Waiting, MainCall
<1>2. Admitted(r)' = Admitted(r)
  BY <1>1 DEF Admitted, InFlight, MainCall
<1> QED
  BY <1>1, <1>2 DEF Settled, Own, Holds, InService

\* A step that takes the main thread's call on, to what is no answer to a registration.
LEMMA SettledCall ==
    ASSUME IdsInv, NEW r \in Receivers, UNCHANGED <<main[r], self[r], shutdown[r]>>,
           Waiting(<<r, "main">>), MainCall(r)'.op = MainCall(r).op,
           MainCall(r)'.op # "register" \/ MainCall(r)'.leg = "lost",
           MainCall(r)'.id = MainCall(r).id
    PROVE  Settled(r)
<1>1. ~Admitted(r)'
  BY DEF Admitted, InFlight, MainCall
<1>2. Own(r)'
  BY OwnFacts DEF Own
<1>3. Holds(r)' = self[r] /\ (Admitted(r) => self[r] = Nobody /\ ~Up(r))
  BY <1>1, OwnFacts DEF Holds, Up
<1>4. InService(r)' => Up(r)
  BY <1>1 DEF InService, Up
<1> QED
  BY <1>2, <1>3, <1>4 DEF Settled, Holds, InService

LEMMA SettledHandle ==
    ASSUME IdsInv, NEW t \in Threads, NEW r \in Receivers,
           HandleHeartbeat(t) \/ HandleDeregister(t) \/ Lose(t)
    PROVE  Settled(r)
<1>1. UNCHANGED <<main, self, shutdown>> /\ TypeOK /\ Own(r) /\ <<r, "main">> \in Threads
  BY OwnFacts DEF HandleHeartbeat, HandleDeregister, Lose, receiverVars
<1>2. /\ Waiting(t) /\ calls[t] \in Call
      /\ \A u \in Threads : u # t => calls'[u] = calls[u]
      /\ calls'[t].op = calls[t].op /\ calls'[t].id = calls[t].id
      /\ calls'[t].op # "register" \/ calls'[t].leg = "lost"
  <2>1. Waiting(t) /\ calls[t] \in Call
    BY <1>1 DEF HandleHeartbeat, HandleDeregister, InFlight, Lose, Waiting, TypeOK
  <2>2. CASE HandleHeartbeat(t) \/ HandleDeregister(t)
    <3>1. Answer(t, calls[t].id) /\ calls[t].op # "register"
      BY <2>2 DEF HandleHeartbeat, HandleDeregister, InFlight
    <3>2. /\ \A u \in Threads : u # t => calls'[u] = calls[u]
          /\ calls'[t] = [calls[t] EXCEPT !.leg = "answered", !.id = calls[t].id,
                                         !.due = MaxDelay]
      BY <1>1, <3>1 DEF Answer, TypeOK
    <3>3. calls'[t].op = calls[t].op /\ calls'[t].id = calls[t].id
      BY <2>1, <3>2 DEF Call
    <3> QED
      BY <2>1, <3>1, <3>2, <3>3
  <2>3. CASE Lose(t)
    BY <1>1, <2>1, <2>3 DEF Lose, Call, TypeOK
  <2> QED
    BY <2>1, <2>2, <2>3
<1>3. CASE t = <<r, "main">>
  BY <1>1, <1>2, <1>3, SettledCall DEF MainCall
<1>4. CASE t # <<r, "main">>
  BY <1>1, <1>2, <1>4, SettledElsewhere DEF MainCall, Up
<1> QED
  BY <1>3, <1>4

LEMMA SettledRuns ==
    ASSUME IdsInv, NEW q \in Receivers, NEW r \in Receivers,
           Runs(q) \/ StopServing(q) \/ Start(q) \/ Terminate(q) \/ Crash(q)
    PROVE  Settled(r)
<1>1. /\ TypeOK /\ Own(r) /\ CallsKnown(r)
      /\ <<r, "main">> \in Threads /\ <<q, "main">> \in Threads /\ <<q, "beat">> \in Threads
      /\ Admitted(r) => main[r] = "registering" /\ self[r] = Nobody
  BY OwnFacts DEF Threads
<1>2. CASE q # r
  <2>1. UNCHANGED <<main[r], self[r], shutdown[r]>> /\ MainCall(r)' = MainCall(r)
    BY <1>1, <1>2 DEF Runs, SendRegister, RegisterReturns, RegisterFails, SendHeartbeat,
       HeartbeatEnds, Leave, DeregisterEnds, Exit, StopServing, Start, Terminate, Crash, Send, MainCall,
       receiverVars, TypeOK
  <2> QED
    BY <1>1, <2>1, SettledElsewhere DEF Up
<1>3. CASE q = r
  <2> USE <1>3
  <2>1. CASE SendHeartbeat(r) \/ HeartbeatEnds(r) \/ Terminate(r)
    <3>1. UNCHANGED <<main[r], self[r]>> /\ MainCall(r)' = MainCall(r) /\ (Up(r)' => Up(r))
      BY <1>1, <2>1 DEF SendHeartbeat, HeartbeatEnds, Terminate, Send, MainCall, Up,
                        receiverVars, TypeOK
    <3> QED
      BY <1>1, <3>1, SettledElsewhere
  <2>2. CASE SendRegister(r)
    <3>1. /\ UNCHANGED <<main, self>> /\ ~Admitted(r) /\ main[r] = "registering"
          /\ MainCall(r)'.op = "register" /\ MainCall(r)'.leg = "sent"
      BY <1>1, <2>2 DEF SendRegister, Send, MainCall, receiverVars, TypeOK, Admitted, InFlight
    <3> QED
      BY <1>1, <3>1 DEF Settled, Own, Holds, InService, Up, Admitted, InFlight, MainCall
  <2>3. CASE RegisterReturns(r)
    <3>1. /\ Admitted(r) /\ main'[r] = "running" /\ self'[r] = MainCall(r).id
          /\ MainCall(r)' = Nobody
      BY <1>1, <2>3 DEF RegisterReturns, Admitted, MainCall, TypeOK
    <3> QED
      BY <3>1 DEF Settled, Own, Holds, InService, Up, Admitted, InFlight, MainCall, Waiting
  <2>4. CASE RegisterFails(r) \/ DeregisterEnds(r)
    <3>1. /\ ~Admitted(r) /\ self' = self /\ MainCall(r)' = Nobody
          /\ main'[r] \in {main[r], "down", "stopping"}
          /\ main'[r] = "down" => main[r] = "registering"
          /\ main'[r] # "running"
      BY <1>1, <2>4 DEF RegisterFails, DeregisterEnds, Admitted, InFlight, MainCall, TypeOK,
                        CallsKnown, Own
    <3> QED
      BY <1>1, <3>1 DEF Settled, Own, Holds, InService, Up, Admitted, InFlight, MainCall, Waiting
  <2>5. CASE Leave(r)
    <3>1. /\ main[r] = "running" /\ main'[r] = "leaving" /\ self' = self
          /\ MainCall(r)'.op = "deregister" /\ MainCall(r)'.id = self[r]
      BY <1>1, <2>5 DEF Leave, Send, MainCall, TypeOK
    <3> QED
      BY <1>1, <3>1 DEF Settled, Own, Holds, InService, Up, Admitted, InFlight, MainCall
  <2>6. CASE Exit(r)
    <3>1. /\ main[r] = "joining" /\ main'[r] = "down" /\ self'[r] = Nobody
          /\ MainCall(r)' = MainCall(r)
      BY <1>1, <2>6 DEF Exit, MainCall, TypeOK
    <3> QED
      BY <1>1, <3>1 DEF Settled, Own, Holds, InService, Up, Admitted, InFlight, MainCall, Waiting
  <2>7. CASE Start(r)
    <3>1. /\ main[r] = "down" /\ main'[r] = "registering" /\ self' = self
          /\ MainCall(r)' = MainCall(r)
      BY <1>1, <2>7 DEF Start, MainCall, TypeOK
    <3> QED
      BY <1>1, <3>1 DEF Settled, Own, Holds, InService, Up, Admitted, InFlight, MainCall, Waiting
  <2>8. CASE Crash(r)
    <3>1. main'[r] = "down" /\ self'[r] = Nobody /\ MainCall(r)' = Nobody
      BY <1>1, <2>8 DEF Crash, MainCall, TypeOK
    <3> QED
      BY <3>1 DEF Settled, Own, Holds, InService, Up, Admitted, InFlight, MainCall, Waiting
  <2>9. CASE StopServing(r)
    <3>1. /\ main[r] = "stopping" /\ main'[r] = "joining" /\ self' = self
          /\ MainCall(r)' = MainCall(r)
      BY <1>1, <2>9 DEF StopServing, MainCall, TypeOK
    <3> QED
      BY <1>1, <3>1 DEF Settled, Own, Holds, InService, Up, Admitted, InFlight, MainCall, Waiting
  <2> QED
    BY <2>1, <2>2, <2>3, <2>4, <2>5, <2>6, <2>7, <2>8, <2>9 DEF Runs
<1> QED
  BY <1>2, <1>3

LEMMA SettledRegistry ==
    ASSUME IdsInv, NEW r \in Receivers,
           Prune \/ RegistryRestart \/ Tick \/ (\E i \in Ids : HandleClaim(i)) \/ UNCHANGED vars
    PROVE  Settled(r)
<1>1. UNCHANGED <<main, self, shutdown>> /\ TypeOK /\ Own(r) /\ <<r, "main">> \in Threads
  BY OwnFacts DEF Prune, RegistryRestart, Tick, HandleClaim, Claim, Release, vars, receiverVars
<1>2. CASE Prune \/ (\E i \in Ids : HandleClaim(i)) \/ UNCHANGED vars
  BY <1>1, <1>2, SettledElsewhere DEF Prune, HandleClaim, Claim, Release, vars, MainCall, Up
<1>3. CASE ~Waiting(<<r, "main">>) /\ (RegistryRestart \/ Tick)
  <2>1. MainCall(r)' = MainCall(r)
    BY <1>1, <1>3 DEF RegistryRestart, Tick, MainCall, Waiting
  <2> QED
    BY <1>1, <2>1, SettledElsewhere DEF Up
<1>4. CASE Waiting(<<r, "main">>) /\ RegistryRestart
  <2>1. MainCall(r) \in Call
    BY <1>1, <1>4 DEF MainCall, Waiting, TypeOK
  <2>2. /\ MainCall(r)'.op = MainCall(r).op /\ MainCall(r)'.id = MainCall(r).id
        /\ MainCall(r)'.leg = "lost"
    BY <1>1, <1>4, <2>1 DEF RegistryRestart, MainCall, Call
  <2> QED
    BY <1>1, <1>4, <2>2, SettledCall
<1>5. CASE Waiting(<<r, "main">>) /\ Tick
  <2>1. MainCall(r) \in Call /\ MainCall(r).due > 0
    BY <1>1, <1>5 DEF Tick, MainCall, Waiting, TypeOK
  <2>2. MainCall(r)' = [MainCall(r) EXCEPT !.due = @ - 1]
    BY <1>1, <1>5 DEF Tick, MainCall
  <2>3. /\ MainCall(r)'.op = MainCall(r).op /\ MainCall(r)'.id = MainCall(r).id
        /\ MainCall(r)'.leg = MainCall(r).leg
    BY <2>1, <2>2 DEF Call
  <2>4. MainCall(r).due - 1 \in 0 .. CallLimit
    BY <2>1 DEF Call
  <2>5. MainCall(r)' \in Call
    BY <2>1, <2>2, <2>4 DEF Call
  <2>6. Waiting(<<r, "main">>)'
    BY <2>5, CallsAssumption DEF Waiting, MainCall
  <2>7. Admitted(r)' = Admitted(r)
    BY <1>5, <2>3, <2>6 DEF Admitted, InFlight, MainCall
  <2> QED
    BY <1>1, <1>5, <2>3, <2>6, <2>7 DEF Settled, Own, Holds, InService, Up
<1> QED
  BY <1>2, <1>3, <1>4, <1>5

\* A registration gives an id that nobody has, and gives nobody else another.
LEMMA Registers ==
    ASSUME IdsInv, NEW t \in Threads, HandleRegister(t)
    PROVE  \E q \in Receivers :
               /\ t = <<q, "main">> /\ Admitted(q)' /\ Holds(q)' \in Fresh
               /\ Holds(q)' \in DOMAIN entries' /\ Own(q)'
               /\ \A r \in Receivers \ {q} : Own(r)' /\ Holds(r)' = Holds(r) /\ Settled(r)
<1>1. /\ TypeOK /\ Waiting(t) /\ calls[t] \in Call /\ calls[t].op = "register"
      /\ UNCHANGED <<main, self, shutdown>>
  BY DEF IdsInv, FreshInv, HandleRegister, InFlight, Waiting, TypeOK, receiverVars
<1>2. PICK q \in Receivers : t = <<q, "main">>
  <2>1. PICK q \in Receivers : t = <<q, "main">> \/ t = <<q, "beat">>
    BY DEF Threads
  <2>2. t # <<q, "beat">>
    BY <1>1, <2>1, OwnFacts DEF CallsKnown, BeatCall
  <2> QED
    BY <2>1, <2>2
<1>3. PICK i \in Fresh : i \in DOMAIN entries' /\ Answer(t, i)
  BY DEF HandleRegister
<1>4. i \in Ids
  BY <1>3 DEF Fresh
<1>5. /\ calls'[t].op = "register" /\ calls'[t].leg = "answered" /\ calls'[t].id = i
      /\ calls'[t] \in Call /\ \A u \in Threads : u # t => calls'[u] = calls[u]
  BY <1>1, <1>3, <1>4 DEF Answer, Call, TypeOK
<1>6. Admitted(q)' /\ Holds(q)' = i
  BY <1>2, <1>5, CallsAssumption DEF Admitted, InFlight, Waiting, Holds, MainCall
<1>7. Own(q)'
  BY <1>1, <1>2, <1>5, OwnFacts DEF Own, MainCall
<1>8. ASSUME NEW r \in Receivers \ {q}
      PROVE  Own(r)' /\ Holds(r)' = Holds(r) /\ Settled(r)
  <2>1. MainCall(r)' = MainCall(r)
    BY <1>2, <1>5, OwnFacts DEF MainCall
  <2>2. Settled(r) /\ Admitted(r)' = Admitted(r)
    BY <1>1, <2>1, OwnFacts, SettledElsewhere DEF Up
  <2> QED
    BY <1>1, <2>1, <2>2 DEF Settled, Holds
<1> QED
  BY <1>2, <1>3, <1>6, <1>7, <1>8

LEMMA IdsNext == IdsInv /\ [Next]_vars => IdsInv'
<1> SUFFICES ASSUME IdsInv, [Next]_vars PROVE IdsInv'
  OBVIOUS
<1>1. FreshInv'
  BY FreshNext DEF IdsInv
<1>2. CASE \A r \in Receivers : Settled(r)
  BY <1>1, <1>2 DEF IdsInv, Settled
<1>3. ASSUME NEW t \in Threads, HandleRegister(t) PROVE IdsInv'
  <2>1. PICK q \in Receivers :
            /\ Holds(q)' \in Fresh /\ Own(q)'
            /\ \A r \in Receivers \ {q} : Own(r)' /\ Holds(r)' = Holds(r)
    BY <1>3, Registers
  <2>2. \A r \in Receivers : Holds(r) \notin Fresh
    BY FreshNobodys DEF IdsInv, FreshInv, Holds, Admitted, InFlight
  <2> QED
    BY <1>1, <2>1, <2>2 DEF IdsInv
<1> QED
  BY <1>2, <1>3, SettledHandle, SettledRuns, SettledRegistry DEF Next, Handle

LEMMA IdsInit == Init => IdsInv
<1> SUFFICES ASSUME Init PROVE IdsInv
  OBVIOUS
<1>1. \A r \in Receivers : ~Waiting(<<r, "main">>) /\ self[r] = Nobody
  BY DEF Init, Threads, Waiting
<1>2. \A r \in Receivers : Own(r) /\ Holds(r) = Nobody
  BY <1>1 DEF Own, Holds, Admitted, InFlight
<1> QED
  BY <1>2, FreshInit DEF IdsInv

\* Faults only take room from the timeout.
LEMMA RoomShrinks ==
    ASSUME TypeOK, [Next]_vars
    PROVE  FreshFor \in Nat /\ FreshFor' \in Nat /\ FreshFor <= FreshFor'
<1>1. Slack \in Nat /\ FreshFor = 2 * MaxDelay + Period + Slack
  BY SlackTyped DEF FreshFor, Slack
<1>2. Slack' \in Nat /\ Slack <= Slack'
  <2>1. CASE faults' = faults
    BY <1>1, <2>1 DEF Slack
  <2>2. CASE faults' = faults + 1
    BY <1>1, <2>2, SlackGrows
  <2> QED
    BY <2>1, <2>2 DEF Next, Handle, HandleRegister, HandleHeartbeat, HandleDeregister, Lose,
       Runs, SendRegister, RegisterReturns, RegisterFails, SendHeartbeat, HeartbeatEnds, Leave,
       DeregisterEnds, Exit, StopServing, Start, Terminate, Crash, HandleClaim, Claim, Release, Prune,
       RegistryRestart, Tick, vars
<1> DEFINE x == Slack'
           y == FreshFor'
<1>3. x \in Nat /\ Slack <= x /\ y = 2 * MaxDelay + Period + x
  BY <1>2 DEF FreshFor, Slack
<1> HIDE DEF x, y
<1>4. FreshFor \in Nat /\ y \in Nat /\ FreshFor <= y
  BY <1>1, <1>3
<1> QED
  BY <1>4 DEF y

\* Only a restart of the registry takes out the id of a receiver that is up, or about to
\* be told that it is registered, as long as the faults leave room in the timeout.
LEMMA StaysListed ==
    ASSUME IdsInv, [Next]_vars, ~RegistryRestart, FreshFor <= Timeout,
           NEW r \in Receivers, InService(r), Holds(r) \in DOMAIN entries
    PROVE  Holds(r) \in DOMAIN entries'
<1>1. /\ TypeOK /\ Holds(r) \in Ids /\ Holds(r) # Nobody
      /\ main[r] \in {"running", "registering"}
  BY OwnFacts, IdsAssumption DEF TypeOK, Up, InService
<1>2. entries[Holds(r)] <= FreshFor
  <2>1. CASE Admitted(r)
    <3>1. MainCall(r).due \in Nat /\ NewIsFresh(r) /\ Slack \in Nat
      BY <1>1, <2>1, CallsTyped, SlackTyped
         DEF Admitted, InFlight, IdsInv, FreshInv, Punctual
    <3>2. entries[Holds(r)] + MainCall(r).due <= MaxDelay /\ entries[Holds(r)] \in Nat
      BY <1>1, <2>1, <3>1, AgesTyped DEF NewIsFresh, Holds, Admitted
    <3>3. FreshFor = 2 * MaxDelay + Period + Slack
      BY DEF FreshFor, Slack
    <3> QED
      BY <3>1, <3>2, <3>3
  <2>2. CASE ~Admitted(r)
    BY <2>2, FreshBounds DEF IdsInv, FreshWhileUp, Holds, InService
  <2> QED
    BY <2>1, <2>2
<1>3. ASSUME NEW t \in Threads, Handle(t) PROVE Holds(r) \in DOMAIN entries'
  <2>1. CASE HandleRegister(t) \/ HandleHeartbeat(t)
    BY <2>1 DEF HandleRegister, HandleHeartbeat
  <2>2. CASE HandleDeregister(t)
    <3>1. PICK q \in Receivers : t = <<q, "main">> \/ t = <<q, "beat">>
      BY DEF Threads
    <3>2. t = <<q, "main">> /\ Waiting(t) /\ MainCall(q).op = "deregister"
      BY <2>2, <3>1, OwnFacts DEF HandleDeregister, InFlight, CallsKnown, MainCall, BeatCall
    <3>3. main[q] = "leaving" /\ MainCall(q).id = self[q] /\ ~Admitted(q)
      BY <3>2, OwnFacts DEF Own
    <3>4. q # r /\ Holds(q) = calls[t].id
      BY <1>1, <3>2, <3>3 DEF Holds, MainCall
    <3>5. calls[t].id # Holds(r)
      BY <1>1, <3>4 DEF IdsInv
    <3> QED
      BY <2>2, <3>5 DEF HandleDeregister, Without, Restrict
  <2> QED
    BY <1>3, <2>1, <2>2 DEF Handle
<1>4. CASE Prune
  <2>1. Holds(r) \notin Stale
    BY <1>1, <1>2, RoomShrinks, AgesTyped DEF Stale
  <2> QED
    BY <1>4, <2>1 DEF Prune, Without, Restrict
<1>5. ASSUME NEW t \in Threads, Lose(t) PROVE entries' = entries
  BY <1>5 DEF Lose, registryVars
<1>6. ASSUME NEW q \in Receivers, Runs(q) \/ StopServing(q) \/ Start(q) \/ Terminate(q) \/ Crash(q)
      PROVE  entries' = entries
  BY <1>6, RunsLocal, EventsLocal DEF registryVars
<1>7. CASE Tick \/ (\E i \in Ids : HandleClaim(i)) \/ UNCHANGED vars
  BY <1>7 DEF Tick, HandleClaim, Claim, Release, vars, registryVars
<1> QED
  BY <1>3, <1>4, <1>5, <1>6, <1>7 DEF Next

\* A receiver that is up loses its entry to no prune, to no other receiver's
\* deregistration and to no claim: only to a restart of the registry, as long as the
\* faults so far leave room for a heartbeat round in the timeout.
OnlyRestartsUnlist ==
    [][\A r \in Receivers :
           Up(r) /\ self[r] \in DOMAIN entries /\ FreshFor <= Timeout
               => self[r] \in DOMAIN entries' \/ RegistryRestart]_vars

THEOREM NothingElseUnlists == Spec => OnlyRestartsUnlist
<1>1. ASSUME IdsInv, [Next]_vars, NEW r \in Receivers, Up(r), self[r] \in DOMAIN entries,
             FreshFor <= Timeout, ~RegistryRestart
      PROVE  self[r] \in DOMAIN entries'
  <2>1. Holds(r) = self[r]
    BY <1>1, OwnFacts DEF Holds, Up
  <2> QED
    BY <1>1, <2>1, StaysListed DEF InService
<1>2. IdsInv /\ [Next]_vars =>
          [\A r \in Receivers :
               Up(r) /\ self[r] \in DOMAIN entries /\ FreshFor <= Timeout
                   => self[r] \in DOMAIN entries' \/ RegistryRestart]_vars
  BY <1>1
<1> QED
  BY <1>2, IdsInit, IdsNext, PTL DEF Spec, OnlyRestartsUnlist

\* A receiver that is up is listed.
ListedWhileUp ==
    \A r \in Receivers : Up(r) /\ FreshFor <= Timeout => self[r] \in DOMAIN entries

\* So is one that is about to be up.
ListedInv ==
    \A r \in Receivers : InService(r) /\ FreshFor <= Timeout => Holds(r) \in DOMAIN entries

LEMMA ListedNext ==
    IdsInv /\ ListedInv /\ [Next /\ ~RegistryRestart]_vars => ListedInv'
<1> SUFFICES ASSUME IdsInv, ListedInv, [Next /\ ~RegistryRestart]_vars,
                    NEW r \in Receivers, InService(r)', FreshFor' <= Timeout
             PROVE  Holds(r)' \in DOMAIN entries'
  BY DEF ListedInv
<1>1. TypeOK /\ [Next]_vars /\ FreshFor <= Timeout
  BY RoomShrinks DEF IdsInv, FreshInv
<1>2. CASE Settled(r) /\ Next /\ ~RegistryRestart
  BY <1>1, <1>2, StaysListed DEF Settled, ListedInv
<1>3. ASSUME NEW t \in Threads, HandleRegister(t), ~RegistryRestart
      PROVE  Holds(r)' \in DOMAIN entries'
  <2>1. PICK q \in Receivers : /\ Holds(q)' \in DOMAIN entries'
                               /\ \A x \in Receivers \ {q} : Settled(x)
    BY <1>3, Registers
  <2> QED
    BY <1>2, <1>3, <2>1 DEF Next, Handle
<1>4. CASE UNCHANGED vars
  <2>1. Settled(r) /\ entries' = entries
    BY <1>4, SettledRegistry DEF vars, registryVars
  <2> QED
    BY <1>1, <2>1 DEF Settled, ListedInv
<1>5. CASE Next /\ ~RegistryRestart
  BY <1>2, <1>3, <1>5, SettledHandle, SettledRuns, SettledRegistry DEF Next, Handle
<1> QED
  BY <1>4, <1>5

\* While the registry does not restart, each receiver that is up is listed, however its
\* calls are delayed and others come and go, as long as the faults leave room for a
\* heartbeat round in the timeout: the restart is the one way to lose a registration
\* that heartbeats keep up.
THEOREM ListedUnlessRestarted ==
    Init /\ [][Next /\ ~RegistryRestart]_vars => []ListedWhileUp
<1>1. Init => ListedInv
  BY DEF Init, ListedInv, InService, Up, Admitted, InFlight, Waiting, Threads
<1>2. IdsInv /\ [Next /\ ~RegistryRestart]_vars => IdsInv'
  BY IdsNext
<1>3. IdsInv /\ ListedInv => ListedWhileUp
  BY OwnFacts DEF ListedInv, ListedWhileUp, InService, Holds, Up
<1> QED
  BY <1>1, <1>2, <1>3, IdsInit, ListedNext, PTL

=============================================================================
