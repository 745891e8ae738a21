----------------------------- MODULE Scheduler -----------------------------
(***************************************************************************)
(* The tune scheduler (apps/scheduler): channels, sessions, admission.     *)
(*                                                                         *)
(* The process is single-threaded JavaScript.  A handler runs without      *)
(* interruption up to its `await', and the only await of tune() is the     *)
(* call to the channel service, so a tune that needs a new channel is two  *)
(* steps, TuneBegin and ProvisionOk or ProvisionFail, with any number of   *)
(* other handlers in between.  Every other handler is one step.            *)
(*                                                                         *)
(* A tuning stands for a frequency, mode and bandwidth, the three fields   *)
(* definitionsMatch compares.  The squelch, the audio flag, the user's     *)
(* name, the timestamps and the health record are carried by the code but  *)
(* never read by it and are left out; `reusable' is always true.           *)
(***************************************************************************)
EXTENDS Naturals, FiniteSets, Functions

CONSTANTS
    Requests,          \* tune calls that may be in flight at one time
    ChannelIds,        \* channel identifiers; an id is fresh while not in the store
    SessionIds,        \* session identifiers, likewise
    Windows,           \* receiver windows the window engine may announce
    Tunings,           \* frequency, mode and bandwidth of a request
    Serves,            \* Serves[w]: the tunings in w's service band
    MaxUniqueChannels, \* SchedulerConfig.maxUniqueChannels
    MaxTotalSessions,  \* SchedulerConfig.maxTotalSessions
    WaterfallQuota,    \* SchedulerConfig.waterfallQuota
    NoWindow           \* `activeWindow' before the first PUT /window

ASSUME RequestsAssumption == IsFiniteSet(Requests)
ASSUME WindowsAssumption == NoWindow \notin Windows
ASSUME ServesAssumption == Serves \in [Windows -> SUBSET Tunings]
ASSUME LimitsAssumption ==
    /\ MaxUniqueChannels \in Nat
    /\ MaxTotalSessions \in Nat
    /\ WaterfallQuota \in Nat

VARIABLES
    activeWindow, \* the window of the last PUT /window
    channels,     \* ChannelStore.channels, a map from ids to channels
    precedes,     \* the insertion order of that map, which `find' follows
    sessions,     \* SessionStore.sessions, a map from ids to sessions
    pending,      \* the channel awaited by each suspended tune call
    reply         \* the last answer to each request slot

vars == <<activeWindow, channels, precedes, sessions, pending, reply>>

Definition == [tuning : Tunings, waterfall : BOOLEAN]

Channel == [windowId : Windows, definition : Definition,
            status : {"starting", "active"}, listenerCount : Nat]

Session == [channelId : ChannelIds]

\* A map with key k set to v, as Map.set leaves it.
With(f, k, v) == [x \in DOMAIN f \cup {k} |-> IF x = k THEN v ELSE f[x]]

\* A map without key k, as Map.delete leaves it.
Without(f, k) == Restrict(f, DOMAIN f \ {k})

EmptyMap == [x \in {} |-> {}]

TypeOK ==
    /\ activeWindow \in Windows \cup {NoWindow}
    /\ DOMAIN channels \subseteq ChannelIds
    /\ \A c \in DOMAIN channels : channels[c] \in Channel
    /\ precedes \subseteq (DOMAIN channels) \X (DOMAIN channels)
    /\ DOMAIN sessions \subseteq SessionIds
    /\ \A s \in DOMAIN sessions : sessions[s] \in Session
    /\ DOMAIN pending \subseteq Requests
    /\ \A r \in DOMAIN pending : pending[r] \in ChannelIds
    /\ reply \in [Requests -> {"none", "granted", "refused"}]

----------------------------------------------------------------------------
(* The stores' queries and the admission policy.                           *)

Active == {c \in DOMAIN channels : channels[c].status = "active"}

Starting == {c \in DOMAIN channels : channels[c].status = "starting"}

Waterfall(S) == {c \in S : channels[c].definition.waterfall}

\* Mutant of Matching: the window is not compared.
MatchingAnyWindow(w, d) == {c \in DOMAIN channels : channels[c].definition.tuning = d.tuning}

Matching(w, d) == {c \in DOMAIN channels : /\ channels[c].windowId = w
                                           /\ channels[c].definition.tuning = d.tuning}

\* Mutants of Reusable: a channel that nobody listens to is passed over; the status
\* is not tested.
ReusableListened(w, d) == {c \in Matching(w, d) \cap Active : channels[c].listenerCount > 0}

ReusableStarting(w, d) == Matching(w, d)

Reusable(w, d) == Matching(w, d) \cap Active

\* The element of S that Array.find meets first.
First(c, S) == c \in S /\ \A e \in S \ {c} : <<c, e>> \in precedes

\* Mutant of Allowed: the channel limit is off by one.
AllowedOneMore(w, d) ==
    /\ d.tuning \in Serves[w]
    /\ Cardinality(Active) <= MaxUniqueChannels
    /\ Cardinality(DOMAIN sessions) < MaxTotalSessions
    /\ d.waterfall => Cardinality(Waterfall(Active)) < WaterfallQuota

Allowed(w, d) ==
    /\ d.tuning \in Serves[w]
    /\ Cardinality(Active) < MaxUniqueChannels
    /\ Cardinality(DOMAIN sessions) < MaxTotalSessions
    /\ d.waterfall => Cardinality(Waterfall(Active)) < WaterfallQuota

Placeholder(w, d) ==
    [windowId |-> w, definition |-> d, status |-> "starting", listenerCount |-> 0]

----------------------------------------------------------------------------

Init ==
    /\ activeWindow = NoWindow
    /\ channels = EmptyMap
    /\ precedes = {}
    /\ sessions = EmptyMap
    /\ pending = EmptyMap
    /\ reply = [r \in Requests |-> "none"]

\* PUT /window: the body replaces the active window, whatever it was.
SetWindow(w) ==
    /\ activeWindow' = w
    /\ UNCHANGED <<channels, precedes, sessions, pending, reply>>

\* tune() refuses: no window, or no channel to reuse and the policy says no.
TuneRefused(r, d) ==
    /\ r \notin DOMAIN pending
    /\ \/ activeWindow = NoWindow
       \/ /\ activeWindow # NoWindow
          /\ Reusable(activeWindow, d) = {}
          /\ ~Allowed(activeWindow, d)
    /\ reply' = [reply EXCEPT ![r] = "refused"]
    /\ UNCHANGED <<activeWindow, channels, precedes, sessions, pending>>

\* Mutant of TuneReuse: the listener is not counted.
TuneReuseUncounted(r, d, c, s) ==
    /\ r \notin DOMAIN pending
    /\ activeWindow # NoWindow
    /\ First(c, Reusable(activeWindow, d))
    /\ s \notin DOMAIN sessions
    /\ sessions' = With(sessions, s, [channelId |-> c])
    /\ reply' = [reply EXCEPT ![r] = "granted"]
    /\ UNCHANGED <<activeWindow, channels, precedes, pending>>

\* tune() attaches a new session to an active channel; the policy is not asked.
TuneReuse(r, d, c, s) ==
    /\ r \notin DOMAIN pending
    /\ activeWindow # NoWindow
    /\ First(c, Reusable(activeWindow, d))
    /\ s \notin DOMAIN sessions
    /\ sessions' = With(sessions, s, [channelId |-> c])
    /\ channels' = [channels EXCEPT ![c].listenerCount = @ + 1]
    /\ reply' = [reply EXCEPT ![r] = "granted"]
    /\ UNCHANGED <<activeWindow, precedes, pending>>

\* tune() admits a new channel, stores its placeholder and suspends.
TuneBegin(r, d, c) ==
    /\ r \notin DOMAIN pending
    /\ activeWindow # NoWindow
    /\ Reusable(activeWindow, d) = {}
    /\ Allowed(activeWindow, d)
    /\ c \notin DOMAIN channels
    /\ channels' = With(channels, c, Placeholder(activeWindow, d))
    /\ precedes' = precedes \cup ((DOMAIN channels) \X {c})
    /\ pending' = With(pending, r, c)
    /\ reply' = [reply EXCEPT ![r] = "none"]
    /\ UNCHANGED <<activeWindow, sessions>>

\* The channel service accepted the channel: tune() resumes and answers.
ProvisionOk(r, s) ==
    /\ r \in DOMAIN pending
    /\ s \notin DOMAIN sessions
    /\ channels' = [channels EXCEPT ![pending[r]].status = "active",
                                    ![pending[r]].listenerCount = @ + 1]
    /\ sessions' = With(sessions, s, [channelId |-> pending[r]])
    /\ pending' = Without(pending, r)
    /\ reply' = [reply EXCEPT ![r] = "granted"]
    /\ UNCHANGED <<activeWindow, precedes>>

\* Mutant of ProvisionFail: the placeholder is left behind.
ProvisionFailKept(r) ==
    /\ r \in DOMAIN pending
    /\ pending' = Without(pending, r)
    /\ reply' = [reply EXCEPT ![r] = "refused"]
    /\ UNCHANGED <<activeWindow, channels, precedes, sessions>>

\* The channel service refused, or could not be reached: the catch block.
ProvisionFail(r) ==
    /\ r \in DOMAIN pending
    /\ channels' = Without(channels, pending[r])
    /\ precedes' = {p \in precedes : p[1] # pending[r] /\ p[2] # pending[r]}
    /\ pending' = Without(pending, r)
    /\ reply' = [reply EXCEPT ![r] = "refused"]
    /\ UNCHANGED <<activeWindow, sessions>>

\* Mutant of CloseSession: the listener is taken away twice, without a floor.
CloseSessionTwice(s) ==
    /\ s \in DOMAIN sessions
    /\ sessions' = Without(sessions, s)
    /\ channels' = [channels EXCEPT ![sessions[s].channelId].listenerCount = @ - 2]
    /\ UNCHANGED <<activeWindow, precedes, pending, reply>>

\* DELETE /sessions/:id of a known session (an unknown one changes nothing).
CloseSession(s) ==
    /\ s \in DOMAIN sessions
    /\ sessions' = Without(sessions, s)
    /\ channels' = [channels EXCEPT ![sessions[s].channelId].listenerCount =
                        IF @ > 0 THEN @ - 1 ELSE 0]
    /\ UNCHANGED <<activeWindow, precedes, pending, reply>>

\* The process dies and its container is restarted: nothing is persisted, and
\* the callers of suspended tune calls see their connection close.
Restart ==
    /\ activeWindow' = NoWindow
    /\ channels' = EmptyMap
    /\ precedes' = {}
    /\ sessions' = EmptyMap
    /\ pending' = EmptyMap
    /\ reply' = [r \in Requests |-> "none"]

Tune(r, d) ==
    \/ TuneRefused(r, d)
    \/ \E c \in ChannelIds : TuneBegin(r, d, c)
    \/ \E c \in ChannelIds, s \in SessionIds : TuneReuse(r, d, c, s)

\* The awaited fetch settles, one way or the other.  It has no timeout of its own, and
\* nothing below relies on its ever settling.
ProvisionSettles(r) == ProvisionFail(r) \/ \E s \in SessionIds : ProvisionOk(r, s)

Next ==
    \/ \E w \in Windows : SetWindow(w)
    \/ \E r \in Requests, d \in Definition : Tune(r, d)
    \/ \E r \in Requests : ProvisionSettles(r)
    \/ \E s \in SessionIds : CloseSession(s)
    \/ Restart

Spec == Init /\ [][Next]_vars

----------------------------------------------------------------------------
(* Safety.                                                                 *)

Listeners(c) == {s \in DOMAIN sessions : sessions[s].channelId = c}

\* The listener counter of a channel, kept up to date by three separate
\* handlers, is the number of sessions the other store has on that channel.
ListenersMatchSessions ==
    \A c \in DOMAIN channels : channels[c].listenerCount = Cardinality(Listeners(c))

\* Both stores stay finite, so the counts the policy reads are numbers.
StoresFinite == IsFiniteSet(DOMAIN channels) /\ IsFiniteSet(DOMAIN sessions)

\* A session is attached to a channel that exists and is active, never to a
\* placeholder whose provisioning may still fail, nor to a removed channel.
SessionsOnActiveChannels ==
    \A s \in DOMAIN sessions : sessions[s].channelId \in Active

\* Across the await: a placeholder belongs to exactly one suspended tune call,
\* a suspended call's placeholder is still in the store, nobody listens to it.
PlaceholdersOwned ==
    /\ \A r \in DOMAIN pending :
           /\ pending[r] \in Starting
           /\ channels[pending[r]].listenerCount = 0
    /\ \A c \in Starting : \E r \in DOMAIN pending : pending[r] = c
    /\ IsInjective(pending)

\* There are as many placeholders as suspended tune calls.
PlaceholdersCounted == Cardinality(Starting) = Cardinality(DOMAIN pending)

\* Admission reads the number of active channels before the await, so calls
\* that are suspended together overshoot maxUniqueChannels, by at most the
\* number of calls in flight less one: one call at a time never does.
ChannelsBounded ==
    DOMAIN channels # {} =>
        Cardinality(DOMAIN channels) < MaxUniqueChannels + Cardinality(Requests)

\* The same for the waterfall quota.
WaterfallsBounded ==
    Waterfall(DOMAIN channels) # {} =>
        Cardinality(Waterfall(DOMAIN channels)) < WaterfallQuota + Cardinality(Requests)

\* Channels of one window and tuning: at most one per call in flight, however
\* many calls there were, because none is begun once one of them is active.
DuplicatesBounded ==
    \A w \in Windows, d \in Definition :
        Cardinality(Matching(w, d)) <= Cardinality(Requests)

\* The reuse the integration tests expect of two users on one frequency: a
\* window and tuning has one active channel.  Calls in flight together break it.
OneChannelPerTuning ==
    \A w \in Windows, d \in Definition : Cardinality(Reusable(w, d)) <= 1

----------------------------------------------------------------------------
(* What callers are promised.                                              *)

Stream(c) ==
    [windowId |-> channels[c].windowId, tuning |-> channels[c].definition.tuning]

Leases == INSTANCE SessionLeases WITH
    window <- activeWindow,
    asked  <- [r \in DOMAIN pending |-> Stream(pending[r])],
    lease  <- [s \in DOMAIN sessions |-> Stream(sessions[s].channelId)],
    reply  <- reply

\* Seen through its sessions, the scheduler grants each request exactly the
\* stream it asked for in the window it was judged against, and no later step
\* of another caller, nor a change of window, moves or ends a session.
ImplementsLeases == Leases!Spec
============================================================================
