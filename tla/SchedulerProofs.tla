-------------------------- MODULE SchedulerProofs --------------------------
(***************************************************************************)
(* Proofs about the tune scheduler, for every set of requests, ids,        *)
(* windows and tunings and every value of the limits.                      *)
(***************************************************************************)
EXTENDS Scheduler, FiniteSetTheorems, TLAPS

(* Maps.                                                                   *)

\* Map.set: the key is there with its value, every other key is as before.
LEMMA WithMap ==
    ASSUME NEW f, NEW k, NEW v
    PROVE  /\ DOMAIN With(f, k, v) = DOMAIN f \cup {k}
           /\ With(f, k, v)[k] = v
           /\ \A x \in DOMAIN f : x # k => With(f, k, v)[x] = f[x]
BY DEF With

\* Map.delete: the key is gone, every other key is as before.
LEMMA WithoutMap ==
    ASSUME NEW f, NEW k
    PROVE  /\ DOMAIN Without(f, k) = DOMAIN f \ {k}
           /\ \A x \in DOMAIN f : x # k => Without(f, k)[x] = f[x]
BY DEF Without, Restrict

----------------------------------------------------------------------------
(* Type correctness.                                                       *)

LEMMA TypeInit == Init => TypeOK
BY DEF Init, TypeOK, EmptyMap

LEMMA TypeNext == TypeOK /\ [Next]_vars => TypeOK'
<1> SUFFICES ASSUME TypeOK, [Next]_vars PROVE TypeOK'
  OBVIOUS
<1> USE DEF TypeOK, Channel, Session
<1>1. ASSUME NEW w \in Windows, SetWindow(w) PROVE TypeOK'
  BY <1>1 DEF SetWindow
<1>2. ASSUME NEW r \in Requests, NEW d \in Definition, TuneRefused(r, d) PROVE TypeOK'
  BY <1>2 DEF TuneRefused
<1>3. ASSUME NEW r \in Requests, NEW d \in Definition, NEW c \in ChannelIds,
             NEW s \in SessionIds, TuneReuse(r, d, c, s)
      PROVE TypeOK'
  BY <1>3 DEF TuneReuse, With, First, Reusable, Matching
<1>4. ASSUME NEW r \in Requests, NEW d \in Definition, NEW c \in ChannelIds,
             TuneBegin(r, d, c)
      PROVE TypeOK'
  BY <1>4, WindowsAssumption DEF TuneBegin, With, Placeholder
<1>5. ASSUME NEW r \in Requests, NEW s \in SessionIds, ProvisionOk(r, s)
      PROVE TypeOK'
  BY <1>5 DEF ProvisionOk, With, Without, Restrict
<1>6. ASSUME NEW r \in Requests, ProvisionFail(r) PROVE TypeOK'
  BY <1>6 DEF ProvisionFail, Without, Restrict
<1>7. ASSUME NEW s \in SessionIds, CloseSession(s) PROVE TypeOK'
  BY <1>7 DEF CloseSession, Without, Restrict
<1>8. CASE Restart
  BY <1>8 DEF Restart, EmptyMap
<1>9. CASE UNCHANGED vars
  BY <1>9 DEF vars
<1>10. QED
  BY <1>1, <1>2, <1>3, <1>4, <1>5, <1>6, <1>7, <1>8, <1>9
     DEF Next, Tune, ProvisionSettles

\* The stores keep well-formed channels and sessions under every handler.
THEOREM TypeCorrect == Spec => []TypeOK
BY TypeInit, TypeNext, PTL DEF Spec

----------------------------------------------------------------------------
(* Who owns a placeholder, and what a session is attached to.  Neither is  *)
(* inductive alone: the catch block removes a channel, and only because    *)
(* that channel is a placeholder does it leave the sessions alone.         *)

AttachInv == TypeOK /\ PlaceholdersOwned /\ SessionsOnActiveChannels

LEMMA AttachInit == Init => AttachInv
BY TypeInit DEF Init, AttachInv, PlaceholdersOwned, SessionsOnActiveChannels, Starting,
   Active, EmptyMap, IsInjective

LEMMA AttachNext == AttachInv /\ [Next]_vars => AttachInv'
<1> SUFFICES ASSUME AttachInv, [Next]_vars
             PROVE  PlaceholdersOwned' /\ SessionsOnActiveChannels'
  BY TypeNext DEF AttachInv
<1> USE DEF AttachInv, TypeOK, Channel, Session, PlaceholdersOwned,
            SessionsOnActiveChannels, Starting, Active, IsInjective
<1>1. ASSUME NEW w \in Windows, SetWindow(w)
      PROVE  PlaceholdersOwned' /\ SessionsOnActiveChannels'
  BY <1>1 DEF SetWindow
<1>2. ASSUME NEW r \in Requests, NEW d \in Definition, TuneRefused(r, d)
      PROVE  PlaceholdersOwned' /\ SessionsOnActiveChannels'
  BY <1>2 DEF TuneRefused
<1>3. ASSUME NEW r \in Requests, NEW d \in Definition, NEW c \in ChannelIds,
             NEW s \in SessionIds, TuneReuse(r, d, c, s)
      PROVE  PlaceholdersOwned' /\ SessionsOnActiveChannels'
  BY <1>3 DEF TuneReuse, With, First, Reusable, Matching
<1>4. ASSUME NEW r \in Requests, NEW d \in Definition, NEW c \in ChannelIds,
             TuneBegin(r, d, c)
      PROVE  PlaceholdersOwned' /\ SessionsOnActiveChannels'
  BY <1>4 DEF TuneBegin, With, Placeholder
<1>5. ASSUME NEW r \in Requests, NEW s \in SessionIds, ProvisionOk(r, s)
      PROVE  PlaceholdersOwned' /\ SessionsOnActiveChannels'
  BY <1>5 DEF ProvisionOk, With, Without, Restrict
<1>6. ASSUME NEW r \in Requests, ProvisionFail(r)
      PROVE  PlaceholdersOwned' /\ SessionsOnActiveChannels'
  BY <1>6 DEF ProvisionFail, Without, Restrict
<1>7. ASSUME NEW s \in SessionIds, CloseSession(s)
      PROVE  PlaceholdersOwned' /\ SessionsOnActiveChannels'
  BY <1>7 DEF CloseSession, Without, Restrict
<1>8. CASE Restart
  BY <1>8 DEF Restart, EmptyMap
<1>9. CASE UNCHANGED vars
  BY <1>9 DEF vars
<1>10. QED
  BY <1>1, <1>2, <1>3, <1>4, <1>5, <1>6, <1>7, <1>8, <1>9
     DEF Next, Tune, ProvisionSettles

LEMMA AttachAlways == Spec => []AttachInv
BY AttachInit, AttachNext, PTL DEF Spec

\* Every placeholder is awaited by exactly one suspended tune call, and every
\* suspended call finds its placeholder when it resumes.
THEOREM PlaceholdersAlwaysOwned == Spec => []PlaceholdersOwned
BY AttachAlways, PTL DEF AttachInv

\* No session is ever attached to a channel that is missing or not yet active.
THEOREM SessionsAlwaysOnActiveChannels == Spec => []SessionsOnActiveChannels
BY AttachAlways, PTL DEF AttachInv

----------------------------------------------------------------------------
(* The listener counters against the session store.                        *)

\* Attaching a session to channel c adds one listener to c and to no other.
LEMMA SessionAdded ==
    ASSUME NEW s, NEW c, IsFiniteSet(DOMAIN sessions), s \notin DOMAIN sessions,
           sessions' = With(sessions, s, [channelId |-> c])
    PROVE  /\ IsFiniteSet(DOMAIN sessions')
           /\ \A x : /\ Cardinality(Listeners(x)) \in Nat
                     /\ Cardinality(Listeners(x))' =
                          IF x = c THEN Cardinality(Listeners(x)) + 1
                                   ELSE Cardinality(Listeners(x))
<1>1. DOMAIN sessions' = DOMAIN sessions \cup {s}
  BY DEF With
<1>2. IsFiniteSet(DOMAIN sessions')
  BY <1>1, FS_AddElement
<1>3. ASSUME NEW x
      PROVE  /\ Cardinality(Listeners(x)) \in Nat
             /\ Cardinality(Listeners(x))' =
                  IF x = c THEN Cardinality(Listeners(x)) + 1
                           ELSE Cardinality(Listeners(x))
  <2>1. Listeners(x)' = IF x = c THEN Listeners(x) \cup {s} ELSE Listeners(x)
    BY DEF Listeners, With
  <2>2. s \notin Listeners(x) /\ Listeners(x) \in SUBSET (DOMAIN sessions)
    BY DEF Listeners
  <2>3. IsFiniteSet(Listeners(x))
    BY <2>2, FS_Subset
  <2>4. Cardinality(Listeners(x)) \in Nat
    BY <2>3, FS_CardinalityType
  <2>5. Cardinality(Listeners(x) \cup {s}) = Cardinality(Listeners(x)) + 1
    BY <2>2, <2>3, FS_AddElement
  <2>6. QED
    BY <2>1, <2>4, <2>5
<1>4. QED
  BY <1>2, <1>3

\* Closing a session takes one listener from its channel and from no other.
LEMMA SessionRemoved ==
    ASSUME NEW s \in DOMAIN sessions, IsFiniteSet(DOMAIN sessions),
           sessions' = Without(sessions, s)
    PROVE  /\ IsFiniteSet(DOMAIN sessions')
           /\ Cardinality(Listeners(sessions[s].channelId)) > 0
           /\ \A x : /\ Cardinality(Listeners(x)) \in Nat
                     /\ Cardinality(Listeners(x))' =
                          IF x = sessions[s].channelId
                          THEN Cardinality(Listeners(x)) - 1
                          ELSE Cardinality(Listeners(x))
<1> DEFINE c == sessions[s].channelId
<1>1. DOMAIN sessions' = DOMAIN sessions \ {s}
  BY DEF Without, Restrict
<1>2. IsFiniteSet(DOMAIN sessions')
  BY <1>1, FS_RemoveElement
<1>3. ASSUME NEW x
      PROVE  /\ IsFiniteSet(Listeners(x))
             /\ Cardinality(Listeners(x)) \in Nat
             /\ Cardinality(Listeners(x))' =
                  IF x = c THEN Cardinality(Listeners(x)) - 1
                           ELSE Cardinality(Listeners(x))
  <2>1. Listeners(x)' = IF x = c THEN Listeners(x) \ {s} ELSE Listeners(x)
    BY DEF Listeners, Without, Restrict
  <2>2. Listeners(x) \in SUBSET (DOMAIN sessions)
    BY DEF Listeners
  <2>3. IsFiniteSet(Listeners(x))
    BY <2>2, FS_Subset
  <2>4. Cardinality(Listeners(x)) \in Nat
    BY <2>3, FS_CardinalityType
  <2>5. x = c => Cardinality(Listeners(x) \ {s}) = Cardinality(Listeners(x)) - 1
    BY <2>3, FS_RemoveElement DEF Listeners
  <2>6. QED
    BY <2>1, <2>3, <2>4, <2>5
<1>4. Cardinality(Listeners(c)) > 0
  <2>1. Listeners(c) # {}
    BY DEF Listeners
  <2>2. Cardinality(Listeners(c)) # 0
    BY <1>3, <2>1, FS_EmptySet
  <2>3. QED
    BY <1>3, <2>2
<1>5. QED
  BY <1>2, <1>3, <1>4

ListenInv == StoresFinite /\ ListenersMatchSessions

LEMMA ListenInit == Init => ListenInv
BY FS_EmptySet DEF Init, ListenInv, StoresFinite, ListenersMatchSessions, EmptyMap

LEMMA ListenNext == AttachInv /\ ListenInv /\ [Next]_vars => ListenInv'
<1> SUFFICES ASSUME AttachInv, ListenInv, [Next]_vars PROVE ListenInv'
  OBVIOUS
<1> USE DEF AttachInv, ListenInv, StoresFinite, ListenersMatchSessions, TypeOK,
            Channel, Session
<1>1. ASSUME UNCHANGED <<channels, sessions>> PROVE ListenInv'
  BY <1>1 DEF Listeners
<1>2. ASSUME NEW w \in Windows, SetWindow(w) PROVE ListenInv'
  BY <1>1, <1>2 DEF SetWindow
<1>3. ASSUME NEW r \in Requests, NEW d \in Definition, TuneRefused(r, d)
      PROVE  ListenInv'
  BY <1>1, <1>3 DEF TuneRefused
<1>4. ASSUME NEW r \in Requests, NEW d \in Definition, NEW c \in ChannelIds,
             NEW s \in SessionIds, TuneReuse(r, d, c, s)
      PROVE  ListenInv'
  <2>1. /\ IsFiniteSet(DOMAIN sessions')
        /\ \A x : /\ Cardinality(Listeners(x)) \in Nat
                  /\ Cardinality(Listeners(x))' =
                       IF x = c THEN Cardinality(Listeners(x)) + 1
                                ELSE Cardinality(Listeners(x))
    BY <1>4, SessionAdded DEF TuneReuse
  <2>2. c \in DOMAIN channels
    BY <1>4 DEF TuneReuse, First, Reusable, Matching
  <2>3. QED
    BY <1>4, <2>1, <2>2 DEF TuneReuse
<1>5. ASSUME NEW r \in Requests, NEW d \in Definition, NEW c \in ChannelIds,
             TuneBegin(r, d, c)
      PROVE  ListenInv'
  <2>1. DOMAIN channels' = DOMAIN channels \cup {c}
    BY <1>5 DEF TuneBegin, With
  <2>2. IsFiniteSet(DOMAIN channels')
    BY <2>1, FS_AddElement
  <2>3. Listeners(c) = {} /\ \A x : Listeners(x)' = Listeners(x)
    BY <1>5 DEF TuneBegin, Listeners, SessionsOnActiveChannels, Active
  <2>4. Cardinality({}) = 0
    BY FS_EmptySet
  <2>5. QED
    BY <1>5, <2>1, <2>2, <2>3, <2>4 DEF TuneBegin, With, Placeholder
<1>6. ASSUME NEW r \in Requests, NEW s \in SessionIds, ProvisionOk(r, s)
      PROVE  ListenInv'
  <2>1. /\ IsFiniteSet(DOMAIN sessions')
        /\ \A x : /\ Cardinality(Listeners(x)) \in Nat
                  /\ Cardinality(Listeners(x))' =
                       IF x = pending[r] THEN Cardinality(Listeners(x)) + 1
                                         ELSE Cardinality(Listeners(x))
    BY <1>6, SessionAdded DEF ProvisionOk
  <2>2. pending[r] \in DOMAIN channels
    BY <1>6 DEF ProvisionOk, PlaceholdersOwned, Starting
  <2>3. QED
    BY <1>6, <2>1, <2>2 DEF ProvisionOk
<1>7. ASSUME NEW r \in Requests, ProvisionFail(r) PROVE ListenInv'
  <2>1. DOMAIN channels' = DOMAIN channels \ {pending[r]}
    BY <1>7 DEF ProvisionFail, Without, Restrict
  <2>2. IsFiniteSet(DOMAIN channels')
    <3>1. DOMAIN channels \ {pending[r]} \in SUBSET (DOMAIN channels)
      OBVIOUS
    <3>2. QED
      BY <2>1, <3>1, FS_Subset
  <2>3. \A x : Listeners(x)' = Listeners(x)
    BY <1>7 DEF ProvisionFail, Listeners
  <2>4. QED
    BY <1>7, <2>1, <2>2, <2>3 DEF ProvisionFail, Without, Restrict
<1>8. ASSUME NEW s \in SessionIds, CloseSession(s) PROVE ListenInv'
  <2>1. /\ IsFiniteSet(DOMAIN sessions')
        /\ Cardinality(Listeners(sessions[s].channelId)) > 0
        /\ \A x : /\ Cardinality(Listeners(x)) \in Nat
                  /\ Cardinality(Listeners(x))' =
                       IF x = sessions[s].channelId
                       THEN Cardinality(Listeners(x)) - 1
                       ELSE Cardinality(Listeners(x))
    BY <1>8, SessionRemoved DEF CloseSession
  <2>2. sessions[s].channelId \in DOMAIN channels
    BY <1>8 DEF CloseSession, SessionsOnActiveChannels, Active
  <2>3. QED
    BY <1>8, <2>1, <2>2 DEF CloseSession
<1>9. CASE Restart
  BY <1>9, FS_EmptySet DEF Restart, EmptyMap
<1>10. CASE UNCHANGED vars
  BY <1>1, <1>10 DEF vars
<1>11. QED
  BY <1>2, <1>3, <1>4, <1>5, <1>6, <1>7, <1>8, <1>9, <1>10
     DEF Next, Tune, ProvisionSettles

LEMMA ListenAlways == Spec => []ListenInv
BY AttachAlways, ListenInit, ListenNext, PTL DEF Spec

\* A channel's listener counter is always its number of sessions.
THEOREM ListenersAlwaysMatch == Spec => []ListenersMatchSessions
BY ListenAlways, PTL DEF ListenInv

----------------------------------------------------------------------------
(* Admission.  The policy looks at active channels only; what it does not  *)
(* see is the placeholders, and there are as many as suspended tune calls. *)

BoundInv ==
    /\ PlaceholdersCounted
    /\ ChannelsBounded
    /\ WaterfallsBounded
    /\ DuplicatesBounded

\* Any set of channels is at most its active ones and all the placeholders.
LEMMA ActiveAndStarting ==
    ASSUME TypeOK, StoresFinite, NEW S \in SUBSET (DOMAIN channels)
    PROVE  /\ IsFiniteSet(S) /\ Cardinality(S) \in Nat
           /\ Cardinality(S \cap Active) \in Nat /\ Cardinality(Starting) \in Nat
           /\ Cardinality(S) <= Cardinality(S \cap Active) + Cardinality(Starting)
<1>1. /\ IsFiniteSet(S) /\ IsFiniteSet(Active) /\ IsFiniteSet(Starting)
      /\ IsFiniteSet(S \cap Active) /\ IsFiniteSet(S \cap Starting)
      /\ Cardinality(S \cap Starting) <= Cardinality(Starting)
  <2>1. /\ Active \in SUBSET (DOMAIN channels)
        /\ Starting \in SUBSET (DOMAIN channels)
        /\ S \cap Active \in SUBSET S
        /\ S \cap Starting \in SUBSET Starting
    BY DEF Active, Starting
  <2>2. IsFiniteSet(S) /\ IsFiniteSet(Active) /\ IsFiniteSet(Starting)
    BY <2>1, FS_Subset DEF StoresFinite
  <2>3. QED
    BY <2>1, <2>2, FS_Subset
<1>2. S = (S \cap Active) \cup (S \cap Starting)
  BY DEF Active, Starting, TypeOK, Channel
<1>3. (S \cap Active) \cap (S \cap Starting) = {}
  BY DEF Active, Starting
<1>4. Cardinality(S) = Cardinality(S \cap Active) + Cardinality(S \cap Starting)
                         - Cardinality({})
  BY <1>1, <1>2, <1>3, FS_Union
<1>5. /\ Cardinality(S) \in Nat /\ Cardinality(Starting) \in Nat
      /\ Cardinality(S \cap Active) \in Nat /\ Cardinality(S \cap Starting) \in Nat
  BY <1>1, FS_CardinalityType
<1>6. Cardinality({}) = 0
  BY FS_EmptySet
<1>7. QED
  BY <1>1, <1>4, <1>5, <1>6

\* While one call slot is free there are fewer placeholders than slots.
LEMMA FreeSlot ==
    ASSUME TypeOK, PlaceholdersCounted, NEW r \in Requests, r \notin DOMAIN pending
    PROVE  /\ Cardinality(Requests) \in Nat /\ Cardinality(Starting) \in Nat
           /\ Cardinality(Starting) < Cardinality(Requests)
<1>1. DOMAIN pending \in SUBSET Requests
  BY DEF TypeOK
<1>2. IsFiniteSet(DOMAIN pending) /\ Cardinality(DOMAIN pending) <= Cardinality(Requests)
  BY <1>1, RequestsAssumption, FS_Subset
<1>3. Cardinality(DOMAIN pending) # Cardinality(Requests)
  BY <1>1, RequestsAssumption, FS_Subset
<1>4. Cardinality(DOMAIN pending) \in Nat /\ Cardinality(Requests) \in Nat
  BY <1>2, RequestsAssumption, FS_CardinalityType
<1>5. QED
  BY <1>2, <1>3, <1>4 DEF PlaceholdersCounted

\* Removing channels can only help each of the bounds.
LEMMA FewerChannels ==
    ASSUME NEW S, NEW T \in SUBSET S, IsFiniteSet(S)
    PROVE  /\ Cardinality(T) \in Nat /\ Cardinality(S) \in Nat
           /\ Cardinality(T) <= Cardinality(S)
BY FS_Subset, FS_CardinalityType

LEMMA BoundInit == Init => BoundInv
<1> SUFFICES ASSUME Init PROVE BoundInv
  OBVIOUS
<1>1. Cardinality({}) = 0 /\ Cardinality(Requests) \in Nat
  BY FS_EmptySet, FS_CardinalityType, RequestsAssumption
<1>2. /\ DOMAIN channels = {} /\ DOMAIN pending = {} /\ Starting = {}
      /\ Waterfall(DOMAIN channels) = {}
      /\ \A w, d : Matching(w, d) = {}
  BY DEF Init, EmptyMap, Starting, Waterfall, Matching
<1>3. QED
  BY <1>1, <1>2 DEF BoundInv, PlaceholdersCounted, ChannelsBounded,
     WaterfallsBounded, DuplicatesBounded

\* A step that adds no channel and redefines none keeps the three bounds.
LEMMA NoNewChannel ==
    ASSUME StoresFinite, BoundInv, DOMAIN channels' \subseteq DOMAIN channels,
           \A c \in DOMAIN channels' : /\ channels'[c].windowId = channels[c].windowId
                                       /\ channels'[c].definition = channels[c].definition
    PROVE  ChannelsBounded' /\ WaterfallsBounded' /\ DuplicatesBounded'
<1> DEFINE W == Waterfall(DOMAIN channels)
<1> USE DEF StoresFinite, BoundInv
<1>0. Cardinality(Requests) \in Nat
  BY RequestsAssumption, FS_CardinalityType
<1>1. ChannelsBounded'
  <2>1. /\ Cardinality(DOMAIN channels') \in Nat /\ Cardinality(DOMAIN channels) \in Nat
        /\ Cardinality(DOMAIN channels') <= Cardinality(DOMAIN channels)
    BY FewerChannels
  <2>2. QED
    BY <1>0, <2>1, LimitsAssumption DEF ChannelsBounded
<1>2. WaterfallsBounded'
  <2>1. W' \in SUBSET W /\ W \in SUBSET (DOMAIN channels)
    BY DEF Waterfall
  <2>2. IsFiniteSet(W)
    BY <2>1, FS_Subset
  <2>3. /\ Cardinality(W') \in Nat /\ Cardinality(W) \in Nat
        /\ Cardinality(W') <= Cardinality(W)
    BY <2>1, <2>2, FewerChannels
  <2>4. W' # {} => W # {}
    BY <2>1
  <2>5. QED
    BY <1>0, <2>3, <2>4, LimitsAssumption DEF WaterfallsBounded
<1>3. ASSUME NEW w \in Windows, NEW d \in Definition
      PROVE  Cardinality(Matching(w, d))' <= Cardinality(Requests)
  <2>1. /\ Matching(w, d)' \in SUBSET Matching(w, d)
        /\ Matching(w, d) \in SUBSET (DOMAIN channels)
    BY DEF Matching
  <2>2. IsFiniteSet(Matching(w, d))
    BY <2>1, FS_Subset
  <2>3. /\ Cardinality(Matching(w, d)') \in Nat /\ Cardinality(Matching(w, d)) \in Nat
        /\ Cardinality(Matching(w, d)') <= Cardinality(Matching(w, d))
    BY <2>1, <2>2, FewerChannels
  <2>4. QED
    BY <1>0, <2>3 DEF DuplicatesBounded
<1>4. QED
  BY <1>1, <1>2, <1>3 DEF DuplicatesBounded

\* Admission of a new channel keeps the three bounds.
LEMMA AdmissionBounded ==
    ASSUME TypeOK, StoresFinite, BoundInv,
           NEW r \in Requests, NEW d \in Definition, NEW c \in ChannelIds,
           TuneBegin(r, d, c)
    PROVE  ChannelsBounded' /\ WaterfallsBounded' /\ DuplicatesBounded'
<1> DEFINE K == Cardinality(Requests)
           W == Waterfall(DOMAIN channels)
<1> USE DEF StoresFinite, BoundInv
<1>1. K \in Nat /\ Cardinality(Starting) \in Nat /\ Cardinality(Starting) < K
  BY FreeSlot DEF TuneBegin
<1>2. /\ DOMAIN channels' = DOMAIN channels \cup {c} /\ c \notin DOMAIN channels
      /\ channels'[c] = Placeholder(activeWindow, d)
      /\ \A x \in DOMAIN channels : channels'[x] = channels[x]
  BY DEF TuneBegin, With
<1>3. ChannelsBounded'
  <2>1. /\ IsFiniteSet(DOMAIN channels)
        /\ Cardinality(DOMAIN channels) \in Nat
        /\ Cardinality((DOMAIN channels) \cap Active) \in Nat
        /\ Cardinality(DOMAIN channels)
             <= Cardinality((DOMAIN channels) \cap Active) + Cardinality(Starting)
    BY ActiveAndStarting
  <2>2. (DOMAIN channels) \cap Active = Active
    BY DEF Active
  <2>3. Cardinality(DOMAIN channels') = Cardinality(DOMAIN channels) + 1
    BY <1>2, <2>1, FS_AddElement
  <2>4. Cardinality((DOMAIN channels) \cap Active) < MaxUniqueChannels
    BY <2>2 DEF TuneBegin, Allowed
  <2>5. Cardinality(DOMAIN channels') < MaxUniqueChannels + K
    <3> HIDE DEF K
    <3> QED
      BY <1>1, <2>1, <2>2, <2>3, <2>4, LimitsAssumption
  <2>6. QED
    BY <2>5 DEF ChannelsBounded
<1>4. WaterfallsBounded'
  <2>1. W' = IF d.waterfall THEN W \cup {c} ELSE W
    BY <1>2 DEF Waterfall, Placeholder
  <2>2. c \notin W /\ W \in SUBSET (DOMAIN channels)
    BY <1>2 DEF Waterfall
  <2>3. /\ IsFiniteSet(W) /\ Cardinality(W) \in Nat
        /\ Cardinality(W \cap Active) \in Nat
        /\ Cardinality(W) <= Cardinality(W \cap Active) + Cardinality(Starting)
    BY <2>2, ActiveAndStarting
  <2>4. CASE d.waterfall
    <3>1. W \cap Active = Waterfall(Active)
      BY DEF Waterfall, Active
    <3>2. Cardinality(W \cap Active) < WaterfallQuota
      BY <2>4, <3>1 DEF TuneBegin, Allowed
    <3>3. Cardinality(W \cup {c}) = Cardinality(W) + 1
      BY <2>2, <2>3, FS_AddElement
    <3>4. Cardinality(W \cup {c}) < WaterfallQuota + K
      <4> HIDE DEF K, W
      <4> QED
        BY <1>1, <2>3, <3>2, <3>3, LimitsAssumption
    <3>5. QED
      BY <2>1, <2>4, <3>4 DEF WaterfallsBounded
  <2>5. CASE ~d.waterfall
    BY <2>1, <2>5 DEF WaterfallsBounded
  <2>6. QED
    BY <2>4, <2>5
<1>5. ASSUME NEW w \in Windows, NEW e \in Definition
      PROVE  Cardinality(Matching(w, e))' <= K
  <2> DEFINE M == Matching(w, e)
  <2>1. c \notin M /\ M \in SUBSET (DOMAIN channels)
    BY <1>2 DEF Matching
  <2>2. /\ IsFiniteSet(M) /\ Cardinality(M) \in Nat
        /\ Cardinality(M \cap Active) \in Nat
        /\ Cardinality(M) <= Cardinality(M \cap Active) + Cardinality(Starting)
    BY <2>1, ActiveAndStarting
  <2>3. CASE w = activeWindow /\ e.tuning = d.tuning
    <3>1. M' = M \cup {c}
      BY <1>2, <2>3 DEF Matching, Placeholder
    <3>2. M \cap Active = {}
      BY <2>3 DEF TuneBegin, Reusable, Matching
    <3>3. Cardinality(M \cap Active) = 0
      BY <3>2, FS_EmptySet
    <3>4. Cardinality(M \cup {c}) = Cardinality(M) + 1
      BY <2>1, <2>2, FS_AddElement
    <3>5. QED
      BY <1>1, <2>2, <3>1, <3>3, <3>4
  <2>4. CASE ~(w = activeWindow /\ e.tuning = d.tuning)
    <3>1. M' = M
      BY <1>2, <2>4 DEF Matching, Placeholder
    <3>2. QED
      BY <3>1 DEF DuplicatesBounded
  <2>5. QED
    BY <2>3, <2>4
<1>6. QED
  BY <1>3, <1>4, <1>5 DEF DuplicatesBounded

LEMMA BoundNext == AttachInv /\ StoresFinite /\ BoundInv /\ [Next]_vars => BoundInv'
<1> SUFFICES ASSUME AttachInv, StoresFinite, BoundInv, [Next]_vars PROVE BoundInv'
  OBVIOUS
<1> USE DEF AttachInv, TypeOK, Channel
<1>1. ASSUME DOMAIN channels' \subseteq DOMAIN channels,
             \A c \in DOMAIN channels' :
                 /\ channels'[c].windowId = channels[c].windowId
                 /\ channels'[c].definition = channels[c].definition,
             PlaceholdersCounted'
      PROVE  BoundInv'
  BY <1>1, NoNewChannel DEF BoundInv
<1>2. IsFiniteSet(Starting) /\ IsFiniteSet(DOMAIN pending)
  BY FS_Subset, RequestsAssumption DEF Starting, StoresFinite
<1>3. ASSUME DOMAIN channels' = DOMAIN channels, pending' = pending,
             \A c \in DOMAIN channels' :
                 /\ channels'[c].windowId = channels[c].windowId
                 /\ channels'[c].definition = channels[c].definition
                 /\ channels'[c].status = channels[c].status
      PROVE  BoundInv'
  <2>1. Starting' = Starting
    BY <1>3 DEF Starting
  <2>2. QED
    BY <1>1, <1>3, <2>1 DEF BoundInv, PlaceholdersCounted
<1>4. ASSUME NEW w \in Windows, SetWindow(w) PROVE BoundInv'
  BY <1>3, <1>4 DEF SetWindow
<1>5. ASSUME NEW r \in Requests, NEW d \in Definition, TuneRefused(r, d)
      PROVE  BoundInv'
  BY <1>3, <1>5 DEF TuneRefused
<1>6. ASSUME NEW r \in Requests, NEW d \in Definition, NEW c \in ChannelIds,
             NEW s \in SessionIds, TuneReuse(r, d, c, s)
      PROVE  BoundInv'
  BY <1>3, <1>6 DEF TuneReuse
<1>7. ASSUME NEW r \in Requests, NEW d \in Definition, NEW c \in ChannelIds,
             TuneBegin(r, d, c)
      PROVE  BoundInv'
  <2>1. Starting' = Starting \cup {c} /\ c \notin Starting
    BY <1>7 DEF TuneBegin, Starting, With, Placeholder
  <2>2. DOMAIN pending' = DOMAIN pending \cup {r} /\ r \notin DOMAIN pending
    BY <1>7 DEF TuneBegin, With
  <2>3. PlaceholdersCounted'
    <3>1. /\ Cardinality(Starting \cup {c}) = Cardinality(Starting) + 1
          /\ Cardinality(DOMAIN pending \cup {r}) = Cardinality(DOMAIN pending) + 1
      BY <1>2, <2>1, <2>2, FS_AddElement
    <3>2. QED
      BY <2>1, <2>2, <3>1 DEF BoundInv, PlaceholdersCounted
  <2>4. QED
    BY <1>7, <2>3, AdmissionBounded DEF BoundInv
<1>8. ASSUME NEW r \in Requests, r \in DOMAIN pending,
             Starting' = Starting \ {pending[r]}, pending' = Without(pending, r)
      PROVE  PlaceholdersCounted'
  <2>1. pending[r] \in Starting
    BY <1>8 DEF PlaceholdersOwned
  <2>2. DOMAIN pending' = DOMAIN pending \ {r}
    BY <1>8 DEF Without, Restrict
  <2>3. /\ Cardinality(Starting \ {pending[r]}) = Cardinality(Starting) - 1
        /\ Cardinality(DOMAIN pending \ {r}) = Cardinality(DOMAIN pending) - 1
    BY <1>2, <1>8, <2>1, FS_RemoveElement
  <2>4. QED
    BY <1>8, <2>2, <2>3 DEF BoundInv, PlaceholdersCounted
<1>9. ASSUME NEW r \in Requests, NEW s \in SessionIds, ProvisionOk(r, s)
      PROVE  BoundInv'
  <2>1. Starting' = Starting \ {pending[r]}
    BY <1>9 DEF ProvisionOk, Starting, PlaceholdersOwned
  <2>2. PlaceholdersCounted'
    BY <1>8, <1>9, <2>1 DEF ProvisionOk
  <2>3. QED
    BY <1>1, <1>9, <2>2 DEF ProvisionOk
<1>10. ASSUME NEW r \in Requests, ProvisionFail(r) PROVE BoundInv'
  <2>1. Starting' = Starting \ {pending[r]}
    BY <1>10 DEF ProvisionFail, Starting, Without, Restrict
  <2>2. PlaceholdersCounted'
    BY <1>8, <1>10, <2>1 DEF ProvisionFail
  <2>3. QED
    BY <1>1, <1>10, <2>2 DEF ProvisionFail, Without, Restrict
<1>11. ASSUME NEW s \in SessionIds, CloseSession(s) PROVE BoundInv'
  BY <1>3, <1>11 DEF CloseSession
<1>12. CASE Restart
  <2>1. DOMAIN channels' = {} /\ DOMAIN pending' = {} /\ Starting' = {}
    BY <1>12 DEF Restart, EmptyMap, Starting
  <2>2. QED
    BY <1>1, <2>1 DEF PlaceholdersCounted
<1>13. CASE UNCHANGED vars
  BY <1>3, <1>13 DEF vars
<1>14. QED
  BY <1>4, <1>5, <1>6, <1>7, <1>9, <1>10, <1>11, <1>12, <1>13
     DEF Next, Tune, ProvisionSettles

LEMMA BoundAlways == Spec => []BoundInv
<1>1. AttachInv /\ ListenInv => StoresFinite
  BY DEF ListenInv
<1>2. QED
  BY <1>1, AttachAlways, ListenAlways, BoundInit, BoundNext, PTL DEF Spec

\* Tune calls suspended together overshoot maxUniqueChannels by less than their
\* number, whatever the limit, the requests and the failures.
THEOREM ChannelsAlwaysBounded == Spec => []ChannelsBounded
BY BoundAlways, PTL DEF BoundInv

\* The same overshoot bounds the waterfall channels.
THEOREM WaterfallsAlwaysBounded == Spec => []WaterfallsBounded
BY BoundAlways, PTL DEF BoundInv

\* A window and tuning never gets more channels than there are calls in flight.
THEOREM DuplicatesAlwaysBounded == Spec => []DuplicatesBounded
BY BoundAlways, PTL DEF BoundInv

\* A scheduler that is asked one thing at a time respects the limit exactly.
THEOREM SequentialLimit ==
    Cardinality(Requests) = 1 /\ MaxUniqueChannels > 0
        => (Spec => [](Cardinality(DOMAIN channels) <= MaxUniqueChannels))
<1> SUFFICES ASSUME Cardinality(Requests) = 1, MaxUniqueChannels > 0
             PROVE  Spec => [](Cardinality(DOMAIN channels) <= MaxUniqueChannels)
  OBVIOUS
<1>1. StoresFinite /\ ChannelsBounded
        => Cardinality(DOMAIN channels) <= MaxUniqueChannels
  <2> SUFFICES ASSUME StoresFinite, ChannelsBounded
               PROVE  Cardinality(DOMAIN channels) <= MaxUniqueChannels
    OBVIOUS
  <2>1. Cardinality(DOMAIN channels) \in Nat
    BY FS_CardinalityType DEF StoresFinite
  <2>2. CASE DOMAIN channels = {}
    BY <2>2, FS_EmptySet, LimitsAssumption
  <2>3. CASE DOMAIN channels # {}
    BY <2>1, <2>3, LimitsAssumption DEF ChannelsBounded
  <2>4. QED
    BY <2>2, <2>3
<1>2. ListenInv /\ BoundInv => StoresFinite /\ ChannelsBounded
  BY DEF ListenInv, BoundInv
<1>3. QED
  BY <1>1, <1>2, ListenAlways, BoundAlways, PTL

\* A scheduler that is asked one thing at a time shares as the integration tests
\* expect: a window and tuning never has two active channels.  Only tune calls
\* that overlap at the await can duplicate a channel.
THEOREM SequentialSharing ==
    Cardinality(Requests) = 1 => (Spec => []OneChannelPerTuning)
<1> SUFFICES ASSUME Cardinality(Requests) = 1
             PROVE  Spec => []OneChannelPerTuning
  OBVIOUS
<1>1. StoresFinite /\ DuplicatesBounded => OneChannelPerTuning
  <2> SUFFICES ASSUME StoresFinite, DuplicatesBounded,
                      NEW w \in Windows, NEW d \in Definition
               PROVE  Cardinality(Reusable(w, d)) <= 1
    BY DEF OneChannelPerTuning
  <2>1. /\ Matching(w, d) \in SUBSET (DOMAIN channels)
        /\ Reusable(w, d) \in SUBSET Matching(w, d)
    BY DEF Matching, Reusable
  <2>2. IsFiniteSet(Matching(w, d))
    BY <2>1, FS_Subset DEF StoresFinite
  <2>3. /\ IsFiniteSet(Reusable(w, d))
        /\ Cardinality(Reusable(w, d)) <= Cardinality(Matching(w, d))
    BY <2>1, <2>2, FS_Subset
  <2>4. Cardinality(Matching(w, d)) \in Nat /\ Cardinality(Reusable(w, d)) \in Nat
    BY <2>2, <2>3, FS_CardinalityType
  <2>5. Cardinality(Matching(w, d)) <= 1
    BY DEF DuplicatesBounded
  <2>6. QED
    BY <2>3, <2>4, <2>5
<1>2. ListenInv /\ BoundInv => StoresFinite /\ DuplicatesBounded
  BY DEF ListenInv, BoundInv
<1>3. QED
  BY <1>1, <1>2, ListenAlways, BoundAlways, PTL

----------------------------------------------------------------------------
(* The scheduler implements SessionLeases: each handler is one step of it  *)
(* or leaves the leases, the waiting requests and the answers alone.       *)

asked == [r \in DOMAIN pending |-> Stream(pending[r])]

lease == [s \in DOMAIN sessions |-> Stream(sessions[s].channelId)]

\* Channels keep to the band of their window; with that every stream is legal.
InBandInv ==
    \A c \in DOMAIN channels :
        channels[c].definition.tuning \in Serves[channels[c].windowId]

LEMMA InBandInit == Init => InBandInv
BY DEF Init, InBandInv, EmptyMap

LEMMA InBandNext == AttachInv /\ InBandInv /\ [Next]_vars => InBandInv'
<1> SUFFICES ASSUME AttachInv, InBandInv, [Next]_vars PROVE InBandInv'
  OBVIOUS
<1> USE DEF AttachInv, TypeOK, Channel, InBandInv
<1>1. ASSUME DOMAIN channels' \subseteq DOMAIN channels,
             \A c \in DOMAIN channels' :
                 /\ channels'[c].windowId = channels[c].windowId
                 /\ channels'[c].definition = channels[c].definition
      PROVE  InBandInv'
  BY <1>1
<1>2. ASSUME NEW w \in Windows, SetWindow(w) PROVE InBandInv'
  BY <1>2 DEF SetWindow
<1>3. ASSUME NEW r \in Requests, NEW d \in Definition, TuneRefused(r, d)
      PROVE  InBandInv'
  BY <1>3 DEF TuneRefused
<1>4. ASSUME NEW r \in Requests, NEW d \in Definition, NEW c \in ChannelIds,
             NEW s \in SessionIds, TuneReuse(r, d, c, s)
      PROVE  InBandInv'
  BY <1>1, <1>4 DEF TuneReuse
<1>5. ASSUME NEW r \in Requests, NEW d \in Definition, NEW c \in ChannelIds,
             TuneBegin(r, d, c)
      PROVE  InBandInv'
  BY <1>5 DEF TuneBegin, Allowed, With, Placeholder
<1>6. ASSUME NEW r \in Requests, NEW s \in SessionIds, ProvisionOk(r, s)
      PROVE  InBandInv'
  BY <1>1, <1>6 DEF ProvisionOk
<1>7. ASSUME NEW r \in Requests, ProvisionFail(r) PROVE InBandInv'
  BY <1>1, <1>7 DEF ProvisionFail, Without, Restrict
<1>8. ASSUME NEW s \in SessionIds, CloseSession(s) PROVE InBandInv'
  BY <1>1, <1>8 DEF CloseSession
<1>9. CASE Restart
  BY <1>9 DEF Restart, EmptyMap
<1>10. CASE UNCHANGED vars
  BY <1>10 DEF vars
<1>11. QED
  BY <1>2, <1>3, <1>4, <1>5, <1>6, <1>7, <1>8, <1>9, <1>10
     DEF Next, Tune, ProvisionSettles

LEMMA InBandAlways == Spec => []InBandInv
BY AttachAlways, InBandInit, InBandNext, PTL DEF Spec

LEMMA LeasesInit == Init => Leases!Init
BY DEF Init, Leases!Init, Leases!Nothing, EmptyMap, Stream

\* The stream of every key in a store is one the abstract specification knows.
LEMMA StreamLegal ==
    ASSUME TypeOK, InBandInv, NEW c \in DOMAIN channels
    PROVE  Stream(c) \in Leases!Streams
BY DEF TypeOK, InBandInv, Channel, Definition, Stream, Leases!Streams

LEMMA LeasesNext == AttachInv /\ InBandInv /\ [Next]_vars => [Leases!Next]_(Leases!vars)
<1> SUFFICES ASSUME AttachInv, InBandInv, [Next]_vars
             PROVE  [Leases!Next]_(Leases!vars)
  OBVIOUS
<1> USE DEF AttachInv, TypeOK, Channel, Session, asked, lease
<1>1. /\ \A s \in DOMAIN sessions : sessions[s].channelId \in Active
      /\ \A r \in DOMAIN pending : pending[r] \in Starting
      /\ Active \subseteq DOMAIN channels /\ Starting \subseteq DOMAIN channels
      /\ Active \cap Starting = {}
  BY DEF SessionsOnActiveChannels, PlaceholdersOwned, Active, Starting
<1>2. \A c \in DOMAIN channels :
          c \in DOMAIN channels' /\ channels'[c].windowId = channels[c].windowId
            /\ channels'[c].definition = channels[c].definition
          => Stream(c)' = Stream(c)
  BY DEF Stream
<1>3. ASSUME NEW w \in Windows, SetWindow(w) PROVE Leases!Announce(w)
  BY <1>3 DEF SetWindow, Leases!Announce, Stream
<1>4. ASSUME NEW r \in Requests, NEW d \in Definition, TuneRefused(r, d)
      PROVE  Leases!Refuse(r)
  <2>1. asked' = asked /\ lease' = lease
    BY <1>4 DEF TuneRefused, Stream
  <2>2. DOMAIN pending \ {r} = DOMAIN pending
    BY <1>4 DEF TuneRefused
  <2>3. Leases!Without(asked, r) = asked
    BY <2>2 DEF Leases!Without
  <2>4. QED
    BY <1>4, <2>1, <2>3 DEF TuneRefused, Leases!Refuse
<1>5. ASSUME NEW r \in Requests, NEW d \in Definition, NEW c \in ChannelIds,
             NEW s \in SessionIds, TuneReuse(r, d, c, s)
      PROVE  \E st \in Leases!Streams : Leases!GrantAtOnce(r, st, s)
  <2>1. c \in DOMAIN channels /\ channels[c].windowId = activeWindow
    BY <1>5 DEF TuneReuse, First, Reusable, Matching
  <2>2. \A x \in DOMAIN channels : Stream(x)' = Stream(x)
    BY <1>2, <1>5 DEF TuneReuse
  <2>3. asked' = asked
    BY <1>1, <1>5, <2>2 DEF TuneReuse
  <2>4. lease' = Leases!With(lease, s, Stream(c))
    BY <1>1, <1>5, <2>1, <2>2 DEF TuneReuse, With, Leases!With
  <2>5. Stream(c) \in Leases!Streams /\ Stream(c).windowId = activeWindow
    BY <2>1, StreamLegal DEF Stream
  <2>6. Leases!GrantAtOnce(r, Stream(c), s)
    BY <1>5, <2>3, <2>4, <2>5 DEF TuneReuse, Leases!GrantAtOnce
  <2>7. QED
    BY <2>5, <2>6
<1>6. ASSUME NEW r \in Requests, NEW d \in Definition, NEW c \in ChannelIds,
             TuneBegin(r, d, c)
      PROVE  \E st \in Leases!Streams : Leases!Ask(r, st)
  <2> DEFINE st == [windowId |-> activeWindow, tuning |-> d.tuning]
  <2>1. \A x \in DOMAIN channels : Stream(x)' = Stream(x)
    BY <1>2, <1>6 DEF TuneBegin, With
  <2>2. Stream(c)' = st
    BY <1>6 DEF TuneBegin, With, Placeholder, Stream
  <2>3. lease' = lease
    BY <1>1, <1>6, <2>1 DEF TuneBegin
  <2>4. asked' = Leases!With(asked, r, st)
    BY <1>1, <1>6, <2>1, <2>2 DEF TuneBegin, With, Leases!With
  <2>5. st \in Leases!Streams
    BY <1>6 DEF TuneBegin, Allowed, Definition, Leases!Streams
  <2>6. Leases!Ask(r, st)
    BY <1>6, <2>3, <2>4, <2>5 DEF TuneBegin, Leases!Ask
  <2>7. QED
    BY <2>5, <2>6
<1>7. ASSUME NEW r \in Requests, NEW s \in SessionIds, ProvisionOk(r, s)
      PROVE  Leases!Grant(r, s)
  <2>1. \A x \in DOMAIN channels : Stream(x)' = Stream(x)
    BY <1>2, <1>7 DEF ProvisionOk
  <2>2. asked' = Leases!Without(asked, r)
    BY <1>1, <1>7, <2>1 DEF ProvisionOk, Without, Restrict, Leases!Without
  <2>3. lease' = Leases!With(lease, s, asked[r])
    BY <1>1, <1>7, <2>1 DEF ProvisionOk, With, Leases!With
  <2>4. QED
    BY <1>7, <2>2, <2>3 DEF ProvisionOk, Leases!Grant
<1>8. ASSUME NEW r \in Requests, ProvisionFail(r) PROVE Leases!Refuse(r)
  <2>1. \A x \in DOMAIN channels \ {pending[r]} : Stream(x)' = Stream(x)
    BY <1>2, <1>8 DEF ProvisionFail, Without, Restrict
  <2>2. asked' = Leases!Without(asked, r)
    BY <1>1, <1>8, <2>1 DEF ProvisionFail, Without, Restrict, Leases!Without,
       PlaceholdersOwned, IsInjective
  <2>3. lease' = lease
    BY <1>1, <1>8, <2>1 DEF ProvisionFail
  <2>4. QED
    BY <1>8, <2>2, <2>3 DEF ProvisionFail, Leases!Refuse
<1>9. ASSUME NEW s \in SessionIds, CloseSession(s) PROVE Leases!End(s)
  <2>1. \A x \in DOMAIN channels : Stream(x)' = Stream(x)
    BY <1>2, <1>9 DEF CloseSession
  <2>2. asked' = asked
    BY <1>1, <1>9, <2>1 DEF CloseSession
  <2>3. lease' = Leases!Without(lease, s)
    BY <1>1, <1>9, <2>1 DEF CloseSession, Without, Restrict, Leases!Without
  <2>4. QED
    BY <1>9, <2>2, <2>3 DEF CloseSession, Leases!End
<1>10. CASE Restart
  BY <1>10 DEF Restart, EmptyMap, Leases!Forget, Leases!Nothing, Leases!Next
<1>11. CASE UNCHANGED vars
  BY <1>11 DEF vars, Leases!vars, Stream
<1>12. QED
  BY <1>3, <1>4, <1>5, <1>6, <1>7, <1>8, <1>9, <1>10, <1>11
     DEF Next, Tune, ProvisionSettles, Leases!Next

\* The scheduler, with its channels hidden, is an implementation of the session
\* leases: every grant is for exactly what was asked, in the window it was asked
\* for, and nobody else's step touches it.
THEOREM SchedulerImplementsLeases == Spec => ImplementsLeases
BY LeasesInit, LeasesNext, AttachAlways, InBandAlways, PTL
   DEF Spec, ImplementsLeases, Leases!Spec

----------------------------------------------------------------------------
(* What a session keeps.                                                   *)

\* A session goes on serving its stream through every step but its own close
\* and a restart: not through another caller's tune, its refusal or failure,
\* another session's close (though they share the channel), or a new window.
KeptUntilClosed ==
    [][\A s \in DOMAIN sessions :
           \/ CloseSession(s)
           \/ Restart
           \/ /\ s \in DOMAIN sessions'
              /\ sessions'[s].channelId \in Active'
              /\ Stream(sessions[s].channelId)' = Stream(sessions[s].channelId)]_vars

LEMMA KeptNext ==
    ASSUME AttachInv, [Next]_vars, NEW s \in DOMAIN sessions,
           ~CloseSession(s), ~Restart
    PROVE  /\ s \in DOMAIN sessions'
           /\ sessions'[s].channelId \in Active'
           /\ Stream(sessions[s].channelId)' = Stream(sessions[s].channelId)
<1> DEFINE c == sessions[s].channelId
           Kept == /\ s \in DOMAIN sessions'
                   /\ sessions'[s].channelId \in Active'
                   /\ Stream(sessions[s].channelId)' = Stream(sessions[s].channelId)
<1>1. c \in Active /\ c \in DOMAIN channels /\ AttachInv'
  BY AttachNext DEF AttachInv, SessionsOnActiveChannels, Active
<1>2. ASSUME s \in DOMAIN sessions', sessions'[s] = sessions[s],
             channels'[c].windowId = channels[c].windowId,
             channels'[c].definition = channels[c].definition
      PROVE  Kept
  BY <1>1, <1>2 DEF AttachInv, SessionsOnActiveChannels, Stream
<1> HIDE DEF Kept
<1> USE DEF AttachInv, TypeOK, Channel, Session
<1>3. ASSUME NEW w \in Windows, SetWindow(w) PROVE Kept
  BY <1>2, <1>3 DEF SetWindow
<1>4. ASSUME NEW r \in Requests, NEW d \in Definition, TuneRefused(r, d) PROVE Kept
  BY <1>2, <1>4 DEF TuneRefused
<1>5. ASSUME NEW r \in Requests, NEW d \in Definition, NEW e \in ChannelIds,
             NEW t \in SessionIds, TuneReuse(r, d, e, t)
      PROVE  Kept
  BY <1>1, <1>2, <1>5 DEF TuneReuse, With
<1>6. ASSUME NEW r \in Requests, NEW d \in Definition, NEW e \in ChannelIds,
             TuneBegin(r, d, e)
      PROVE  Kept
  BY <1>1, <1>2, <1>6 DEF TuneBegin, With
<1>7. ASSUME NEW r \in Requests, NEW t \in SessionIds, ProvisionOk(r, t) PROVE Kept
  BY <1>1, <1>2, <1>7 DEF ProvisionOk, With
<1>8. ASSUME NEW r \in Requests, ProvisionFail(r) PROVE Kept
  <2>1. c # pending[r]
    BY <1>1, <1>8 DEF ProvisionFail, PlaceholdersOwned, Starting, Active
  <2>2. QED
    BY <1>1, <1>2, <1>8, <2>1 DEF ProvisionFail, Without, Restrict
<1>9. ASSUME NEW t \in SessionIds, CloseSession(t) PROVE Kept
  <2>1. s # t
    BY <1>9
  <2>2. QED
    BY <1>1, <1>2, <1>9, <2>1 DEF CloseSession, Without, Restrict
<1>10. ASSUME UNCHANGED vars PROVE Kept
  BY <1>2, <1>10 DEF vars
<1>11. Kept
  BY <1>3, <1>4, <1>5, <1>6, <1>7, <1>8, <1>9, <1>10
     DEF Next, Tune, ProvisionSettles
<1>12. QED
  BY <1>11 DEF Kept

\* Nobody but its own close and a restart ends a session or changes what it
\* listens to, and until then its channel is never torn down under it.
THEOREM SessionsKeptUntilClosed == Spec => KeptUntilClosed
<1>1. AttachInv /\ [Next]_vars
        => [\A s \in DOMAIN sessions :
               \/ CloseSession(s)
               \/ Restart
               \/ /\ s \in DOMAIN sessions'
                  /\ sessions'[s].channelId \in Active'
                  /\ Stream(sessions[s].channelId)'
                       = Stream(sessions[s].channelId)]_vars
  BY KeptNext
<1>2. QED
  BY <1>1, AttachAlways, PTL DEF Spec, KeptUntilClosed
============================================================================
