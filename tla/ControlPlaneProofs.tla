------------------------- MODULE ControlPlaneProofs -------------------------
(***************************************************************************)
(* Proofs about ControlPlane, for every set of calls, windows and sessions:*)
(* type correctness, NewestServed, ClosedMeansGone and OrphansBounded; how *)
(* far the scheduler's sessions and those its callers hold can differ, and *)
(* that the scheduler's part moves only as SessionLeases lets it.          *)
(***************************************************************************)
EXTENDS ControlPlane, FiniteSetTheorems, TLAPS

(* The calls after a step.                                                 *)

\* Call k was answered a, or dropped since nobody hears it; the others stay as
\* far as somebody waits for them.
LEMMA AnsweredCalls ==
    ASSUME TypeOK, NEW k \in DOMAIN calls, NEW a \in Answer, Answered(k, a)
    PROVE  /\ DOMAIN calls' \subseteq DOMAIN calls
           /\ \A x \in DOMAIN calls' :
                  /\ calls'[x] \in Call
                  /\ x # k => calls'[x] = calls[x]
                  /\ x = k => /\ calls[x].heard /\ calls'[x].heard
                              /\ calls'[x].op = calls[x].op
                              /\ calls'[x].session = calls[x].session
                              /\ calls'[x].request = "over" /\ calls'[x].answer = a
           /\ calls[k].heard => k \in DOMAIN calls'
           /\ \A x \in DOMAIN calls \ {k} :
                  calls[x].heard \/ calls[x].request # "over" => x \in DOMAIN calls'
<1> DEFINE f == [calls EXCEPT ![k].request = "over",
                              ![k].answer = IF calls[k].heard THEN a ELSE @]
<1>1. calls[k] \in Call /\ \A x \in DOMAIN calls : calls[x] \in Call
  BY DEF TypeOK
<1>2. DOMAIN f = DOMAIN calls /\ \A x \in DOMAIN calls \ {k} : f[x] = calls[x]
  OBVIOUS
<1>3. /\ f[k] \in Call
      /\ f[k].heard = calls[k].heard /\ f[k].op = calls[k].op
      /\ f[k].session = calls[k].session /\ f[k].request = "over"
      /\ calls[k].heard => f[k].answer = a
  BY <1>1 DEF Call
<1>4. calls' = Kept(f)
  BY DEF Answered
<1> HIDE DEF f
<1>5. /\ DOMAIN calls' = {x \in DOMAIN f : f[x].heard \/ f[x].request # "over"}
      /\ \A x \in DOMAIN calls' : calls'[x] = f[x]
  BY <1>4 DEF Kept
<1> QED
  BY <1>1, <1>2, <1>3, <1>5

\* The connection of call k broke: it is no longer heard, and dropped unless the
\* scheduler still has or gets its request.
LEMMA BrokenCalls ==
    ASSUME TypeOK, NEW k \in Calls, Break(k)
    PROVE  /\ DOMAIN calls' \subseteq DOMAIN calls
           /\ \A x \in DOMAIN calls' :
                  /\ calls'[x] \in Call
                  /\ x # k => calls'[x] = calls[x]
                  /\ x = k => /\ ~calls'[x].heard
                              /\ calls'[x].op = calls[x].op
                              /\ calls'[x].session = calls[x].session
                              /\ calls'[x].request = calls[x].request
                              /\ calls'[x].request # "over"
                              /\ calls'[x].answer = Says("none", Nobody)
           /\ calls[k].request = "pending" => k \in DOMAIN calls'
           /\ \A x \in DOMAIN calls \ {k} :
                  calls[x].heard \/ calls[x].request # "over" => x \in DOMAIN calls'
<1>1. k \in DOMAIN calls /\ \A x \in DOMAIN calls : calls[x] \in Call
  BY DEF TypeOK, Break
<1>2. PICK arrives \in BOOLEAN :
          calls' = Kept([calls EXCEPT
              ![k].heard = FALSE, ![k].answer = Says("none", Nobody),
              ![k].request = IF @ = "coming" /\ ~arrives THEN "over" ELSE @])
  BY DEF Break
<1> DEFINE f == [calls EXCEPT
              ![k].heard = FALSE, ![k].answer = Says("none", Nobody),
              ![k].request = IF @ = "coming" /\ ~arrives THEN "over" ELSE @]
<1>3. DOMAIN f = DOMAIN calls /\ \A x \in DOMAIN calls \ {k} : f[x] = calls[x]
  OBVIOUS
<1>4. /\ f[k] \in Call /\ f[k].answer = Says("none", Nobody)
      /\ f[k].heard = FALSE /\ f[k].op = calls[k].op /\ f[k].session = calls[k].session
      /\ f[k].request # "over" => f[k].request = calls[k].request
      /\ calls[k].request = "pending" => f[k].request = "pending"
  BY <1>1 DEF Call, Answer, Says
<1> HIDE DEF f
<1>5. /\ DOMAIN calls' = {x \in DOMAIN f : f[x].heard \/ f[x].request # "over"}
      /\ \A x \in DOMAIN calls' : calls'[x] = f[x]
  BY <1>2 DEF Kept, f
<1> QED
  BY <1>1, <1>3, <1>4, <1>5

\* A caller begins call k.
LEMMA NewCalls ==
    ASSUME TypeOK, NEW k \in Calls, k \notin DOMAIN calls,
           NEW op \in {"tune", "close"}, NEW s \in SessionIds \cup {Nobody},
           calls' = With(calls, k, NewCall(op, s))
    PROVE  /\ DOMAIN calls' = DOMAIN calls \cup {k}
           /\ \A x \in DOMAIN calls' : calls'[x] \in Call
           /\ \A x \in DOMAIN calls : x # k /\ calls'[x] = calls[x]
           /\ calls'[k] = NewCall(op, s)
<1>1. NewCall(op, s) \in Call
  BY DEF NewCall, Call, Answer, Says
<1>2. \A x \in DOMAIN calls : x # k
  OBVIOUS
<1> HIDE DEF NewCall
<1> QED
  BY <1>1, <1>2 DEF With, TypeOK

\* Call k is over for its caller, or lost.
LEMMA FewerCalls ==
    ASSUME NEW k, calls' = Without(calls, k)
    PROVE  /\ DOMAIN calls' = DOMAIN calls \ {k}
           /\ \A x \in DOMAIN calls' : calls'[x] = calls[x]
  BY DEF Without

\* Call k is suspended in the scheduler.
LEMMA PendingCalls ==
    ASSUME TypeOK, NEW k \in DOMAIN calls, calls' = [calls EXCEPT ![k].request = "pending"]
    PROVE  /\ DOMAIN calls' = DOMAIN calls
           /\ \A x \in DOMAIN calls' :
                  /\ calls'[x] \in Call
                  /\ x # k => calls'[x] = calls[x]
                  /\ x = k => /\ calls'[x].heard = calls[x].heard
                              /\ calls'[x].op = calls[x].op
                              /\ calls'[x].session = calls[x].session
                              /\ calls'[x].request = "pending"
                              /\ calls'[x].answer = calls[x].answer
<1>1. \A x \in DOMAIN calls : calls[x] \in Call
  BY DEF TypeOK
<1> QED
  BY <1>1 DEF Call

(* Type correctness, in three parts.                                       *)

EngineOK ==
    /\ DOMAIN windows \subseteq Windows
    /\ \A w \in DOMAIN windows : windows[w] \in {"active", "stopped"}
    /\ announcing \subseteq Windows
    /\ newest \in Windows \cup {NoWindow}
    /\ missed \in BOOLEAN

LeaseOK ==
    /\ window \in Windows \cup {NoWindow}
    /\ DOMAIN asked \subseteq Calls
    /\ \A k \in DOMAIN asked : asked[k] \in Scheduler!Streams
    /\ DOMAIN lease \subseteq SessionIds
    /\ \A s \in DOMAIN lease : lease[s] \in Scheduler!Streams
    /\ reply \in [Calls -> Scheduler!Answers]

CallsOK ==
    /\ phase \in {"up", "closing"}
    /\ DOMAIN calls \subseteq Calls
    /\ \A k \in DOMAIN calls : calls[k] \in Call
    /\ known \subseteq SessionIds
    /\ faults \in 0 .. MaxFaults

LEMMA TypeParts == TypeOK <=> EngineOK /\ LeaseOK /\ CallsOK
  BY DEF TypeOK, EngineOK, LeaseOK, CallsOK

LEMMA TypePartsNext == TypeOK' <=> EngineOK' /\ LeaseOK' /\ CallsOK'
  BY DEF TypeOK, EngineOK, LeaseOK, CallsOK

LEMMA TypeInit == Init => TypeOK
<1> SUFFICES ASSUME Init PROVE TypeOK
  OBVIOUS
<1>1. EngineOK
  BY DEF Init, EngineOK, Nothing
<1>2. LeaseOK
  BY DEF Init, LeaseOK, Scheduler!Init, Scheduler!Nothing, Scheduler!Answers
<1>3. CallsOK
  BY FaultsAssumption DEF Init, CallsOK, Nothing
<1> QED
  BY <1>1, <1>2, <1>3, TypeParts

LEMMA TypeEngine ==
    ASSUME EngineOK, NEW w \in Windows,
           Create(w) \/ Stop(w) \/ Announced(w) \/ AnnouncementLost(w)
    PROVE  EngineOK'
<1>1. CASE Create(w)
  BY <1>1 DEF Create, Created, With, EngineOK
<1>2. CASE Stop(w)
  BY <1>2 DEF Stop, Stopped, EngineOK
<1>3. CASE Announced(w)
  BY <1>3 DEF Announced, EngineOK
<1>4. CASE AnnouncementLost(w)
  BY <1>4 DEF AnnouncementLost, EngineOK
<1> QED
  BY <1>1, <1>2, <1>3, <1>4

\* Each step of the scheduler keeps the types of its promise.
LEMMA TypeLease ==
    ASSUME LeaseOK, NEW k \in Calls, NEW w, NEW s, NEW st,
           \/ w \in Windows /\ Scheduler!Announce(w)
           \/ Scheduler!Ask(k, st)
           \/ s \in SessionIds /\ Scheduler!GrantAtOnce(k, st, s)
           \/ s \in SessionIds /\ Scheduler!Grant(k, s)
           \/ Scheduler!Refuse(k)
           \/ Scheduler!End(s)
    PROVE  LeaseOK'
<1>1. CASE w \in Windows /\ Scheduler!Announce(w)
  BY <1>1 DEF Scheduler!Announce, LeaseOK
<1>2. CASE Scheduler!Ask(k, st)
  BY <1>2 DEF Scheduler!Ask, Scheduler!With, Scheduler!Answers, LeaseOK
<1>3. CASE s \in SessionIds /\ Scheduler!GrantAtOnce(k, st, s)
  BY <1>3 DEF Scheduler!GrantAtOnce, Scheduler!With, Scheduler!Answers, LeaseOK
<1>4. CASE s \in SessionIds /\ Scheduler!Grant(k, s)
  BY <1>4 DEF Scheduler!Grant, Scheduler!With, Scheduler!Without, Scheduler!Answers, LeaseOK
<1>5. CASE Scheduler!Refuse(k)
  BY <1>5 DEF Scheduler!Refuse, Scheduler!Without, Scheduler!Answers, LeaseOK
<1>6. CASE Scheduler!End(s)
  BY <1>6 DEF Scheduler!End, Scheduler!Without, LeaseOK
<1> QED
  BY <1>1, <1>2, <1>3, <1>4, <1>5, <1>6

LEMMA TypeForget == Scheduler!Forget => LeaseOK'
  BY DEF Scheduler!Forget, Scheduler!Nothing, Scheduler!Answers, LeaseOK

(* What is known of a call under way, by how far it is.                    *)

Sound(k) ==
    /\ calls[k].request # "over" => calls[k].answer = Says("none", Nobody)
    /\ calls[k].request = "over" => calls[k].heard
    /\ calls[k].request = "pending" => calls[k].op = "tune"
    /\ k \in DOMAIN asked <=> calls[k].request = "pending"
    /\ calls[k].op = "tune" /\ calls[k].request = "over" =>
           \/ calls[k].answer.told = "granted" /\ calls[k].answer.session \in SessionIds
           \/ calls[k].answer.told \in {"refused", "unavailable"} /\ calls[k].answer.session = Nobody
    /\ calls[k].op = "close" /\ calls[k].request = "over" =>
           /\ calls[k].answer.session = Nobody
           /\ \/ calls[k].answer.told \in {"closed", "unknown"}
                 /\ calls[k].session \notin DOMAIN lease
              \/ calls[k].answer.told = "unavailable"
                 /\ (calls[k].session \notin DOMAIN lease \/ phase = "closing")

CallsSound == DOMAIN asked \subseteq DOMAIN calls /\ \A k \in DOMAIN calls : Sound(k)

Inv == TypeOK /\ CallsSound

LEMMA InvInit == Init => Inv
  BY TypeInit DEF Inv, CallsSound, Init, Nothing, Scheduler!Init, Scheduler!Nothing

LEMMA InvEngine ==
    ASSUME Inv, NEW w \in Windows,
           Create(w) \/ Stop(w) \/ Announced(w) \/ AnnouncementLost(w)
    PROVE  Inv'
<1>1. UNCHANGED <<phase, asked, lease, reply, calls, known, faults>>
  BY DEF Create, Stop, Announced, AnnouncementLost, leaseVars, Scheduler!Announce
<1>2. window' \in {window, w}
  BY DEF Create, Stop, Announced, AnnouncementLost, leaseVars, Scheduler!Announce
<1>3. EngineOK'
  BY TypeEngine, TypeParts DEF Inv
<1>4. LeaseOK'
  BY <1>1, <1>2, TypeParts DEF Inv, LeaseOK
<1>5. CallsOK'
  BY <1>1, TypeParts DEF Inv, CallsOK
<1>6. CallsSound'
  BY <1>1 DEF Inv, CallsSound, Sound
<1> QED
  BY <1>3, <1>4, <1>5, <1>6, TypePartsNext DEF Inv

LEMMA InvPostTune == ASSUME Inv, NEW k \in Calls, PostTune(k) PROVE Inv'
<1>1. UNCHANGED <<engineVars, phase, leaseVars, known, faults>>
  BY DEF PostTune
<1>2. /\ DOMAIN calls' = DOMAIN calls \cup {k}
      /\ \A x \in DOMAIN calls' : calls'[x] \in Call
      /\ \A x \in DOMAIN calls : x # k /\ calls'[x] = calls[x]
      /\ calls'[k] = NewCall("tune", Nobody)
      /\ k \notin DOMAIN calls
  BY NewCalls DEF PostTune, Inv
<1>3. EngineOK' /\ LeaseOK' /\ CallsOK'
  BY <1>1, <1>2, TypeParts DEF Inv, EngineOK, LeaseOK, CallsOK, engineVars, leaseVars
<1>4. CallsSound'
  BY <1>1, <1>2 DEF Inv, CallsSound, Sound, leaseVars, NewCall
<1> QED
  BY <1>3, <1>4, TypePartsNext DEF Inv

LEMMA InvDeleteSession ==
    ASSUME Inv, NEW k \in Calls, NEW s \in SessionIds, DeleteSession(k, s) PROVE Inv'
<1>1. UNCHANGED <<engineVars, phase, leaseVars, known, faults>>
  BY DEF DeleteSession
<1>2. /\ DOMAIN calls' = DOMAIN calls \cup {k}
      /\ \A x \in DOMAIN calls' : calls'[x] \in Call
      /\ \A x \in DOMAIN calls : x # k /\ calls'[x] = calls[x]
      /\ calls'[k] = NewCall("close", s)
      /\ k \notin DOMAIN calls
  BY NewCalls DEF DeleteSession, Inv
<1>3. EngineOK' /\ LeaseOK' /\ CallsOK'
  BY <1>1, <1>2, TypeParts DEF Inv, EngineOK, LeaseOK, CallsOK, engineVars, leaseVars
<1>4. CallsSound'
  BY <1>1, <1>2 DEF Inv, CallsSound, Sound, leaseVars, NewCall
<1> QED
  BY <1>3, <1>4, TypePartsNext DEF Inv

\* What a caller can learn from an answer it hears.
LEMMA Hears ==
    ASSUME Inv, NEW k \in Calls, Hear(k)
    PROVE  \/ /\ calls[k].answer.told = "granted" /\ calls[k].answer.session \in SessionIds
              /\ known' = known \cup {calls[k].answer.session}
           \/ calls[k].answer.session = Nobody /\ known' = known
           \/ /\ calls[k].answer.session = Nobody /\ known' = known \ {calls[k].session}
              /\ calls[k].session \notin DOMAIN lease \/ phase = "closing"
<1>1. k \in DOMAIN calls /\ calls[k].request = "over" /\ Learns(k, Relayed(calls[k]))
  BY DEF Hear
<1>2. Sound(k) /\ calls[k] \in Call
  BY <1>1 DEF Inv, CallsSound, TypeOK
<1>3. CASE calls[k].op = "tune" /\ calls[k].answer.told = "granted"
  <2>1. Relayed(calls[k]) = calls[k].answer
    BY <1>3 DEF Relayed
  <2> QED
    BY <1>1, <1>2, <1>3, <2>1 DEF Learns, Sound
<1>4. CASE calls[k].op = "tune" /\ calls[k].answer.told # "granted"
  <2>1. Relayed(calls[k]) = Says("refused", Nobody)
    BY <1>4 DEF Relayed
  <2>2. known' = known
    BY <1>1, <2>1 DEF Learns, Says
  <2> QED
    BY <1>1, <1>2, <1>4, <2>2 DEF Sound
<1>5. CASE calls[k].op = "close"
  <2>1. Relayed(calls[k]).told \in {"closed", "unknown"}
    BY <1>5 DEF Relayed, Says
  <2>2. known' = known \ {calls[k].session}
    BY <1>1, <2>1 DEF Learns
  <2> QED
    BY <1>1, <1>2, <1>5, <2>2 DEF Sound
<1> QED
  BY <1>2, <1>3, <1>4, <1>5 DEF Call

LEMMA InvHear == ASSUME Inv, NEW k \in Calls, Hear(k) PROVE Inv'
<1>1. /\ UNCHANGED <<engineVars, phase, window, asked, lease, faults>>
      /\ reply' = [reply EXCEPT ![k] = "none"]
      /\ calls[k].request = "over" /\ k \in DOMAIN calls
  BY DEF Hear
<1>2. /\ DOMAIN calls' = DOMAIN calls \ {k}
      /\ \A x \in DOMAIN calls' : calls'[x] = calls[x]
  BY FewerCalls DEF Hear
<1>3. EngineOK' /\ LeaseOK'
  BY <1>1, TypeParts DEF Inv, EngineOK, LeaseOK, engineVars, Scheduler!Answers
<1>4. known' \subseteq SessionIds
  BY Hears, TypeParts DEF Inv, CallsOK
<1>5. CallsOK'
  BY <1>1, <1>2, <1>4, TypeParts DEF Inv, CallsOK
<1>6. k \notin DOMAIN asked
  BY <1>1 DEF Inv, CallsSound, Sound
<1>7. CallsSound'
  BY <1>1, <1>2, <1>6 DEF Inv, CallsSound, Sound
<1> QED
  BY <1>3, <1>5, <1>7, TypePartsNext DEF Inv

LEMMA InvBreak == ASSUME Inv, NEW k \in Calls, Break(k) PROVE Inv'
<1>1. /\ UNCHANGED <<engineVars, phase, leaseVars>>
      /\ faults < MaxFaults /\ faults' = faults + 1
      /\ k \in DOMAIN calls /\ Learns(k, Failed(calls[k]))
  BY DEF Break
<1>2. known' = known
  BY <1>1 DEF Learns, Failed, Says
<1>3. EngineOK' /\ LeaseOK'
  BY <1>1, TypeParts DEF Inv, EngineOK, LeaseOK, engineVars, leaseVars
<1>4. CallsOK'
  BY <1>1, <1>2, BrokenCalls, FaultsAssumption, TypeParts DEF Inv, CallsOK
<1>5. CallsSound'
  <2>1. DOMAIN asked' \subseteq DOMAIN calls'
    BY <1>1, BrokenCalls DEF Inv, CallsSound, Sound, leaseVars
  <2>2. ASSUME NEW x \in DOMAIN calls' PROVE Sound(x)'
    <3>1. Sound(x)
      BY BrokenCalls DEF Inv, CallsSound
    <3>2. CASE x # k
      BY <1>1, <3>1, <3>2, BrokenCalls DEF Inv, Sound, leaseVars
    <3>3. CASE x = k
      BY <1>1, <3>1, <3>3, BrokenCalls DEF Inv, Sound, leaseVars
    <3> QED
      BY <3>2, <3>3
  <2> QED
    BY <2>1, <2>2 DEF CallsSound
<1> QED
  BY <1>3, <1>4, <1>5, TypePartsNext DEF Inv

\* Call k is answered with something that a caller of its kind can rely on, while no
\* session that a close names is leased anew.
LEMMA InvAnswered ==
    ASSUME Inv, NEW k \in DOMAIN calls, NEW a \in Answer, Answered(k, a),
           DOMAIN asked' = DOMAIN asked \ {k}, UNCHANGED <<phase, known, faults>>,
           \A x \in DOMAIN calls :
               calls[x].session \notin DOMAIN lease => calls[x].session \notin DOMAIN lease',
           calls[k].op = "tune" =>
               \/ a.told = "granted" /\ a.session \in SessionIds
               \/ a.told \in {"refused", "unavailable"} /\ a.session = Nobody,
           calls[k].op = "close" =>
               /\ a.session = Nobody
               /\ \/ a.told \in {"closed", "unknown"} /\ calls[k].session \notin DOMAIN lease'
                  \/ a.told = "unavailable" /\ phase = "closing"
    PROVE  CallsOK' /\ CallsSound'
<1>1. CallsOK'
  BY AnsweredCalls, TypeParts DEF Inv, CallsOK
<1>2. DOMAIN asked' \subseteq DOMAIN calls'
  BY AnsweredCalls DEF Inv, CallsSound, Sound
<1>3. ASSUME NEW x \in DOMAIN calls' PROVE Sound(x)'
  <2>1. Sound(x) /\ calls[x] \in Call
    BY AnsweredCalls DEF Inv, CallsSound, TypeOK
  <2>2. CASE x # k
    BY <2>1, <2>2, AnsweredCalls DEF Inv, Sound
  <2>3. CASE x = k
    BY <2>1, <2>3, AnsweredCalls DEF Inv, Sound
  <2> QED
    BY <2>2, <2>3
<1> QED
  BY <1>1, <1>2, <1>3 DEF CallsSound

LEMMA InvHandleTune == ASSUME Inv, NEW k \in Calls, HandleTune(k) PROVE Inv'
<1>1. /\ UNCHANGED <<engineVars, phase, known, faults>>
      /\ k \in DOMAIN calls /\ calls[k].op = "tune" /\ calls[k].request = "coming"
  BY DEF HandleTune
<1>2. Sound(k) /\ k \notin DOMAIN asked /\ LeaseOK
  BY <1>1, TypeParts DEF Inv, CallsSound, Sound
<1>3. EngineOK'
  BY <1>1, TypeParts DEF Inv, EngineOK, engineVars
<1>4. CASE Scheduler!Refuse(k) /\ Answered(k, Says("refused", Nobody))
  <2>1. LeaseOK'
    BY <1>2, <1>4, TypeLease
  <2>2. DOMAIN asked' = DOMAIN asked \ {k} /\ lease' = lease
    BY <1>4 DEF Scheduler!Refuse, Scheduler!Without
  <2>3. /\ Says("refused", Nobody) \in Answer
        /\ Says("refused", Nobody).told = "refused" /\ Says("refused", Nobody).session = Nobody
    BY DEF Says, Answer
  <2>4. CallsOK' /\ CallsSound'
    BY <1>1, <1>4, <2>2, <2>3, InvAnswered
  <2> QED
    BY <1>3, <2>1, <2>4, TypePartsNext DEF Inv
<1>5. ASSUME NEW st \in Scheduler!Streams, Scheduler!Ask(k, st),
             calls' = [calls EXCEPT ![k].request = "pending"]
      PROVE  Inv'
  <2>1. LeaseOK'
    BY <1>2, <1>5, TypeLease
  <2>2. DOMAIN asked' = DOMAIN asked \cup {k} /\ lease' = lease
    BY <1>5 DEF Scheduler!Ask, Scheduler!With
  <2>3. CallsOK'
    BY <1>1, <1>5, PendingCalls, TypeParts DEF Inv, CallsOK
  <2>4. DOMAIN asked' \subseteq DOMAIN calls'
    BY <1>1, <1>5, <2>2, PendingCalls DEF Inv, CallsSound
  <2>5. ASSUME NEW x \in DOMAIN calls' PROVE Sound(x)'
    <3>1. Sound(x)
      BY <1>1, <1>5, PendingCalls DEF Inv, CallsSound
    <3>2. CASE x # k
      BY <1>1, <1>5, <2>2, <3>1, <3>2, PendingCalls DEF Inv, Sound
    <3>3. CASE x = k
      BY <1>1, <1>5, <2>2, <3>1, <3>3, PendingCalls DEF Inv, Sound
    <3> QED
      BY <3>2, <3>3
  <2> QED
    BY <1>3, <2>1, <2>3, <2>4, <2>5, TypePartsNext DEF Inv, CallsSound
<1>6. ASSUME NEW st \in Scheduler!Streams, NEW s \in SessionIds, FreshSession(s),
             Scheduler!GrantAtOnce(k, st, s), Answered(k, Says("granted", s))
      PROVE  Inv'
  <2>1. LeaseOK'
    BY <1>2, <1>6, TypeLease
  <2>2. DOMAIN asked' = DOMAIN asked \ {k} /\ DOMAIN lease' = DOMAIN lease \cup {s}
    BY <1>2, <1>6 DEF Scheduler!GrantAtOnce, Scheduler!With
  <2>3. /\ Says("granted", s) \in Answer
        /\ Says("granted", s).told = "granted" /\ Says("granted", s).session = s
    BY DEF Says, Answer
  <2>4. \A x \in DOMAIN calls : calls[x].session # s
    BY <1>6 DEF FreshSession
  <2>5. CallsOK' /\ CallsSound'
    BY <1>1, <1>6, <2>2, <2>3, <2>4, InvAnswered
  <2> QED
    BY <1>3, <2>1, <2>5, TypePartsNext DEF Inv
<1> QED
  BY <1>4, <1>5, <1>6 DEF HandleTune

LEMMA InvSettle == ASSUME Inv, NEW k \in Calls, Settle(k) PROVE Inv'
<1>1. UNCHANGED <<engineVars, phase, known, faults>> /\ k \in DOMAIN asked
  BY DEF Settle
<1>2. k \in DOMAIN calls /\ calls[k].op = "tune" /\ LeaseOK
  BY <1>1, TypeParts DEF Inv, CallsSound, Sound
<1>3. EngineOK'
  BY <1>1, TypeParts DEF Inv, EngineOK, engineVars
<1>4. CASE Scheduler!Refuse(k) /\ Answered(k, Says("refused", Nobody))
  <2>1. LeaseOK'
    BY <1>2, <1>4, TypeLease
  <2>2. DOMAIN asked' = DOMAIN asked \ {k} /\ lease' = lease
    BY <1>4 DEF Scheduler!Refuse, Scheduler!Without
  <2>3. /\ Says("refused", Nobody) \in Answer
        /\ Says("refused", Nobody).told = "refused" /\ Says("refused", Nobody).session = Nobody
    BY DEF Says, Answer
  <2>4. CallsOK' /\ CallsSound'
    BY <1>1, <1>2, <1>4, <2>2, <2>3, InvAnswered
  <2> QED
    BY <1>3, <2>1, <2>4, TypePartsNext DEF Inv
<1>5. ASSUME NEW s \in SessionIds, FreshSession(s), Scheduler!Grant(k, s),
             Answered(k, Says("granted", s))
      PROVE  Inv'
  <2>1. LeaseOK'
    BY <1>2, <1>5, TypeLease
  <2>2. DOMAIN asked' = DOMAIN asked \ {k} /\ DOMAIN lease' = DOMAIN lease \cup {s}
    BY <1>5 DEF Scheduler!Grant, Scheduler!With, Scheduler!Without
  <2>3. /\ Says("granted", s) \in Answer
        /\ Says("granted", s).told = "granted" /\ Says("granted", s).session = s
    BY DEF Says, Answer
  <2>4. \A x \in DOMAIN calls : calls[x].session # s
    BY <1>5 DEF FreshSession
  <2>5. CallsOK' /\ CallsSound'
    BY <1>1, <1>2, <1>5, <2>2, <2>3, <2>4, InvAnswered
  <2> QED
    BY <1>3, <2>1, <2>5, TypePartsNext DEF Inv
<1> QED
  BY <1>4, <1>5 DEF Settle

LEMMA InvHandleClose == ASSUME Inv, NEW k \in Calls, HandleClose(k) PROVE Inv'
<1>1. /\ UNCHANGED <<engineVars, phase, known, faults>>
      /\ k \in DOMAIN calls /\ calls[k].op = "close" /\ calls[k].request = "coming"
  BY DEF HandleClose
<1>2. k \notin DOMAIN asked /\ LeaseOK
  BY <1>1, TypeParts DEF Inv, CallsSound, Sound
<1>3. EngineOK'
  BY <1>1, TypeParts DEF Inv, EngineOK, engineVars
<1>4. ASSUME NEW what \in {"closed", "unknown"}
      PROVE  /\ Says(what, Nobody) \in Answer
             /\ Says(what, Nobody).told = what /\ Says(what, Nobody).session = Nobody
  BY DEF Says, Answer
<1>5. CASE Scheduler!End(calls[k].session) /\ Answered(k, Says("closed", Nobody))
  <2>1. LeaseOK'
    BY <1>2, <1>5, TypeLease
  <2>2. asked' = asked /\ DOMAIN lease' = DOMAIN lease \ {calls[k].session}
    BY <1>5 DEF Scheduler!End, Scheduler!Without
  <2>3. CallsOK' /\ CallsSound'
    BY <1>1, <1>2, <1>4, <1>5, <2>2, InvAnswered
  <2> QED
    BY <1>3, <2>1, <2>3, TypePartsNext DEF Inv
<1>6. CASE /\ calls[k].session \notin DOMAIN lease
           /\ UNCHANGED leaseVars /\ Answered(k, Says("unknown", Nobody))
  <2>1. LeaseOK'
    BY <1>2, <1>6 DEF LeaseOK, leaseVars
  <2>2. CallsOK' /\ CallsSound'
    BY <1>1, <1>2, <1>4, <1>6, InvAnswered DEF leaseVars
  <2> QED
    BY <1>3, <2>1, <2>2, TypePartsNext DEF Inv
<1> QED
  BY <1>5, <1>6 DEF HandleClose

LEMMA InvHandleClosing == ASSUME Inv, NEW k \in Calls, HandleClosing(k) PROVE Inv'
<1>1. /\ UNCHANGED <<engineVars, phase, leaseVars, faults>> /\ phase = "closing"
      /\ k \in DOMAIN calls /\ calls[k].request = "coming"
  BY DEF HandleClosing
<1>2. k \notin DOMAIN asked
  BY <1>1 DEF Inv, CallsSound, Sound
<1>3. EngineOK' /\ LeaseOK'
  BY <1>1, TypeParts DEF Inv, EngineOK, LeaseOK, engineVars, leaseVars
<1>4. CASE Answered(k, Says("unavailable", Nobody)) /\ UNCHANGED known
  <2>1. /\ Says("unavailable", Nobody) \in Answer
        /\ Says("unavailable", Nobody).told = "unavailable"
        /\ Says("unavailable", Nobody).session = Nobody
    BY DEF Says, Answer
  <2>2. CallsOK' /\ CallsSound'
    BY <1>1, <1>2, <1>4, <2>1, InvAnswered DEF leaseVars
  <2> QED
    BY <1>3, <2>2, TypePartsNext DEF Inv
<1>5. CASE /\ IF calls[k].heard THEN Learns(k, Failed(calls[k])) ELSE UNCHANGED known
           /\ calls' = Without(calls, k)
  <2>1. known' = known
    BY <1>5 DEF Learns, Failed, Says
  <2>2. /\ DOMAIN calls' = DOMAIN calls \ {k}
        /\ \A x \in DOMAIN calls' : calls'[x] = calls[x]
    BY <1>5, FewerCalls
  <2>3. CallsOK'
    BY <1>1, <2>1, <2>2, TypeParts DEF Inv, CallsOK
  <2>4. CallsSound'
    BY <1>1, <1>2, <2>2 DEF Inv, CallsSound, Sound, leaseVars
  <2> QED
    BY <1>3, <2>3, <2>4, TypePartsNext DEF Inv
<1> QED
  BY <1>4, <1>5 DEF HandleClosing

LEMMA InvShutdown == ASSUME Inv, Shutdown PROVE Inv'
<1>1. /\ UNCHANGED <<engineVars, leaseVars, calls, known, faults>> /\ phase' = "closing"
  BY DEF Shutdown
<1>2. EngineOK' /\ LeaseOK' /\ CallsOK'
  BY <1>1, TypeParts DEF Inv, EngineOK, LeaseOK, CallsOK, engineVars, leaseVars
<1>3. CallsSound'
  BY <1>1 DEF Inv, CallsSound, Sound, leaseVars
<1> QED
  BY <1>2, <1>3, TypePartsNext DEF Inv

LEMMA InvSchedulerRestart == ASSUME Inv, SchedulerRestart PROVE Inv'
<1>1. /\ UNCHANGED <<windows, announcing, newest, known, faults>>
      /\ phase' = "up" /\ missed' = (missed \/ newest \notin announcing)
      /\ calls' = [k \in {x \in DOMAIN calls : calls[x].request = "over"} |-> calls[k]]
  BY DEF SchedulerRestart
<1>2. LeaseOK' /\ DOMAIN asked' = {} /\ DOMAIN lease' = {}
  BY TypeForget DEF SchedulerRestart, Scheduler!Forget, Scheduler!Nothing
<1>3. EngineOK' /\ CallsOK'
  BY <1>1, TypeParts DEF Inv, EngineOK, CallsOK
<1>4. \A x \in DOMAIN calls' : x \in DOMAIN calls /\ calls'[x] = calls[x] /\ calls[x].request = "over"
  BY <1>1
<1>5. CallsSound'
  BY <1>2, <1>4 DEF Inv, CallsSound, Sound
<1> QED
  BY <1>2, <1>3, <1>5, TypePartsNext DEF Inv

LEMMA InvNext == Inv /\ [Next]_vars => Inv'
<1> SUFFICES ASSUME Inv, [Next]_vars PROVE Inv'
  OBVIOUS
<1>1. CASE UNCHANGED vars
  <2>1. UNCHANGED <<engineVars, phase, leaseVars, calls, known, faults>>
    BY <1>1 DEF vars
  <2> QED
    BY <2>1 DEF engineVars, leaseVars, Inv, TypeOK, CallsSound, Sound
<1>2. ASSUME NEW w \in Windows, Create(w) \/ Stop(w) \/ Announced(w) \/ AnnouncementLost(w)
      PROVE  Inv'
  BY <1>2, InvEngine
<1>3. CASE EngineRestart
  <2>1. /\ UNCHANGED <<newest, phase, leaseVars, calls, known, faults>>
        /\ windows' = Nothing /\ announcing' \subseteq announcing /\ missed' \in BOOLEAN
    BY <1>3 DEF EngineRestart, Inv, TypeOK
  <2>2. EngineOK'
    BY <2>1, TypeParts DEF Inv, EngineOK, Nothing
  <2>3. LeaseOK' /\ CallsOK' /\ CallsSound'
    BY <2>1, TypeParts DEF Inv, LeaseOK, CallsOK, CallsSound, Sound, leaseVars
  <2> QED
    BY <2>2, <2>3, TypePartsNext DEF Inv
<1>4. ASSUME NEW k \in Calls,
             \/ PostTune(k) \/ \E s \in SessionIds : DeleteSession(k, s)
             \/ Hear(k) \/ Break(k) \/ Handle(k) \/ Settle(k)
      PROVE  Inv'
  BY <1>4, InvPostTune, InvDeleteSession, InvHear, InvBreak, InvHandleTune, InvHandleClose,
     InvHandleClosing, InvSettle DEF Handle
<1> QED
  BY <1>1, <1>2, <1>3, <1>4, InvShutdown, InvSchedulerRestart DEF Next

LEMMA Invariant == Spec => []Inv
  BY InvInit, InvNext, PTL DEF Spec

\* Types, for any number of calls, windows and sessions.
THEOREM TypeCorrect == Spec => []TypeOK
<1>1. Inv => TypeOK
  BY DEF Inv
<1> QED
  BY <1>1, Invariant, PTL

(* What is reported closed is gone.                                        *)

LEMMA KnownShrinks ==
    ASSUME Inv, [Next]_vars, NEW s \in known, s \notin known'
    PROVE  s \notin DOMAIN lease \/ phase = "closing"
<1>1. PICK k \in Calls : Hear(k) \/ Break(k) \/ HandleClosing(k)
  <2>1. known' # known
    OBVIOUS
  <2>2. [Next]_vars <=> Next \/ UNCHANGED vars
    OBVIOUS
  <2> QED
    BY <2>1, <2>2 DEF Next, vars, Create, Stop, Announced, AnnouncementLost, EngineRestart,
       PostTune, DeleteSession, Handle, HandleTune, HandleClose, Settle, Shutdown,
       SchedulerRestart
<1>2. CASE Hear(k)
  BY <1>2, Hears
<1>3. CASE Break(k) \/ HandleClosing(k)
  BY <1>3 DEF Break, HandleClosing, Learns, Failed, Says
<1> QED
  BY <1>1, <1>2, <1>3

\* A caller that is told its session is closed or unknown can rely on it, whatever
\* became of its other calls and however many connections broke.
THEOREM ClosedIsGone == Spec => ClosedMeansGone
<1>1. Inv /\ [Next]_vars =>
          [\A s \in known \ known' : s \notin DOMAIN lease \/ phase = "closing"]_vars
  BY KnownShrinks
<1> QED
  BY <1>1, Invariant, PTL DEF Spec, ClosedMeansGone

(* The newest window.                                                      *)

LEMMA ServedNext == NewestServed /\ [Next]_vars => NewestServed'
<1> SUFFICES ASSUME NewestServed, [Next]_vars PROVE NewestServed'
  OBVIOUS
<1>1. CASE UNCHANGED vars
  BY <1>1 DEF vars, engineVars, leaseVars, NewestServed
<1>2. ASSUME NEW w \in Windows, Create(w) \/ Stop(w) \/ Announced(w) \/ AnnouncementLost(w)
      PROVE  NewestServed'
  <2>1. CASE Create(w)
    BY <2>1 DEF Create, NewestServed
  <2>2. CASE Stop(w)
    BY <2>2 DEF Stop, leaseVars, NewestServed
  <2>3. CASE Announced(w)
    BY <2>3 DEF Announced, Scheduler!Announce, NewestServed
  <2>4. CASE AnnouncementLost(w)
    BY <2>4 DEF AnnouncementLost, leaseVars, NewestServed
  <2> QED
    BY <1>2, <2>1, <2>2, <2>3, <2>4
<1>3. CASE EngineRestart
  BY <1>3 DEF EngineRestart, leaseVars, NewestServed
<1>4. ASSUME NEW k \in Calls,
             \/ PostTune(k) \/ \E s \in SessionIds : DeleteSession(k, s)
             \/ Hear(k) \/ Break(k) \/ Handle(k) \/ Settle(k)
      PROVE  NewestServed'
  <2>1. UNCHANGED <<engineVars, window>>
    BY <1>4 DEF PostTune, DeleteSession, Hear, Break, Handle, HandleTune, HandleClose,
       HandleClosing, Settle, leaseVars, Scheduler!Refuse, Scheduler!Ask,
       Scheduler!GrantAtOnce, Scheduler!Grant, Scheduler!End
  <2> QED
    BY <2>1 DEF engineVars, NewestServed
<1>5. CASE Shutdown
  BY <1>5 DEF Shutdown, engineVars, leaseVars, NewestServed
<1>6. CASE SchedulerRestart
  BY <1>6 DEF SchedulerRestart, NewestServed
<1> QED
  BY <1>1, <1>2, <1>3, <1>4, <1>5, <1>6 DEF Next

\* Announcements in any number and any order leave the scheduler with the newest window,
\* unless that one's was lost, overtaken or forgotten.
THEOREM NewestAlwaysServed == Spec => []NewestServed
<1>1. Init => NewestServed
  BY DEF Init, NewestServed
<1> QED
  BY <1>1, ServedNext, PTL DEF Spec

(* What broken connections may leave.  Each leaves one debt: an orphan, or *)
(* a call whose tune the scheduler goes on with, which may become one.     *)

Deserted == {k \in DOMAIN calls : ~calls[k].heard /\ calls[k].op = "tune"}

StoresFinite == IsFiniteSet(DOMAIN lease) /\ IsFiniteSet(DOMAIN calls)

Debts == Cardinality(Orphans) + Cardinality(Deserted)

DebtsCovered == phase = "up" => Debts <= faults

\* The debts of a step come from the connection that it breaks.
DebtsStep == phase' = "up" => phase = "up" /\ Debts' <= Debts + (faults' - faults)

OrphansInv == Inv /\ StoresFinite /\ DebtsCovered

LEMMA FewerOf ==
    ASSUME NEW S, IsFiniteSet(S), NEW T, T \subseteq S
    PROVE  /\ IsFiniteSet(T) /\ Cardinality(S) \in Nat /\ Cardinality(T) \in Nat
           /\ Cardinality(T) <= Cardinality(S)
  BY FS_Subset, FS_CardinalityType

LEMMA OneMore ==
    ASSUME NEW S, IsFiniteSet(S), NEW x, NEW T, T \subseteq S \cup {x}
    PROVE  Cardinality(T) \in Nat /\ Cardinality(T) <= Cardinality(S) + 1
<1>1. /\ IsFiniteSet(S \cup {x}) /\ Cardinality(S) \in Nat
      /\ Cardinality(S \cup {x}) \in {Cardinality(S), Cardinality(S) + 1}
  BY FS_AddElement, FS_CardinalityType
<1>2. /\ Cardinality(T) \in Nat /\ Cardinality(S \cup {x}) \in Nat
      /\ Cardinality(T) <= Cardinality(S \cup {x})
  BY <1>1, FewerOf
<1> QED
  BY <1>1, <1>2

LEMMA OneLess ==
    ASSUME NEW S, IsFiniteSet(S), NEW x \in S, NEW T, T \subseteq S \ {x}
    PROVE  Cardinality(T) \in Nat /\ Cardinality(T) + 1 <= Cardinality(S)
<1>1. /\ IsFiniteSet(S \ {x}) /\ Cardinality(S) \in Nat
      /\ Cardinality(S \ {x}) = Cardinality(S) - 1
  BY FS_RemoveElement, FS_CardinalityType
<1>2. /\ Cardinality(T) \in Nat /\ Cardinality(S \ {x}) \in Nat
      /\ Cardinality(T) <= Cardinality(S \ {x})
  BY <1>1, FewerOf
<1> QED
  BY <1>1, <1>2

LEMMA DebtsFinite ==
    ASSUME StoresFinite
    PROVE  /\ IsFiniteSet(Orphans) /\ Cardinality(Orphans) \in Nat
           /\ IsFiniteSet(Deserted) /\ Cardinality(Deserted) \in Nat
<1>1. Orphans \subseteq DOMAIN lease /\ Deserted \subseteq DOMAIN calls
  BY DEF Orphans, Deserted
<1> QED
  BY <1>1, FewerOf DEF StoresFinite

LEMMA DebtsFiniteNext ==
    ASSUME StoresFinite'
    PROVE  Cardinality(Orphans') \in Nat /\ Cardinality(Deserted') \in Nat
<1>1. Orphans' \subseteq DOMAIN lease' /\ Deserted' \subseteq DOMAIN calls'
  BY DEF Orphans, Deserted
<1> QED
  BY <1>1, FewerOf DEF StoresFinite

\* The ways in which a step changes the debts.
LEMMA DebtsFewer ==
    ASSUME OrphansInv, faults' \in Nat, faults <= faults',
           phase' = "up" => /\ phase = "up"
                            /\ Orphans' \subseteq Orphans /\ Deserted' \subseteq Deserted
    PROVE  DebtsStep
<1> SUFFICES ASSUME phase' = "up"
             PROVE  Cardinality(Orphans') + Cardinality(Deserted')
                      <= Cardinality(Orphans) + Cardinality(Deserted) + (faults' - faults)
  BY DEF DebtsStep, Debts
<1>1. faults \in Nat
  BY DEF OrphansInv, Inv, TypeOK
<1>2. /\ Cardinality(Orphans) \in Nat /\ Cardinality(Orphans') \in Nat
      /\ Cardinality(Orphans') <= Cardinality(Orphans)
  BY DebtsFinite, FewerOf DEF OrphansInv
<1>3. /\ Cardinality(Deserted) \in Nat /\ Cardinality(Deserted') \in Nat
      /\ Cardinality(Deserted') <= Cardinality(Deserted)
  BY DebtsFinite, FewerOf DEF OrphansInv
<1> QED
  BY <1>1, <1>2, <1>3

\* A deserted call is granted a session, which nobody learns of.
LEMMA DebtMoved ==
    ASSUME OrphansInv, UNCHANGED <<faults, phase>>, NEW s, NEW k \in Deserted,
           Orphans' \subseteq Orphans \cup {s}, Deserted' \subseteq Deserted \ {k}
    PROVE  DebtsStep
<1> SUFFICES Cardinality(Orphans') + Cardinality(Deserted')
                <= Cardinality(Orphans) + Cardinality(Deserted) + (faults' - faults)
  BY DEF DebtsStep, Debts
<1>1. faults \in Nat
  BY DEF OrphansInv, Inv, TypeOK
<1>2. /\ Cardinality(Orphans) \in Nat /\ Cardinality(Orphans') \in Nat
      /\ Cardinality(Orphans') <= Cardinality(Orphans) + 1
  BY DebtsFinite, OneMore DEF OrphansInv
<1>3. /\ Cardinality(Deserted) \in Nat /\ Cardinality(Deserted') \in Nat
      /\ Cardinality(Deserted') + 1 <= Cardinality(Deserted)
  BY DebtsFinite, OneLess DEF OrphansInv
<1> QED
  BY <1>1, <1>2, <1>3

\* A connection breaks, and leaves one debt at most.
LEMMA DebtAdded ==
    ASSUME OrphansInv, UNCHANGED phase, faults' = faults + 1, NEW s, NEW k,
           \/ Orphans' \subseteq Orphans \cup {s} /\ Deserted' \subseteq Deserted
           \/ Orphans' \subseteq Orphans /\ Deserted' \subseteq Deserted \cup {k}
    PROVE  DebtsStep
<1> SUFFICES Cardinality(Orphans') + Cardinality(Deserted')
                <= Cardinality(Orphans) + Cardinality(Deserted) + (faults' - faults)
  BY DEF DebtsStep, Debts
<1>1. faults \in Nat
  BY DEF OrphansInv, Inv, TypeOK
<1>2. /\ Cardinality(Orphans) \in Nat /\ IsFiniteSet(Orphans)
      /\ Cardinality(Deserted) \in Nat /\ IsFiniteSet(Deserted)
  BY DebtsFinite DEF OrphansInv
<1>3. CASE Orphans' \subseteq Orphans \cup {s} /\ Deserted' \subseteq Deserted
  <2>1. Cardinality(Orphans') \in Nat /\ Cardinality(Orphans') <= Cardinality(Orphans) + 1
    BY <1>2, <1>3, OneMore
  <2>2. Cardinality(Deserted') \in Nat /\ Cardinality(Deserted') <= Cardinality(Deserted)
    BY <1>2, <1>3, FewerOf
  <2> QED
    BY <1>1, <1>2, <2>1, <2>2
<1>4. CASE Orphans' \subseteq Orphans /\ Deserted' \subseteq Deserted \cup {k}
  <2>1. Cardinality(Orphans') \in Nat /\ Cardinality(Orphans') <= Cardinality(Orphans)
    BY <1>2, <1>4, FewerOf
  <2>2. Cardinality(Deserted') \in Nat /\ Cardinality(Deserted') <= Cardinality(Deserted) + 1
    BY <1>2, <1>4, OneMore
  <2> QED
    BY <1>1, <1>2, <2>1, <2>2
<1> QED
  BY <1>3, <1>4

\* A step adds one call and one session at most.
LEMMA FiniteNext ==
    ASSUME StoresFinite, NEW s, NEW k,
           DOMAIN lease' \subseteq DOMAIN lease \cup {s},
           DOMAIN calls' \subseteq DOMAIN calls \cup {k}
    PROVE  StoresFinite'
<1>1. IsFiniteSet(DOMAIN lease \cup {s}) /\ IsFiniteSet(DOMAIN calls \cup {k})
  BY FS_AddElement DEF StoresFinite
<1> QED
  BY <1>1, FewerOf DEF StoresFinite

\* Nobody gives up a session, and no answer that brings one is lost.
LEMMA OrphansFewer ==
    ASSUME Inv, DOMAIN lease' \subseteq DOMAIN lease, known \subseteq known',
           \A x \in DOMAIN calls : \/ calls[x].answer.session = Nobody
                                   \/ x \in DOMAIN calls' /\ calls'[x] = calls[x]
    PROVE  Orphans' \subseteq Orphans
<1> SUFFICES ASSUME NEW s \in Orphans', s \in Promised PROVE FALSE
  BY DEF Orphans
<1>1. s \in SessionIds /\ s # Nobody /\ s \notin Promised'
  BY NamesAssumption DEF Orphans, Inv, TypeOK
<1>2. PICK x \in DOMAIN calls : calls[x].answer.session = s
  BY DEF Promised
<1>3. s \in Promised'
  BY <1>1, <1>2 DEF Promised
<1> QED
  BY <1>1, <1>3

\* The scheduler answers call k without leasing anything.
LEMMA OrphansAnswered ==
    ASSUME OrphansInv, NEW k \in DOMAIN calls, NEW a \in Answer, Answered(k, a),
           calls[k].request # "over", UNCHANGED <<phase, known, faults>>,
           DOMAIN lease' \subseteq DOMAIN lease
    PROVE  StoresFinite' /\ DebtsStep
<1>1. StoresFinite'
  BY AnsweredCalls, FiniteNext DEF OrphansInv, Inv
<1>2. \A x \in DOMAIN calls : /\ Sound(x)
                              /\ x # k => x \in DOMAIN calls' /\ calls'[x] = calls[x]
  BY AnsweredCalls DEF OrphansInv, Inv, CallsSound, Sound
<1>3. calls[k].answer.session = Nobody
  BY <1>2 DEF Sound, Says
<1>4. Orphans' \subseteq Orphans
  BY <1>2, <1>3, OrphansFewer DEF OrphansInv
<1>5. Deserted' \subseteq Deserted
  BY AnsweredCalls DEF Deserted, OrphansInv, Inv
<1>6. faults \in Nat
  BY DEF OrphansInv, Inv, TypeOK
<1> QED
  BY <1>1, <1>4, <1>5, <1>6, DebtsFewer

\* It leases session s for the tune of call k: either the caller is there to hear of it,
\* or its broken connection has the session for its debt now.
LEMMA OrphansGranted ==
    ASSUME OrphansInv, NEW k \in DOMAIN calls, NEW s \in SessionIds,
           Answered(k, Says("granted", s)), calls[k].op = "tune",
           calls[k].request # "over", UNCHANGED <<phase, known, faults>>,
           DOMAIN lease' = DOMAIN lease \cup {s}
    PROVE  StoresFinite' /\ DebtsStep
<1>1. Says("granted", s) \in Answer /\ Says("granted", s).session = s
  BY DEF Says, Answer
<1>2. StoresFinite'
  BY <1>1, AnsweredCalls, FiniteNext DEF OrphansInv, Inv
<1>3. \A x \in DOMAIN calls : /\ Sound(x)
                              /\ x # k => x \in DOMAIN calls' /\ calls'[x] = calls[x]
  BY <1>1, AnsweredCalls DEF OrphansInv, Inv, CallsSound, Sound
<1>4. calls[k].answer.session = Nobody
  BY <1>3 DEF Sound, Says
<1>5. \A x \in Orphans' : x \in Orphans \cup {s}
  <2>1. \A x \in Promised : x = Nobody \/ x \in Promised'
    BY <1>3, <1>4 DEF Promised
  <2>2. Nobody \notin DOMAIN lease
    BY NamesAssumption DEF OrphansInv, Inv, TypeOK
  <2> QED
    BY <2>1, <2>2 DEF Orphans
<1>6. faults \in Nat
  BY DEF OrphansInv, Inv, TypeOK
<1>7. CASE calls[k].heard
  <2>1. k \in DOMAIN calls' /\ calls'[k].answer = Says("granted", s)
    BY <1>1, <1>7, AnsweredCalls DEF OrphansInv, Inv
  <2>2. s \in Promised'
    BY <1>1, <2>1 DEF Promised
  <2>3. Orphans' \subseteq Orphans
    BY <1>5, <2>2 DEF Orphans
  <2>4. Deserted' \subseteq Deserted
    BY <1>1, AnsweredCalls DEF Deserted, OrphansInv, Inv
  <2> QED
    BY <1>2, <1>6, <2>3, <2>4, DebtsFewer
<1>8. CASE ~calls[k].heard
  <2>1. k \in Deserted /\ k \notin DOMAIN calls'
    BY <1>1, <1>8, AnsweredCalls DEF Deserted, OrphansInv, Inv
  <2>2. Deserted' \subseteq Deserted \ {k}
    BY <1>3, <2>1, AnsweredCalls, <1>1 DEF Deserted, OrphansInv, Inv
  <2> QED
    BY <1>2, <1>5, <2>1, <2>2, DebtMoved
<1> QED
  BY <1>7, <1>8

LEMMA OrphansHear ==
    ASSUME OrphansInv, NEW k \in Calls, Hear(k) PROVE StoresFinite' /\ DebtsStep
<1>1. /\ UNCHANGED <<phase, lease, faults>>
      /\ k \in DOMAIN calls /\ calls[k].heard
  BY DEF Hear
<1>2. /\ DOMAIN calls' = DOMAIN calls \ {k}
      /\ \A x \in DOMAIN calls' : calls'[x] = calls[x]
  BY FewerCalls DEF Hear
<1>3. StoresFinite'
  BY <1>1, <1>2, FiniteNext DEF OrphansInv
<1>4. ASSUME phase = "up" PROVE Orphans' \subseteq Orphans
  <2> SUFFICES ASSUME NEW s \in DOMAIN lease, s \in known \cup Promised
               PROVE  s \in (known \cup Promised)'
    BY <1>1 DEF Orphans
  <2>1. s \in SessionIds /\ s # Nobody
    BY NamesAssumption DEF OrphansInv, Inv, TypeOK
  <2>2. Promised \subseteq Promised' \cup {calls[k].answer.session}
    BY <1>2 DEF Promised
  <2>3. calls[k].answer.session \in {s} => s \in known'
    BY <2>1, Hears DEF OrphansInv
  <2>4. s \in known => s \in known'
    BY <1>4, Hears DEF OrphansInv
  <2> QED
    BY <2>2, <2>3, <2>4
<1>5. Deserted' \subseteq Deserted
  BY <1>2 DEF Deserted
<1>6. faults \in Nat
  BY DEF OrphansInv, Inv, TypeOK
<1> QED
  BY <1>1, <1>3, <1>4, <1>5, <1>6, DebtsFewer

LEMMA OrphansBreak ==
    ASSUME OrphansInv, NEW k \in Calls, Break(k) PROVE StoresFinite' /\ DebtsStep
<1>1. /\ UNCHANGED <<phase, leaseVars>> /\ faults' = faults + 1
      /\ k \in DOMAIN calls /\ Learns(k, Failed(calls[k]))
  BY DEF Break
<1>2. known' = known /\ lease' = lease
  BY <1>1 DEF Learns, Failed, Says, leaseVars
<1>3. StoresFinite'
  BY <1>2, BrokenCalls, FiniteNext DEF OrphansInv, Inv
<1>4. \A x \in DOMAIN calls : /\ Sound(x)
                              /\ x # k => x \in DOMAIN calls' /\ calls'[x] = calls[x]
  BY BrokenCalls DEF OrphansInv, Inv, CallsSound, Sound
<1>5. CASE calls[k].request = "over"
  <2>1. k \notin DOMAIN calls'
    BY <1>5, BrokenCalls DEF OrphansInv, Inv
  <2>2. Orphans' \subseteq Orphans \cup {calls[k].answer.session}
    BY <1>2, <1>4 DEF Orphans, Promised
  <2>3. Deserted' \subseteq Deserted
    BY <1>4, <2>1, BrokenCalls DEF Deserted, OrphansInv, Inv
  <2> QED
    BY <1>1, <1>3, <2>2, <2>3, DebtAdded
<1>6. CASE calls[k].request # "over"
  <2>1. calls[k].answer.session = Nobody
    BY <1>1, <1>4, <1>6 DEF Sound, Says
  <2>2. Orphans' \subseteq Orphans
    BY <1>2, <1>4, <2>1, OrphansFewer DEF OrphansInv
  <2>3. Deserted' \subseteq Deserted \cup {k}
    BY <1>4, BrokenCalls DEF Deserted, OrphansInv, Inv
  <2> QED
    BY <1>1, <1>3, <2>2, <2>3, DebtAdded
<1> QED
  BY <1>5, <1>6

LEMMA OrphansBegin ==
    ASSUME OrphansInv, NEW k \in Calls,
           PostTune(k) \/ \E s \in SessionIds : DeleteSession(k, s)
    PROVE  StoresFinite' /\ DebtsStep
<1>1. UNCHANGED <<phase, leaseVars, known, faults>> /\ faults \in Nat
  BY DEF PostTune, DeleteSession, OrphansInv, Inv, TypeOK
<1>2. PICK op \in {"tune", "close"}, s \in SessionIds \cup {Nobody} :
          k \notin DOMAIN calls /\ calls' = With(calls, k, NewCall(op, s))
  BY DEF PostTune, DeleteSession
<1>3. /\ DOMAIN calls' = DOMAIN calls \cup {k}
      /\ \A x \in DOMAIN calls : x # k /\ calls'[x] = calls[x]
      /\ calls'[k].heard
  <2>1. /\ DOMAIN calls' = DOMAIN calls \cup {k}
        /\ \A x \in DOMAIN calls : x # k /\ calls'[x] = calls[x]
        /\ calls'[k] = NewCall(op, s)
    BY <1>2, NewCalls DEF OrphansInv, Inv
  <2> QED
    BY <2>1 DEF NewCall
<1>4. StoresFinite'
  BY <1>1, <1>3, FiniteNext DEF OrphansInv, leaseVars
<1>5. Orphans' \subseteq Orphans
  BY <1>1, <1>3, OrphansFewer DEF OrphansInv, leaseVars
<1>6. Deserted' \subseteq Deserted
  BY <1>3 DEF Deserted
<1> QED
  BY <1>1, <1>4, <1>5, <1>6, DebtsFewer

LEMMA OrphansHandleTune ==
    ASSUME OrphansInv, NEW k \in Calls, HandleTune(k) PROVE StoresFinite' /\ DebtsStep
<1>1. /\ UNCHANGED <<phase, known, faults>> /\ faults \in Nat
      /\ k \in DOMAIN calls /\ calls[k].op = "tune" /\ calls[k].request = "coming"
  BY DEF HandleTune, OrphansInv, Inv, TypeOK
<1>2. CASE Scheduler!Refuse(k) /\ Answered(k, Says("refused", Nobody))
  <2>1. lease' = lease /\ Says("refused", Nobody) \in Answer
    BY <1>2 DEF Scheduler!Refuse, Says, Answer
  <2> QED
    BY <1>1, <1>2, <2>1, OrphansAnswered
<1>3. ASSUME NEW st \in Scheduler!Streams, Scheduler!Ask(k, st),
             calls' = [calls EXCEPT ![k].request = "pending"]
      PROVE  StoresFinite' /\ DebtsStep
  <2>1. lease' = lease
    BY <1>3 DEF Scheduler!Ask
  <2>2. /\ DOMAIN calls' = DOMAIN calls
        /\ \A x \in DOMAIN calls : /\ calls'[x].answer = calls[x].answer
                                   /\ calls'[x].heard = calls[x].heard
                                   /\ calls'[x].op = calls[x].op
    BY <1>1, <1>3, PendingCalls DEF OrphansInv, Inv
  <2>3. StoresFinite'
    BY <2>1, <2>2, FiniteNext DEF OrphansInv
  <2>4. Orphans' \subseteq Orphans /\ Deserted' \subseteq Deserted
    BY <1>1, <2>1, <2>2 DEF Orphans, Promised, Deserted
  <2> QED
    BY <1>1, <2>3, <2>4, DebtsFewer
<1>4. ASSUME NEW st \in Scheduler!Streams, NEW s \in SessionIds,
             Scheduler!GrantAtOnce(k, st, s), Answered(k, Says("granted", s))
      PROVE  StoresFinite' /\ DebtsStep
  <2>1. DOMAIN lease' = DOMAIN lease \cup {s}
    BY <1>4 DEF Scheduler!GrantAtOnce, Scheduler!With
  <2> QED
    BY <1>1, <1>4, <2>1, OrphansGranted
<1> QED
  BY <1>2, <1>3, <1>4 DEF HandleTune

LEMMA OrphansSettle ==
    ASSUME OrphansInv, NEW k \in Calls, Settle(k) PROVE StoresFinite' /\ DebtsStep
<1>1. UNCHANGED <<phase, known, faults>> /\ k \in DOMAIN asked
  BY DEF Settle
<1>2. k \in DOMAIN calls /\ calls[k].op = "tune" /\ calls[k].request = "pending"
  BY <1>1 DEF OrphansInv, Inv, CallsSound, Sound
<1>3. CASE Scheduler!Refuse(k) /\ Answered(k, Says("refused", Nobody))
  <2>1. lease' = lease /\ Says("refused", Nobody) \in Answer
    BY <1>3 DEF Scheduler!Refuse, Says, Answer
  <2> QED
    BY <1>1, <1>2, <1>3, <2>1, OrphansAnswered
<1>4. ASSUME NEW s \in SessionIds, Scheduler!Grant(k, s), Answered(k, Says("granted", s))
      PROVE  StoresFinite' /\ DebtsStep
  <2>1. DOMAIN lease' = DOMAIN lease \cup {s}
    BY <1>4 DEF Scheduler!Grant, Scheduler!With
  <2> QED
    BY <1>1, <1>2, <1>4, <2>1, OrphansGranted
<1> QED
  BY <1>3, <1>4 DEF Settle

LEMMA OrphansHandleClose ==
    ASSUME OrphansInv, NEW k \in Calls, HandleClose(k) PROVE StoresFinite' /\ DebtsStep
<1>1. /\ UNCHANGED <<phase, known, faults>>
      /\ k \in DOMAIN calls /\ calls[k].request = "coming"
      /\ DOMAIN lease' \subseteq DOMAIN lease
      /\ Answered(k, Says("closed", Nobody)) \/ Answered(k, Says("unknown", Nobody))
  BY DEF HandleClose, Scheduler!End, Scheduler!Without, leaseVars
<1>2. Says("closed", Nobody) \in Answer /\ Says("unknown", Nobody) \in Answer
  BY DEF Says, Answer
<1> QED
  BY <1>1, <1>2, OrphansAnswered

LEMMA OrphansHandleClosing ==
    ASSUME OrphansInv, NEW k \in Calls, HandleClosing(k)
    PROVE  StoresFinite' /\ DebtsStep
<1>1. /\ UNCHANGED <<phase, leaseVars, faults>> /\ phase = "closing"
      /\ k \in DOMAIN calls /\ faults \in Nat
      /\ Answered(k, Says("unavailable", Nobody)) \/ calls' = Without(calls, k)
  BY DEF HandleClosing, OrphansInv, Inv, TypeOK
<1>2. Says("unavailable", Nobody) \in Answer
  BY DEF Says, Answer
<1>3. DOMAIN calls' \subseteq DOMAIN calls
  BY <1>1, <1>2, AnsweredCalls, FewerCalls DEF OrphansInv, Inv
<1>4. StoresFinite'
  BY <1>1, <1>3, FiniteNext DEF OrphansInv, leaseVars
<1> QED
  BY <1>1, <1>4, DebtsFewer

LEMMA OrphansRestart ==
    ASSUME OrphansInv, SchedulerRestart PROVE StoresFinite' /\ DebtsCovered'
<1>1. /\ faults' = faults /\ faults \in Nat /\ DOMAIN lease' = {}
      /\ DOMAIN calls' \subseteq DOMAIN calls
      /\ \A x \in DOMAIN calls' : calls'[x] = calls[x] /\ calls[x].request = "over"
  BY DEF SchedulerRestart, Scheduler!Forget, Scheduler!Nothing, OrphansInv, Inv, TypeOK
<1>2. StoresFinite'
  BY <1>1, FiniteNext DEF OrphansInv
<1>3. Orphans' = {}
  BY <1>1 DEF Orphans
<1>4. Deserted' = {}
  BY <1>1 DEF Deserted, OrphansInv, Inv, CallsSound, Sound
<1> QED
  BY <1>1, <1>2, <1>3, <1>4, FS_EmptySet DEF DebtsCovered, Debts

\* Every step but the scheduler's restart, which forgets the leases and the calls.
LEMMA DebtsNext ==
    ASSUME OrphansInv, Next, ~SchedulerRestart PROVE StoresFinite' /\ DebtsStep
<1>1. CASE UNCHANGED <<phase, lease, calls, known, faults>>
  <2>1. StoresFinite' /\ Orphans' \subseteq Orphans /\ Deserted' \subseteq Deserted
    BY <1>1 DEF OrphansInv, StoresFinite, Orphans, Promised, Deserted
  <2>2. faults \in Nat
    BY DEF OrphansInv, Inv, TypeOK
  <2> QED
    BY <1>1, <2>1, <2>2, DebtsFewer
<1>2. ASSUME NEW w \in Windows, Create(w) \/ Stop(w) \/ Announced(w) \/ AnnouncementLost(w)
      PROVE  StoresFinite' /\ DebtsStep
  BY <1>1, <1>2 DEF Create, Stop, Announced, AnnouncementLost, leaseVars, Scheduler!Announce
<1>3. CASE EngineRestart
  BY <1>1, <1>3 DEF EngineRestart, leaseVars
<1>4. ASSUME NEW k \in Calls,
             \/ PostTune(k) \/ \E s \in SessionIds : DeleteSession(k, s)
             \/ Hear(k) \/ Break(k) \/ Handle(k) \/ Settle(k)
      PROVE  StoresFinite' /\ DebtsStep
  BY <1>4, OrphansBegin, OrphansHear, OrphansBreak, OrphansHandleTune, OrphansHandleClose,
     OrphansHandleClosing, OrphansSettle DEF Handle
<1>5. CASE Shutdown
  BY <1>5 DEF Shutdown, leaseVars, OrphansInv, StoresFinite, DebtsStep
<1> QED
  BY <1>2, <1>3, <1>4, <1>5 DEF Next

LEMMA OrphansNext == OrphansInv /\ [Next]_vars => OrphansInv'
<1> SUFFICES ASSUME OrphansInv, [Next]_vars PROVE StoresFinite' /\ DebtsCovered'
  BY InvNext DEF OrphansInv
<1>1. CASE UNCHANGED vars
  BY <1>1 DEF vars, leaseVars, OrphansInv, StoresFinite, DebtsCovered, Debts, Orphans,
     Promised, Deserted
<1>2. CASE Next /\ ~SchedulerRestart
  <2>1. StoresFinite' /\ DebtsStep
    BY <1>2, DebtsNext
  <2>2. /\ Cardinality(Orphans) \in Nat /\ Cardinality(Deserted) \in Nat
        /\ Cardinality(Orphans') \in Nat /\ Cardinality(Deserted') \in Nat
    BY <2>1, DebtsFinite, DebtsFiniteNext DEF OrphansInv
  <2>3. faults \in Nat /\ faults' \in Nat
    BY InvNext DEF OrphansInv, Inv, TypeOK
  <2> QED
    BY <2>1, <2>2, <2>3 DEF OrphansInv, DebtsCovered, DebtsStep, Debts
<1> QED
  BY <1>1, <1>2, OrphansRestart

LEMMA OrphansInit == Init => OrphansInv
<1> SUFFICES ASSUME Init PROVE StoresFinite /\ DebtsCovered
  BY InvInit DEF OrphansInv
<1>1. DOMAIN lease = {} /\ DOMAIN calls = {} /\ faults = 0
  BY DEF Init, Nothing, Scheduler!Init, Scheduler!Nothing
<1>2. Orphans = {} /\ Deserted = {}
  BY <1>1 DEF Orphans, Deserted
<1> QED
  BY <1>1, <1>2, FS_EmptySet DEF StoresFinite, DebtsCovered, Debts

LEMMA OrphansAlways == Spec => []OrphansInv
  BY OrphansInit, OrphansNext, PTL DEF Spec

\* Sessions that nobody can close come from broken connections and from nothing else:
\* at most one from each, for any number of calls in flight, however they overtake one
\* another and whenever the scheduler ends.
THEOREM OrphansAlwaysBounded == Spec => []OrphansBounded
<1>1. OrphansInv => OrphansBounded
  <2> SUFFICES ASSUME OrphansInv, phase = "up" PROVE Cardinality(Orphans) <= faults
    BY DEF OrphansBounded
  <2>1. Cardinality(Orphans) \in Nat /\ Cardinality(Deserted) \in Nat /\ faults \in Nat
    BY DebtsFinite DEF OrphansInv, Inv, TypeOK
  <2> QED
    BY <2>1 DEF OrphansInv, DebtsCovered, Debts
<1> QED
  BY <1>1, OrphansAlways, PTL

\* Without broken connections every session of a scheduler that is up can be closed,
\* though tunes and closes overlap and the scheduler ends and starts anew.
THEOREM OrphansOnlyFromFaults ==
    MaxFaults = 0 => (Spec => [](phase = "up" => Orphans = {}))
<1> SUFFICES ASSUME MaxFaults = 0 PROVE Spec => [](phase = "up" => Orphans = {})
  OBVIOUS
<1>1. OrphansInv => (phase = "up" => Orphans = {})
  <2> SUFFICES ASSUME OrphansInv, phase = "up" PROVE Orphans = {}
    OBVIOUS
  <2>1. /\ Cardinality(Orphans) \in Nat /\ Cardinality(Deserted) \in Nat
        /\ IsFiniteSet(Orphans) /\ faults = 0
    BY DebtsFinite DEF OrphansInv, Inv, TypeOK
  <2>2. Cardinality(Orphans) = 0
    BY <2>1 DEF OrphansInv, DebtsCovered, Debts
  <2> QED
    BY <2>1, <2>2, FS_EmptySet
<1> QED
  BY <1>1, OrphansAlways, PTL

(* The callers' view against the scheduler's, until the scheduler starts   *)
(* anew.  A session that a caller holds is in doubt when a close that its  *)
(* caller does not hear of will end it, or has ended it.                   *)

ClosesHeard(s) ==
    \E k \in DOMAIN calls : calls[k].op = "close" /\ calls[k].session = s /\ calls[k].heard

ClosesUnheard(s) ==
    \E k \in DOMAIN calls : calls[k].op = "close" /\ calls[k].session = s /\ ~calls[k].heard

\* Held by a caller that will not hear that they are over.
Ghosts == {s \in known \ DOMAIN lease : ~ClosesHeard(s)}

InDoubt(s) == IF s \in DOMAIN lease THEN ClosesUnheard(s) ELSE ~ClosesHeard(s)

Doubtful == {s \in known : InDoubt(s)}

\* A session on its way to its caller is leased, is nobody's yet, and only this answer
\* brings it.
GrantHolds(k) ==
    calls[k].answer.session # Nobody =>
        /\ calls[k].answer.session \in DOMAIN lease
        /\ calls[k].answer.session \notin known
        /\ \A l \in DOMAIN calls : /\ calls[l].session # calls[k].answer.session
                                   /\ l # k => calls[l].answer.session # calls[k].answer.session

GrantsHold == \A k \in DOMAIN calls : GrantHolds(k)

DoubtsCovered == phase = "up" => Debts + Cardinality(Doubtful) <= faults

ViewsInv == OrphansInv /\ IsFiniteSet(known) /\ GrantsHold /\ DoubtsCovered

\* No new session is brought, and those under way are still leased and nobody's.
LEMMA GrantsKept ==
    ASSUME GrantsHold, DOMAIN calls' \subseteq DOMAIN calls,
           \A x \in DOMAIN calls' :
               /\ calls'[x].session = calls[x].session
               /\ calls'[x].answer.session \in {Nobody, calls[x].answer.session}
               /\ calls'[x].answer.session # Nobody =>
                      /\ calls[x].answer.session \in DOMAIN lease'
                      /\ calls[x].answer.session \notin known'
    PROVE  GrantsHold'
<1> SUFFICES ASSUME NEW k \in DOMAIN calls', calls'[k].answer.session # Nobody
             PROVE  GrantHolds(k)'
  BY DEF GrantsHold, GrantHolds
<1>1. calls'[k].answer.session = calls[k].answer.session /\ GrantHolds(k)
  BY DEF GrantsHold
<1> QED
  BY <1>1 DEF GrantHolds

LEMMA GrantsRefused ==
    ASSUME Inv, GrantsHold, NEW k \in DOMAIN calls, NEW a \in Answer, Answered(k, a),
           a.session = Nobody, UNCHANGED known,
           \A s \in DOMAIN lease \ DOMAIN lease' : s = calls[k].session
    PROVE  GrantsHold'
<1>1. /\ DOMAIN calls' \subseteq DOMAIN calls
      /\ \A x \in DOMAIN calls' : /\ x # k => calls'[x] = calls[x]
                                  /\ x = k => /\ calls'[x].session = calls[x].session
                                              /\ calls'[x].answer = a
  BY AnsweredCalls DEF Inv
<1> QED
  BY <1>1, GrantsKept DEF GrantsHold, GrantHolds

LEMMA GrantsGranted ==
    ASSUME Inv, GrantsHold, NEW k \in DOMAIN calls, NEW s \in SessionIds, FreshSession(s),
           Answered(k, Says("granted", s)), UNCHANGED known,
           DOMAIN lease' = DOMAIN lease \cup {s}
    PROVE  GrantsHold'
<1>1. Says("granted", s) \in Answer /\ Says("granted", s).session = s
  BY DEF Says, Answer
<1>2. /\ DOMAIN calls' \subseteq DOMAIN calls
      /\ \A x \in DOMAIN calls' : /\ x # k => calls'[x] = calls[x]
                                  /\ x = k => /\ calls'[x].session = calls[x].session
                                              /\ calls'[x].answer = Says("granted", s)
  BY <1>1, AnsweredCalls DEF Inv
<1>3. /\ s \notin known
      /\ \A x \in DOMAIN calls : calls[x].session # s /\ calls[x].answer.session # s
  BY DEF FreshSession
<1> QED
  BY <1>1, <1>2, <1>3 DEF GrantsHold, GrantHolds

LEMMA GrantsBegin ==
    ASSUME Inv, GrantsHold, NEW k \in Calls,
           PostTune(k) \/ \E s \in SessionIds : DeleteSession(k, s)
    PROVE  GrantsHold'
<1>1. PICK op \in {"tune", "close"}, s \in known \cup {Nobody} :
          k \notin DOMAIN calls /\ calls' = With(calls, k, NewCall(op, s))
  BY DEF PostTune, DeleteSession
<1>2. UNCHANGED <<leaseVars, known>> /\ s \in SessionIds \cup {Nobody}
  BY DEF PostTune, DeleteSession, Inv, TypeOK
<1>3. /\ DOMAIN calls' = DOMAIN calls \cup {k}
      /\ \A x \in DOMAIN calls : x # k /\ calls'[x] = calls[x]
      /\ calls'[k] = NewCall(op, s)
  BY <1>1, <1>2, NewCalls DEF Inv
<1>4. calls'[k].session = s /\ calls'[k].answer.session = Nobody
  BY <1>3 DEF NewCall, Says
<1> QED
  BY <1>2, <1>3, <1>4 DEF GrantsHold, GrantHolds, leaseVars

LEMMA GrantsNext ==
    ASSUME Inv, GrantsHold, Next, ~SchedulerRestart PROVE GrantsHold'
<1>1. CASE UNCHANGED <<leaseVars, calls, known>>
  BY <1>1 DEF leaseVars, GrantsHold, GrantHolds
<1>2. ASSUME NEW w \in Windows, Create(w) \/ Stop(w) \/ Announced(w) \/ AnnouncementLost(w)
      PROVE  GrantsHold'
  <2>1. UNCHANGED <<lease, calls, known>>
    BY <1>2 DEF Create, Stop, Announced, AnnouncementLost, leaseVars, Scheduler!Announce
  <2> QED
    BY <2>1 DEF GrantsHold, GrantHolds
<1>3. CASE EngineRestart \/ Shutdown
  BY <1>1, <1>3 DEF EngineRestart, Shutdown
<1>4. ASSUME NEW k \in Calls, Hear(k) PROVE GrantsHold'
  <2>1. /\ UNCHANGED lease /\ k \in DOMAIN calls
        /\ DOMAIN calls' = DOMAIN calls \ {k}
        /\ \A x \in DOMAIN calls' : calls'[x] = calls[x]
    BY <1>4, FewerCalls DEF Hear
  <2>2. known' \subseteq known \cup {calls[k].answer.session}
    BY <1>4, Hears
  <2> QED
    BY <2>1, <2>2, GrantsKept DEF GrantsHold, GrantHolds
<1>5. ASSUME NEW k \in Calls, Break(k) PROVE GrantsHold'
  <2>1. UNCHANGED <<leaseVars, known>>
    BY <1>5 DEF Break, Learns, Failed, Says
  <2>2. /\ DOMAIN calls' \subseteq DOMAIN calls
        /\ \A x \in DOMAIN calls' : /\ calls'[x].session = calls[x].session
                                    /\ calls'[x].answer.session
                                          \in {Nobody, calls[x].answer.session}
    BY <1>5, BrokenCalls DEF Inv, Says
  <2> QED
    BY <2>1, <2>2, GrantsKept DEF GrantsHold, GrantHolds, leaseVars
<1>6. ASSUME NEW k \in Calls, HandleTune(k) \/ Settle(k) PROVE GrantsHold'
  <2>1. k \in DOMAIN calls /\ UNCHANGED known
    BY <1>6 DEF HandleTune, Settle, Inv, CallsSound
  <2>2. CASE Scheduler!Refuse(k) /\ Answered(k, Says("refused", Nobody))
    <3>1. lease' = lease /\ Says("refused", Nobody) \in Answer
          /\ Says("refused", Nobody).session = Nobody
      BY <2>2 DEF Scheduler!Refuse, Says, Answer
    <3> QED
      BY <2>1, <2>2, <3>1, GrantsRefused
  <2>3. CASE \E st \in Scheduler!Streams :
                 Scheduler!Ask(k, st) /\ calls' = [calls EXCEPT ![k].request = "pending"]
    <3>1. lease' = lease
      BY <2>3 DEF Scheduler!Ask
    <3>2. /\ DOMAIN calls' = DOMAIN calls
          /\ \A x \in DOMAIN calls' : /\ calls'[x].session = calls[x].session
                                      /\ calls'[x].answer = calls[x].answer
      BY <2>1, <2>3, PendingCalls DEF Inv
    <3> QED
      BY <2>1, <3>1, <3>2, GrantsKept DEF GrantsHold, GrantHolds
  <2>4. ASSUME NEW s \in SessionIds, FreshSession(s), Answered(k, Says("granted", s)),
               Scheduler!Grant(k, s)
                 \/ \E st \in Scheduler!Streams : Scheduler!GrantAtOnce(k, st, s)
        PROVE  GrantsHold'
    <3>1. DOMAIN lease' = DOMAIN lease \cup {s}
      BY <2>4 DEF Scheduler!Grant, Scheduler!GrantAtOnce, Scheduler!With
    <3> QED
      BY <2>1, <2>4, <3>1, GrantsGranted
  <2> QED
    BY <1>6, <2>2, <2>3, <2>4 DEF HandleTune, Settle
<1>7. ASSUME NEW k \in Calls, HandleClose(k) PROVE GrantsHold'
  <2>1. /\ k \in DOMAIN calls /\ UNCHANGED known
        /\ \A s \in DOMAIN lease \ DOMAIN lease' : s = calls[k].session
        /\ Answered(k, Says("closed", Nobody)) \/ Answered(k, Says("unknown", Nobody))
    BY <1>7 DEF HandleClose, Scheduler!End, Scheduler!Without, leaseVars
  <2>2. \A what \in {"closed", "unknown"} :
            Says(what, Nobody) \in Answer /\ Says(what, Nobody).session = Nobody
    BY DEF Says, Answer
  <2> QED
    BY <2>1, <2>2, GrantsRefused
<1>8. ASSUME NEW k \in Calls, HandleClosing(k) PROVE GrantsHold'
  <2>1. UNCHANGED <<leaseVars, known>> /\ k \in DOMAIN calls
    BY <1>8 DEF HandleClosing, Learns, Failed, Says
  <2>2. CASE Answered(k, Says("unavailable", Nobody))
    <3>1. Says("unavailable", Nobody) \in Answer /\ Says("unavailable", Nobody).session = Nobody
      BY DEF Says, Answer
    <3> QED
      BY <2>1, <2>2, <3>1, GrantsRefused DEF leaseVars
  <2>3. CASE calls' = Without(calls, k)
    <3>1. /\ DOMAIN calls' = DOMAIN calls \ {k}
          /\ \A x \in DOMAIN calls' : calls'[x] = calls[x]
      BY <2>3, FewerCalls
    <3> QED
      BY <2>1, <3>1, GrantsKept DEF GrantsHold, GrantHolds, leaseVars
  <2> QED
    BY <1>8, <2>2, <2>3 DEF HandleClosing
<1>9. ASSUME NEW k \in Calls, PostTune(k) \/ \E s \in SessionIds : DeleteSession(k, s)
      PROVE  GrantsHold'
  BY <1>9, GrantsBegin
<1> QED
  BY <1>2, <1>3, <1>4, <1>5, <1>6, <1>7, <1>8, <1>9 DEF Next, Handle

\* The doubts that a step brings: at most about session s.
LEMMA DoubtsBrought ==
    ASSUME NEW s,
           \A x \in known' \ {s} :
               /\ x \in known
               /\ x \in DOMAIN lease' <=> x \in DOMAIN lease
               /\ ClosesUnheard(x)' => ClosesUnheard(x)
               /\ ClosesHeard(x) => ClosesHeard(x)'
    PROVE  Doubtful' \subseteq Doubtful \cup {s}
  BY DEF Doubtful, InDoubt

\* A step that gives no caller a session and leaves the closes of session s alone.
LEMMA ClosesKept ==
    ASSUME NEW s,
           \A x \in DOMAIN calls' : calls'[x].op = "close" /\ calls'[x].session = s
               => calls'[x].heard \/ (x \in DOMAIN calls /\ calls'[x] = calls[x]),
           \A x \in DOMAIN calls : calls[x].op = "close" /\ calls[x].session = s /\ calls[x].heard
               => x \in DOMAIN calls' /\ calls'[x] = calls[x]
    PROVE  /\ ClosesUnheard(s)' => ClosesUnheard(s)
           /\ ClosesHeard(s) => ClosesHeard(s)'
  BY DEF ClosesUnheard, ClosesHeard

LEMMA DoubtsBegin ==
    ASSUME Inv, NEW k \in Calls,
           PostTune(k) \/ \E s \in SessionIds : DeleteSession(k, s)
    PROVE  Doubtful' \subseteq Doubtful
<1>1. PICK op \in {"tune", "close"}, s \in SessionIds \cup {Nobody} :
          k \notin DOMAIN calls /\ calls' = With(calls, k, NewCall(op, s))
  BY DEF PostTune, DeleteSession
<1>2. /\ DOMAIN calls' = DOMAIN calls \cup {k}
      /\ \A x \in DOMAIN calls : x # k /\ calls'[x] = calls[x]
      /\ calls'[k] = NewCall(op, s)
  BY <1>1, NewCalls DEF Inv
<1>3. calls'[k].heard
  BY <1>2 DEF NewCall
<1>4. UNCHANGED <<leaseVars, known>>
  BY DEF PostTune, DeleteSession
<1>5. \A x : /\ ClosesUnheard(x)' => ClosesUnheard(x)
             /\ ClosesHeard(x) => ClosesHeard(x)'
  BY <1>2, <1>3 DEF ClosesUnheard, ClosesHeard
<1> QED
  BY <1>4, <1>5 DEF Doubtful, InDoubt, leaseVars

\* A close that is heard ends the doubts about its session, however it is answered.
LEMMA HearsClose ==
    ASSUME Inv, NEW k \in Calls, Hear(k), calls[k].op = "close"
    PROVE  known' = known \ {calls[k].session}
<1>1. Relayed(calls[k]).told \in {"closed", "unknown"}
  BY DEF Relayed, Says
<1>2. Learns(k, Relayed(calls[k]))
  BY DEF Hear
<1> QED
  BY <1>1, <1>2 DEF Learns

LEMMA DoubtsHear ==
    ASSUME Inv, GrantsHold, NEW k \in Calls, Hear(k)
    PROVE  Doubtful' \subseteq Doubtful
<1>1. /\ UNCHANGED lease /\ k \in DOMAIN calls /\ calls[k].heard
      /\ DOMAIN calls' = DOMAIN calls \ {k}
      /\ \A x \in DOMAIN calls' : calls'[x] = calls[x]
  BY FewerCalls DEF Hear
<1>2. \A s : ClosesUnheard(s)' => ClosesUnheard(s)
  BY <1>1 DEF ClosesUnheard
<1>3. \A s : calls[k].op = "tune" \/ s # calls[k].session =>
                 (ClosesHeard(s) => ClosesHeard(s)')
  BY <1>1 DEF ClosesHeard
<1>4. CASE calls[k].op = "close"
  <2>1. known' = known \ {calls[k].session}
    BY <1>4, HearsClose
  <2> QED
    BY <1>1, <1>2, <1>3, <2>1 DEF Doubtful, InDoubt
<1>5. CASE calls[k].op = "tune"
  <2> DEFINE g == calls[k].answer.session
  <2>1. known' \subseteq known \cup {g} /\ (g = Nobody => known' \subseteq known)
    BY Hears, NamesAssumption
  <2>2. g # Nobody => g \in DOMAIN lease /\ ~ClosesUnheard(g)
    BY <1>1 DEF GrantsHold, GrantHolds, ClosesUnheard
  <2> QED
    BY <1>1, <1>2, <1>3, <1>5, <2>1, <2>2 DEF Doubtful, InDoubt
<1> QED
  BY <1>1, <1>4, <1>5 DEF Inv, TypeOK, Call

\* A connection breaks.  On a tune it brings no doubt; on a close it brings one at most,
\* and no orphan.
LEMMA DoubtsBreak ==
    ASSUME Inv, NEW k \in Calls, Break(k)
    PROVE  \/ Doubtful' \subseteq Doubtful
           \/ /\ Doubtful' \subseteq Doubtful \cup {calls[k].session}
              /\ Orphans' \subseteq Orphans /\ Deserted' \subseteq Deserted
<1>1. /\ UNCHANGED leaseVars /\ known' = known /\ k \in DOMAIN calls
  BY DEF Break, Learns, Failed, Says
<1>2. \A x \in DOMAIN calls' : /\ x \in DOMAIN calls
                               /\ x # k => calls'[x] = calls[x]
                               /\ x = k => /\ calls'[x].op = calls[x].op
                                           /\ calls'[x].session = calls[x].session
  BY BrokenCalls DEF Inv
<1>3. \A x \in DOMAIN calls \ {k} : x \in DOMAIN calls' /\ calls'[x] = calls[x]
  BY BrokenCalls DEF Inv, CallsSound, Sound
<1>4. ASSUME NEW s, calls[k].op = "tune" \/ s # calls[k].session
      PROVE  /\ ClosesUnheard(s)' => ClosesUnheard(s)
             /\ ClosesHeard(s) => ClosesHeard(s)'
  BY <1>2, <1>3, <1>4, ClosesKept
<1>5. CASE calls[k].op = "tune"
  BY <1>1, <1>4, <1>5 DEF Doubtful, InDoubt, leaseVars
<1>6. CASE calls[k].op = "close"
  <2>1. Doubtful' \subseteq Doubtful \cup {calls[k].session}
    BY <1>1, <1>4, DoubtsBrought DEF leaseVars
  <2>2. Sound(k)
    BY <1>1 DEF Inv, CallsSound
  <2>3. calls[k].answer.session = Nobody
    BY <1>1, <1>6, <2>2 DEF Sound, Says, Inv, TypeOK, Call
  <2>4. Orphans' \subseteq Orphans
    BY <1>1, <1>3, <2>3, OrphansFewer DEF leaseVars
  <2>5. Deserted' \subseteq Deserted
    BY <1>2, <1>6 DEF Deserted
  <2> QED
    BY <2>1, <2>4, <2>5
<1> QED
  BY <1>1, <1>5, <1>6 DEF Inv, TypeOK, Call

\* The scheduler goes on with the tune of call k.
LEMMA DoubtsTune ==
    ASSUME Inv, NEW k \in Calls, HandleTune(k) \/ Settle(k)
    PROVE  Doubtful' \subseteq Doubtful
<1>1. k \in DOMAIN calls /\ UNCHANGED known /\ calls[k].op = "tune"
  BY DEF HandleTune, Settle, Inv, CallsSound, Sound
<1>2. ASSUME \A x \in DOMAIN calls' : /\ x \in DOMAIN calls
                                      /\ x # k => calls'[x] = calls[x]
                                      /\ x = k => calls'[x].op = calls[x].op,
             \A x \in DOMAIN calls \ {k} : x \in DOMAIN calls',
             \A s \in known : s \in DOMAIN lease' <=> s \in DOMAIN lease
      PROVE  Doubtful' \subseteq Doubtful
  <2>1. \A s : /\ ClosesUnheard(s)' => ClosesUnheard(s)
               /\ ClosesHeard(s) => ClosesHeard(s)'
    BY <1>1, <1>2, ClosesKept
  <2> QED
    BY <1>1, <1>2, <2>1 DEF Doubtful, InDoubt
<1>3. ASSUME NEW a \in Answer, Answered(k, a),
             \A s \in known : s \in DOMAIN lease' <=> s \in DOMAIN lease
      PROVE  Doubtful' \subseteq Doubtful
  <2>1. \A x \in DOMAIN calls \ {k} : calls[x].heard \/ calls[x].request # "over"
    BY DEF Inv, CallsSound, Sound
  <2> QED
    BY <1>1, <1>2, <1>3, <2>1, AnsweredCalls DEF Inv
<1>4. CASE Scheduler!Refuse(k) /\ Answered(k, Says("refused", Nobody))
  <2>1. lease' = lease /\ Says("refused", Nobody) \in Answer
    BY <1>4 DEF Scheduler!Refuse, Says, Answer
  <2> QED
    BY <1>3, <1>4, <2>1
<1>5. CASE \E st \in Scheduler!Streams :
               Scheduler!Ask(k, st) /\ calls' = [calls EXCEPT ![k].request = "pending"]
  <2>1. lease' = lease
    BY <1>5 DEF Scheduler!Ask
  <2> QED
    BY <1>1, <1>2, <1>5, <2>1, PendingCalls DEF Inv
<1>6. ASSUME NEW s \in SessionIds, FreshSession(s), Answered(k, Says("granted", s)),
             Scheduler!Grant(k, s)
               \/ \E st \in Scheduler!Streams : Scheduler!GrantAtOnce(k, st, s)
      PROVE  Doubtful' \subseteq Doubtful
  <2>1. DOMAIN lease' = DOMAIN lease \cup {s} /\ Says("granted", s) \in Answer
    BY <1>6 DEF Scheduler!Grant, Scheduler!GrantAtOnce, Scheduler!With, Says, Answer
  <2>2. s \notin known
    BY <1>6 DEF FreshSession
  <2> QED
    BY <1>3, <1>6, <2>1, <2>2
<1> QED
  BY <1>4, <1>5, <1>6 DEF HandleTune, Settle

\* A close is handled: its session was in doubt before if nobody hears of it.
LEMMA DoubtsClose ==
    ASSUME Inv, NEW k \in Calls, HandleClose(k)
    PROVE  Doubtful' \subseteq Doubtful
<1> PICK q : q = calls[k].session
  OBVIOUS
<1>1. /\ k \in DOMAIN calls /\ UNCHANGED known
      /\ calls[k].op = "close" /\ calls[k].request = "coming"
      /\ DOMAIN lease' = DOMAIN lease \ {q}
      /\ Answered(k, Says("closed", Nobody)) \/ Answered(k, Says("unknown", Nobody))
  BY DEF HandleClose, Scheduler!End, Scheduler!Without, leaseVars
<1>2. \A what \in {"closed", "unknown"} : Says(what, Nobody) \in Answer
  BY DEF Says, Answer
<1>3. /\ \A x \in DOMAIN calls' : /\ x \in DOMAIN calls
                                  /\ x # k => calls'[x] = calls[x]
                                  /\ x = k => /\ calls'[x].heard
                                              /\ calls'[x].op = "close"
                                              /\ calls'[x].session = q
      /\ calls[k].heard => k \in DOMAIN calls'
      /\ \A x \in DOMAIN calls \ {k} : x \in DOMAIN calls'
  BY <1>1, <1>2, AnsweredCalls DEF Inv, CallsSound, Sound
<1>4. \A s : /\ ClosesUnheard(s)' => ClosesUnheard(s)
             /\ ClosesHeard(s) => ClosesHeard(s)'
  BY <1>1, <1>3 DEF ClosesUnheard, ClosesHeard
<1>5. q \in Doubtful' => q \in Doubtful
  <2> SUFFICES ASSUME q \in known, q \notin DOMAIN lease', ~ClosesHeard(q)'
               PROVE  InDoubt(q)
    BY <1>1 DEF Doubtful, InDoubt
  <2>1. ~calls[k].heard
    BY <1>3 DEF ClosesHeard
  <2>2. ClosesUnheard(q) /\ ~ClosesHeard(q)
    BY <1>1, <1>4, <2>1 DEF ClosesUnheard
  <2> QED
    BY <2>2 DEF InDoubt
<1>6. \A s : s # q /\ s \in Doubtful' => s \in Doubtful
  BY <1>1, <1>4 DEF Doubtful, InDoubt
<1> QED
  BY <1>5, <1>6

\* A step of a scheduler that is up afterwards, and does not start anew: it brings no
\* doubt, or breaks the connection of a close.
LEMMA DoubtsNext ==
    ASSUME Inv, GrantsHold, Next, ~SchedulerRestart, phase' = "up"
    PROVE  \/ Doubtful' \subseteq Doubtful
           \/ /\ faults' = faults + 1 /\ \E s : Doubtful' \subseteq Doubtful \cup {s}
              /\ Orphans' \subseteq Orphans /\ Deserted' \subseteq Deserted
<1>1. ASSUME UNCHANGED <<lease, calls, known>> PROVE Doubtful' \subseteq Doubtful
  BY <1>1 DEF Doubtful, InDoubt, ClosesHeard, ClosesUnheard
<1>2. ASSUME NEW w \in Windows, Create(w) \/ Stop(w) \/ Announced(w) \/ AnnouncementLost(w)
      PROVE  Doubtful' \subseteq Doubtful
  BY <1>1, <1>2 DEF Create, Stop, Announced, AnnouncementLost, leaseVars, Scheduler!Announce
<1>3. ASSUME EngineRestart PROVE Doubtful' \subseteq Doubtful
  BY <1>1, <1>3 DEF EngineRestart, leaseVars
<1>4. ASSUME NEW k \in Calls,
             \/ PostTune(k) \/ \E s \in SessionIds : DeleteSession(k, s)
             \/ Hear(k) \/ HandleTune(k) \/ HandleClose(k) \/ Settle(k)
      PROVE  Doubtful' \subseteq Doubtful
  BY <1>4, DoubtsBegin, DoubtsHear, DoubtsTune, DoubtsClose
<1>5. \A k \in Calls : Break(k) => faults' = faults + 1
  BY DEF Break
<1>6. ~Shutdown /\ \A k \in Calls : ~HandleClosing(k)
  BY DEF Shutdown, HandleClosing
<1> QED
  BY <1>2, <1>3, <1>4, <1>5, <1>6, DoubtsBreak DEF Next, Handle

LEMMA KnownFinite ==
    ASSUME Inv, IsFiniteSet(known), Next PROVE IsFiniteSet(known')
<1>1. \E s : known' \subseteq known \cup {s}
  <2>1. ASSUME NEW k \in Calls, Hear(k) PROVE \E s : known' \subseteq known \cup {s}
    BY <2>1, Hears
  <2>2. ASSUME NEW k \in Calls, Break(k) \/ HandleClosing(k) PROVE known' = known
    BY <2>2 DEF Break, HandleClosing, Learns, Failed, Says
  <2>3. \/ known' = known
        \/ \E k \in Calls : Hear(k) \/ Break(k) \/ HandleClosing(k)
    BY DEF Next, Create, Stop, Announced, AnnouncementLost, EngineRestart, PostTune,
       DeleteSession, Handle, HandleTune, HandleClose, Settle, Shutdown, SchedulerRestart
  <2> QED
    BY <2>1, <2>2, <2>3
<1>2. PICK s : known' \subseteq known \cup {s}
  BY <1>1
<1>3. IsFiniteSet(known \cup {s})
  BY FS_AddElement
<1> QED
  BY <1>2, <1>3, FewerOf

LEMMA DoubtsFinite ==
    ASSUME IsFiniteSet(known)
    PROVE  IsFiniteSet(Doubtful) /\ Cardinality(Doubtful) \in Nat
<1>1. Doubtful \subseteq known
  BY DEF Doubtful
<1> QED
  BY <1>1, FewerOf

LEMMA ViewsNext ==
    ViewsInv /\ [Next /\ ~SchedulerRestart]_vars => ViewsInv'
<1> SUFFICES ASSUME ViewsInv, [Next /\ ~SchedulerRestart]_vars PROVE ViewsInv'
  OBVIOUS
<1>1. CASE UNCHANGED vars
  <2>1. UNCHANGED <<phase, lease, calls, known, faults>>
    BY <1>1 DEF vars, leaseVars
  <2>2. OrphansInv'
    BY <1>1, OrphansNext DEF ViewsInv
  <2> QED
    BY <2>1, <2>2 DEF ViewsInv, GrantsHold, GrantHolds, DoubtsCovered, Debts, Orphans,
       Promised, Deserted, Doubtful, InDoubt, ClosesHeard, ClosesUnheard
<1>2. CASE Next /\ ~SchedulerRestart
  <2>1. OrphansInv' /\ GrantsHold' /\ IsFiniteSet(known')
    BY <1>2, OrphansNext, GrantsNext, KnownFinite DEF ViewsInv, OrphansInv
  <2>2. ASSUME phase' = "up" PROVE Debts' + Cardinality(Doubtful') <= faults'
    <3> DEFINE n == Cardinality(Doubtful)  m == Cardinality(Doubtful')
    <3>1. phase = "up" /\ Debts' <= Debts + (faults' - faults)
      BY <1>2, <2>2, DebtsNext DEF ViewsInv, DebtsStep
    <3>2. IsFiniteSet(Doubtful) /\ n \in Nat
      BY DoubtsFinite DEF ViewsInv
    <3>3. /\ Cardinality(Orphans) \in Nat /\ Cardinality(Deserted) \in Nat
          /\ Cardinality(Orphans') \in Nat /\ Cardinality(Deserted') \in Nat
          /\ IsFiniteSet(Orphans) /\ IsFiniteSet(Deserted)
      BY <2>1, DebtsFinite, DebtsFiniteNext DEF ViewsInv, OrphansInv
    <3>4. faults \in Nat /\ faults' \in Nat /\ Debts \in Nat /\ Debts' \in Nat
      BY <2>1, <3>3 DEF ViewsInv, OrphansInv, Inv, TypeOK, Debts
    <3>5. Debts + n <= faults
      BY <3>1 DEF ViewsInv, DoubtsCovered
    <3>6. CASE Doubtful' \subseteq Doubtful
      <4> DEFINE d == Debts  e == Debts'  f == faults'
      <4>1. m \in Nat /\ m <= n
        BY <3>2, <3>6, FewerOf
      <4>2. /\ d \in Nat /\ e \in Nat /\ f \in Nat /\ faults \in Nat /\ n \in Nat
            /\ e <= d + (f - faults) /\ d + n <= faults
        BY <3>1, <3>2, <3>4, <3>5
      <4> HIDE DEF n, m, d, e, f
      <4>3. e + m <= f
        BY <4>1, <4>2
      <4> QED
        BY <4>3 DEF m, e, f
    <3>7. ASSUME faults' = faults + 1, NEW s, Doubtful' \subseteq Doubtful \cup {s},
                 Orphans' \subseteq Orphans, Deserted' \subseteq Deserted
          PROVE  Debts' + Cardinality(Doubtful') <= faults'
      <4>1. m \in Nat /\ m <= n + 1
        BY <3>2, <3>7, OneMore
      <4>2. /\ Cardinality(Orphans') <= Cardinality(Orphans)
            /\ Cardinality(Deserted') <= Cardinality(Deserted)
        BY <3>3, <3>7, FewerOf
      <4>3. Debts' <= Debts
        BY <3>3, <4>2 DEF Debts
      <4> HIDE DEF n, m
      <4> QED
        BY <3>2, <3>4, <3>5, <3>7, <4>1, <4>3 DEF m
    <3> QED
      BY <1>2, <2>2, <3>6, <3>7, DoubtsNext DEF ViewsInv, OrphansInv
  <2> QED
    BY <2>1, <2>2 DEF ViewsInv, DoubtsCovered
<1> QED
  BY <1>1, <1>2

LEMMA ViewsInit == Init => ViewsInv
<1> SUFFICES ASSUME Init PROVE ViewsInv
  OBVIOUS
<1>1. known = {} /\ DOMAIN calls = {} /\ DOMAIN lease = {} /\ faults = 0
  BY DEF Init, Nothing, Scheduler!Init, Scheduler!Nothing
<1>2. Doubtful = {} /\ Orphans = {} /\ Deserted = {}
  BY <1>1 DEF Doubtful, Orphans, Deserted
<1> QED
  BY <1>1, <1>2, OrphansInit, FS_EmptySet DEF ViewsInv, GrantsHold, DoubtsCovered, Debts

\* Until the scheduler starts anew, what its callers hold and what it leases differ in at
\* most one session for each connection that broke: an orphan or a ghost, never both.
DisagreementBounded ==
    phase = "up" => Cardinality(Orphans) + Cardinality(Ghosts) <= faults

\* Only broken connections set the callers' view and the scheduler's apart, each in one
\* session at most, however many closes of one session and tunes overlap.
THEOREM ViewsDifferByFaults ==
    Init /\ [][Next /\ ~SchedulerRestart]_vars => []DisagreementBounded
<1>1. ViewsInv => DisagreementBounded
  <2> SUFFICES ASSUME ViewsInv, phase = "up"
               PROVE  Cardinality(Orphans) + Cardinality(Ghosts) <= faults
    BY DEF DisagreementBounded
  <2>1. /\ Cardinality(Orphans) \in Nat /\ Cardinality(Deserted) \in Nat
        /\ IsFiniteSet(Doubtful) /\ Cardinality(Doubtful) \in Nat /\ faults \in Nat
    BY DebtsFinite, DoubtsFinite DEF ViewsInv, OrphansInv, Inv, TypeOK
  <2>2. Ghosts \subseteq Doubtful
    BY DEF Ghosts, Doubtful, InDoubt
  <2>3. Cardinality(Ghosts) \in Nat /\ Cardinality(Ghosts) <= Cardinality(Doubtful)
    BY <2>1, <2>2, FewerOf
  <2> QED
    BY <2>1, <2>3 DEF ViewsInv, DoubtsCovered, Debts
<1> QED
  BY <1>1, ViewsInit, ViewsNext, PTL

\* Where no connection breaks and the scheduler does not start anew, it leases exactly the
\* sessions that the callers hold, whenever it is up and no call is under way.
THEOREM ViewsAgree ==
    MaxFaults = 0 =>
        (Init /\ [][Next /\ ~SchedulerRestart]_vars
            => [](phase = "up" /\ DOMAIN calls = {} => DOMAIN lease = known))
<1> SUFFICES ASSUME MaxFaults = 0
             PROVE  Init /\ [][Next /\ ~SchedulerRestart]_vars
                      => [](phase = "up" /\ DOMAIN calls = {} => DOMAIN lease = known)
  OBVIOUS
<1>1. ViewsInv => (phase = "up" /\ DOMAIN calls = {} => DOMAIN lease = known)
  <2> SUFFICES ASSUME ViewsInv, phase = "up", DOMAIN calls = {}
               PROVE  DOMAIN lease = known
    OBVIOUS
  <2>1. /\ Cardinality(Orphans) \in Nat /\ Cardinality(Deserted) \in Nat
        /\ IsFiniteSet(Orphans) /\ IsFiniteSet(Doubtful)
        /\ Cardinality(Doubtful) \in Nat /\ faults = 0
    BY DebtsFinite, DoubtsFinite DEF ViewsInv, OrphansInv, Inv, TypeOK
  <2>2. Cardinality(Orphans) = 0 /\ Cardinality(Doubtful) = 0
    BY <2>1 DEF ViewsInv, DoubtsCovered, Debts
  <2>3. Orphans = {} /\ Doubtful = {}
    BY <2>1, <2>2, FS_EmptySet
  <2>4. Promised = {} /\ \A s : ~ClosesHeard(s)
    BY DEF Promised, ClosesHeard
  <2> QED
    BY <2>3, <2>4 DEF Orphans, Doubtful, InDoubt
<1> QED
  BY <1>1, ViewsInit, ViewsNext, PTL

=============================================================================
