------------------------ MODULE ReceiverClientProofs ------------------------
(***************************************************************************)
(* Proofs about ReceiverClient, for every set of configurations and number *)
(* of attempts, with planned disconnects and without: type correctness,    *)
(* that what an operation reported is so until a request that was given up *)
(* arrives late, and that operations come nearer to their end with each    *)
(* step.                                                                   *)
(***************************************************************************)
EXTENDS ReceiverClient, TLAPS

(* Type correctness.  It needs that who sleeps has an attempt left.        *)

TypeInv == TypeOK /\ (stage = "asleep" => attempt < MaxAttempts)

LEMMA TypeInit == Init => TypeInv
<1> SUFFICES ASSUME Init PROVE TypeInv
  OBVIOUS
<1>1. planned \in BOOLEAN /\ streaming \in BOOLEAN
  BY DEF Init
<1>2. attempt \in 1 .. MaxAttempts /\ late \in [Request -> Nat]
  BY AttemptsAssumption DEF Init
<1> QED
  BY <1>1, <1>2, ConfigsAssumption DEF Init, TypeInv, TypeOK

\* The backend's handlers keep its types.
LEMMA TypeHandler ==
    ASSUME TypeOK, NEW q \in Request, NEW answer, Handler(q, answer)
    PROVE  /\ config' \in Configs /\ stream' \in Configs \cup {None}
           /\ planned' \in BOOLEAN /\ streaming' \in BOOLEAN
<1>1. config' \in Configs /\ stream' \in Configs \cup {None}
  BY DEF Handler, TypeOK, Request, backendVars
<1>2. planned \in BOOLEAN /\ streaming \in BOOLEAN
  BY DEF TypeOK
<1>3. planned' \in BOOLEAN /\ streaming' \in BOOLEAN
  <2>1. CASE planned' = planned /\ streaming' = streaming
    BY <1>2, <2>1
  <2>2. CASE planned' = planned /\ streaming' = TRUE
    BY <1>2, <2>2
  <2>3. CASE planned' = planned /\ streaming' = FALSE
    BY <1>2, <2>3
  <2> QED
    BY <2>1, <2>2, <2>3 DEF Handler, backendVars
<1> QED
  BY <1>1, <1>3

\* Whatever fails ends the operation or leaves it asleep, with an attempt left.
LEMMA TypeFail ==
    ASSUME TypeOK, request # None, Fail
    PROVE  /\ request' \in Request \cup {None}
           /\ attempt' \in 1 .. MaxAttempts
           /\ stage' \in {"idle", "asleep"}
           /\ (stage' = "idle") = (request' = None)
           /\ stage' = "asleep" => attempt' < MaxAttempts
           /\ applied' \in Configs \cup {"unknown"}
           /\ expected' \in Configs \cup {"stopped", "unknown"}
  BY AttemptsAssumption DEF Fail, Throw, TypeOK

LEMMA TypeSucceed ==
    ASSUME TypeOK, request # None, Succeed
    PROVE  /\ request' = None /\ stage' = "idle"
           /\ attempt' \in 1 .. MaxAttempts
           /\ applied' \in Configs \cup {"unknown"}
           /\ expected' \in Configs \cup {"stopped", "unknown"}
  BY DEF Succeed, TypeOK, Request

LEMMA TypeNext == TypeInv /\ [Next]_vars => TypeInv'
<1> SUFFICES ASSUME TypeInv, [Next]_vars PROVE TypeInv'
  OBVIOUS
<1> USE DEF TypeInv
<1>1. ASSUME NEW q \in Request, Begin(q) PROVE TypeInv'
  <2>1. q # None
    BY NoneAssumption
  <2> QED
    BY <1>1, <2>1, AttemptsAssumption DEF Begin, TypeOK, backendVars
<1>2. ASSUME NEW q \in Request, HandleLate(q) PROVE TypeInv'
  <2>1. /\ config' \in Configs /\ stream' \in Configs \cup {None}
        /\ planned' \in BOOLEAN /\ streaming' \in BOOLEAN
    BY <1>2, TypeHandler DEF HandleLate
  <2>2. late' \in [Request -> Nat]
    BY <1>2 DEF HandleLate, TypeOK
  <2>3. disturbed' \subseteq {"config", "stream"}
    BY <1>2 DEF HandleLate, TypeOK
  <2> QED
    BY <1>2, <2>1, <2>2, <2>3 DEF HandleLate, TypeOK, clientVars
<1>3. CASE Handle
  <2>1. request \in Request
    BY <1>3 DEF Handle, TypeOK
  <2>2. /\ config' \in Configs /\ stream' \in Configs \cup {None}
        /\ planned' \in BOOLEAN /\ streaming' \in BOOLEAN
    BY <1>3, <2>1, TypeHandler DEF Handle
  <2>3. disturbed' \subseteq {"config", "stream"}
    BY <1>3, <2>1 DEF Handle, Settled, TypeOK
  <2> QED
    BY <1>3, <2>1, <2>2, <2>3 DEF Handle, TypeOK
<1>4. CASE Lose
  BY <1>4 DEF Lose, TypeOK, backendVars
<1>5. CASE Wake
  BY <1>5, AttemptsAssumption DEF Wake, TypeOK, backendVars
<1>6. CASE Abort
  <2>1. request \in Request
    BY <1>6 DEF Abort, TypeOK
  <2>2. late' \in [Request -> Nat]
    BY <1>6, <2>1 DEF Abort, TypeOK
  <2> QED
    BY <1>6, <2>1, <2>2, TypeFail, NoneAssumption DEF Abort, TypeOK, backendVars
<1>7. CASE Headers
  BY <1>7, TypeFail DEF Headers, TypeOK, backendVars
<1>8. CASE Body
  BY <1>8, TypeFail, TypeSucceed DEF Body, TypeOK, backendVars
<1>9. CASE UNCHANGED vars
  BY <1>9 DEF vars, backendVars, clientVars, TypeOK
<1>10. CASE Disconnect
  BY <1>10 DEF Disconnect, clientVars, TypeOK
<1> QED
  BY <1>1, <1>2, <1>3, <1>4, <1>5, <1>6, <1>7, <1>8, <1>9, <1>10 DEF Next, ClientRuns

LEMMA TypeInvariant == Spec => []TypeInv
  BY TypeInit, TypeNext, PTL DEF Spec

\* Types, for the backend, the client, what it knows and what is on its way.
THEOREM TypeCorrect == Spec => []TypeOK
<1>1. TypeInv => TypeOK
  BY DEF TypeInv
<1> QED
  BY <1>1, TypeInvariant, PTL

(* What was reported holds.  Under way, an operation may already have      *)
(* changed what it is about, and nothing else; once it is answered,        *)
(* what it is about is what it will report.                                *)

Acted == stage \in {"answered", "body"} /\ status = 200

WindowHolds ==
    /\ request = None \/ request.op # "configure" =>
           ("config" \notin disturbed /\ applied # "unknown" => config = applied)
    /\ request # None /\ request.op = "configure" /\ Acted =>
           ("config" \notin disturbed => config = request.config)

\* The stream is there, with configuration g, and delivers if nothing was planned.
Runs(g) == streaming /\ (stream = g \/ (planned /\ stream = None))

Stopped == ~streaming /\ stream = None

StreamHolds ==
    /\ request = None \/ request.op \notin {"start", "stop", "release"} =>
           ("stream" \notin disturbed =>
               /\ expected = "stopped" => Stopped
               /\ expected \in Configs => Runs(expected))
    /\ request # None /\ request.op \in {"stop", "release"} /\ Acted =>
           ("stream" \notin disturbed => Stopped)
    /\ request # None /\ request.op = "start" /\ Acted =>
           ("stream" \notin disturbed /\ applied # "unknown" => Runs(applied))

\* Only a stream that was started, and that nobody stopped, delivers.
Flagged == stream # None => streaming

BodyOk == stage = "body" => status = 200

IInv == TypeOK /\ Flagged /\ BodyOk /\ WindowHolds /\ StreamHolds

LEMMA HoldsInit == Init => IInv
  BY TypeInit, ConfigsAssumption DEF Init, IInv, TypeInv, Flagged, Stopped, Runs, BodyOk, WindowHolds, StreamHolds, Acted

\* A step of the client itself: backend and disturbances stay, and either the
\* operation goes on without having been answered, or it throws.
LEMMA HoldsFail ==
    ASSUME IInv, request \in Request, Fail, UNCHANGED <<backendVars, status, disturbed>>
    PROVE  Flagged' /\ BodyOk' /\ WindowHolds' /\ StreamHolds'
<1>1. CASE stage' = "asleep" /\ UNCHANGED <<request, attempt, applied, expected>>
  BY <1>1, NoneAssumption DEF IInv, Flagged, Runs, Stopped, BodyOk, WindowHolds, StreamHolds, Acted, backendVars
<1>2. CASE Throw
  BY <1>2, NoneAssumption, ConfigsAssumption
     DEF Throw, Streaming, IInv, TypeOK, Flagged, Runs, Stopped, BodyOk, WindowHolds, StreamHolds, Acted, backendVars
<1> QED
  BY <1>1, <1>2 DEF Fail

LEMMA HoldsNext == IInv /\ TypeOK' /\ [Next]_vars => IInv'
<1> SUFFICES ASSUME IInv, TypeOK', [Next]_vars
             PROVE  Flagged' /\ BodyOk' /\ WindowHolds' /\ StreamHolds'
  BY DEF IInv
<1> USE DEF IInv
<1>1. ASSUME NEW q \in Request, Begin(q) PROVE Flagged' /\ BodyOk' /\ WindowHolds' /\ StreamHolds'
  BY <1>1, NoneAssumption
     DEF Begin, TypeOK, Flagged, Runs, Stopped, BodyOk, WindowHolds, StreamHolds, Acted, backendVars
<1>2. ASSUME NEW q \in Request, HandleLate(q) PROVE Flagged' /\ BodyOk' /\ WindowHolds' /\ StreamHolds'
  <2>1. UNCHANGED <<request, stage, status, applied, expected>>
    BY <1>2 DEF HandleLate, clientVars
  <2>2. "config" \notin disturbed' => "config" \notin disturbed /\ config' = config
    BY <1>2 DEF HandleLate
  <2>3. /\ "stream" \notin disturbed' =>
               "stream" \notin disturbed /\ UNCHANGED <<streaming, stream>>
        /\ planned' = planned
    BY <1>2 DEF HandleLate, Handler, backendVars
  <2>4. BodyOk'
    BY <2>1 DEF BodyOk
  <2>5. WindowHolds'
    BY <2>1, <2>2 DEF WindowHolds, Acted
  <2>6. StreamHolds'
    BY <2>1, <2>3 DEF StreamHolds, Acted, Runs, Stopped
  <2>7. Flagged'
    BY <1>2 DEF HandleLate, Handler, backendVars, Flagged
  <2> QED
    BY <2>4, <2>5, <2>6, <2>7
<1>3. CASE Handle
  <2>1. request \in Request /\ request # None /\ stage = "sent"
    BY <1>3, NoneAssumption DEF Handle, TypeOK
  <2>2. PICK answer \in {200, 409} : /\ Handler(request, answer)
                                     /\ status' = answer
                                     /\ disturbed' = Settled(request, answer)
    BY <1>3 DEF Handle
  <2>3. stage' = "answered" /\ UNCHANGED <<request, applied, expected>>
    BY <1>3 DEF Handle
  <2>4. CASE request.op = "claim"
    BY <2>1, <2>2, <2>3, <2>4
       DEF Handler, Settled, backendVars, Flagged, Runs, Stopped, BodyOk, WindowHolds, StreamHolds, Acted
  <2>5. CASE request.op = "configure"
    BY <2>1, <2>2, <2>3, <2>5
       DEF Handler, Settled, backendVars, Flagged, Runs, Stopped, BodyOk, WindowHolds, StreamHolds, Acted
  <2>6. CASE request.op \in {"stop", "release"}
    BY <2>1, <2>2, <2>3, <2>6
       DEF Handler, Settled, backendVars, Flagged, Runs, Stopped, BodyOk, WindowHolds, StreamHolds, Acted
  <2>7. CASE request.op = "start" /\ answer = 200
    BY <2>1, <2>2, <2>3, <2>7
       DEF Handler, Settled, backendVars, Flagged, Runs, Stopped, BodyOk, WindowHolds, StreamHolds, Acted
  <2>8. CASE request.op = "start" /\ answer = 409
    BY <2>1, <2>2, <2>3, <2>8
       DEF Handler, Settled, backendVars, Flagged, Runs, Stopped, BodyOk, WindowHolds, StreamHolds, Acted
  <2> QED
    BY <2>1, <2>2, <2>4, <2>5, <2>6, <2>7, <2>8 DEF Request
<1>4. CASE Lose
  BY <1>4 DEF Lose, Flagged, Runs, Stopped, BodyOk, WindowHolds, StreamHolds, Acted, backendVars
<1>5. CASE Wake
  BY <1>5 DEF Wake, Flagged, Runs, Stopped, BodyOk, WindowHolds, StreamHolds, Acted, backendVars
<1>6. CASE Abort
  BY <1>6, HoldsFail DEF Abort, TypeOK
<1>7. CASE Headers
  <2>1. CASE status = 200 /\ stage' = "body" /\ UNCHANGED <<request, attempt, applied, expected>>
    BY <1>7, <2>1 DEF Headers, Flagged, Runs, Stopped, BodyOk, WindowHolds, StreamHolds, Acted, backendVars
  <2>2. CASE Fail
    BY <1>7, <2>2, HoldsFail DEF Headers, TypeOK
  <2> QED
    BY <1>7, <2>1, <2>2 DEF Headers
<1>8. CASE Body
  <2>1. request \in Request /\ request # None /\ Acted
    BY <1>8, NoneAssumption DEF Body, TypeOK, BodyOk, Acted
  <2>2. CASE Succeed
    <3>1. request' = None /\ stage' = "idle" /\ UNCHANGED <<backendVars, disturbed>>
      BY <1>8, <2>2 DEF Succeed, Body
    <3>2. CASE request.op = "configure"
      BY <2>1, <2>2, <3>1, <3>2
         DEF Succeed, TypeOK, backendVars, Flagged, Runs, Stopped, BodyOk, WindowHolds, StreamHolds, Acted
    <3>3. CASE request.op \in {"stop", "release"}
      BY <2>1, <2>2, <3>1, <3>3, ConfigsAssumption
         DEF Succeed, TypeOK, backendVars, Flagged, Runs, Stopped, BodyOk, WindowHolds, StreamHolds, Acted
    <3>4. CASE request.op = "start"
      BY <2>1, <2>2, <3>1, <3>4, ConfigsAssumption
         DEF Succeed, TypeOK, backendVars, Flagged, Runs, Stopped, BodyOk, WindowHolds, StreamHolds, Acted
    <3>5. CASE request.op = "claim"
      BY <2>1, <2>2, <3>1, <3>5
         DEF Succeed, TypeOK, backendVars, Flagged, Runs, Stopped, BodyOk, WindowHolds, StreamHolds, Acted
    <3> QED
      BY <2>1, <3>2, <3>3, <3>4, <3>5 DEF Request
  <2>3. CASE Fail
    BY <1>8, <2>1, <2>3, HoldsFail DEF Body
  <2> QED
    BY <1>8, <2>2, <2>3 DEF Body
<1>9. CASE UNCHANGED vars
  BY <1>9 DEF vars, backendVars, clientVars, Flagged, Runs, Stopped, BodyOk, WindowHolds, StreamHolds, Acted
<1>10. CASE Disconnect
  <2>1. /\ planned /\ stream # None /\ stream' = None
        /\ UNCHANGED <<planned, config, streaming, request, stage, status, applied, expected, disturbed>>
    BY <1>10 DEF Disconnect, clientVars
  <2>2. streaming /\ ~Stopped /\ (\A g : Runs(g) => Runs(g)')
    BY <2>1 DEF Flagged, Stopped, Runs
  <2>3. Flagged' /\ BodyOk' /\ WindowHolds'
    BY <2>1, <2>2 DEF Flagged, BodyOk, WindowHolds, Acted
  <2>4. StreamHolds'
    BY <2>1, <2>2 DEF StreamHolds, Acted
  <2> QED
    BY <2>3, <2>4
<1> QED
  BY <1>1, <1>2, <1>3, <1>4, <1>5, <1>6, <1>7, <1>8, <1>9, <1>10 DEF Next, ClientRuns

\* Whatever was lost, aborted and retried: what the operations reported of window
\* and stream is so, until a request that was given up arrives late; a planned
\* disconnect ends the stream's blocks, and nothing else that was reported.
THEOREM ReportsAlwaysHold == Spec => []ReportsHold
<1>1. IInv => ReportsHold
  BY DEF IInv, TypeOK, WindowHolds, StreamHolds, Runs, Stopped, ReportsHold
<1> QED
  BY <1>1, HoldsInit, HoldsNext, TypeCorrect, PTL DEF Spec

(* What only late requests and planned disconnects can disturb.            *)

\* What the operations reported is so, without reserve but for the blocks of a
\* stream whose end was planned.
ReportsReliable ==
    stage = "idle" =>
        /\ applied # "unknown" => config = applied
        /\ expected = "stopped" => ~streaming /\ stream = None
        /\ expected \in Configs =>
               /\ streaming /\ stream \in {expected, None}
               /\ ~planned => stream = expected

LEMMA UndisturbedNext ==
    ASSUME disturbed = {}, [Next /\ ~(\E q \in Request : HandleLate(q))]_vars
    PROVE  disturbed' = {}
<1>1. CASE Handle
  BY <1>1 DEF Handle, Settled
<1>2. CASE UNCHANGED disturbed
  BY <1>2
<1> QED
  BY <1>1, <1>2 DEF Next, ClientRuns, Begin, Disconnect, Lose, Wake, Abort, Headers, Body, vars

\* Losses, aborts and retries alone never make a report false: where no request that was
\* given up arrives after all, every report stands until the next operation, but for a
\* stream that the scenario ends: it delivers no more, and is still the receiver's.
THEOREM OnlyLateAndPlannedDisturb ==
    Init /\ [][Next /\ ~(\E q \in Request : HandleLate(q))]_vars => []ReportsReliable
<1>1. Init => TypeInv /\ IInv /\ disturbed = {}
  BY TypeInit, HoldsInit DEF Init
<1>2. TypeInv /\ IInv /\ disturbed = {} /\ [Next /\ ~(\E q \in Request : HandleLate(q))]_vars
          => (TypeInv /\ IInv /\ disturbed = {})'
  <2> SUFFICES ASSUME TypeInv, IInv, disturbed = {},
                      [Next /\ ~(\E q \in Request : HandleLate(q))]_vars
               PROVE  TypeInv' /\ IInv' /\ disturbed' = {}
    OBVIOUS
  <2>1. [Next]_vars
    OBVIOUS
  <2>2. TypeInv'
    BY <2>1, TypeNext
  <2>3. IInv'
    BY <2>1, <2>2, HoldsNext DEF TypeInv
  <2> QED
    BY <2>2, <2>3, UndisturbedNext
<1>3. TypeInv /\ IInv /\ disturbed = {} => ReportsReliable
  BY DEF IInv, TypeOK, WindowHolds, StreamHolds, Runs, Stopped, ReportsReliable
<1> QED
  BY <1>1, <1>2, <1>3, PTL

(* How long an operation can take: the safety half of Settles.             *)

\* The steps that an attempt may still take before it has failed or succeeded.
Rank == CASE stage = "sent" -> 3
          [] stage = "answered" -> 2
          [] stage \in {"lost", "body"} -> 1
          [] OTHER -> 0

\* The steps that the operation may still take.
Remaining == IF stage = "idle" THEN 0 ELSE 4 * (MaxAttempts - attempt) + Rank

\* Each step brings the operation under way nearer to its end, and only that of a request
\* given up earlier, or of a stream that ends by itself, leaves it where it is.
OperationsShrink ==
    [][stage # "idle" => \/ Remaining' < Remaining
                         \/ UNCHANGED clientVars /\ (Disconnect \/ \E q \in Request : HandleLate(q))]_vars

LEMMA RemainingBounds == TypeOK => Remaining \in 0 .. 4 * MaxAttempts - 1
<1> SUFFICES ASSUME TypeOK PROVE Remaining \in 0 .. 4 * MaxAttempts - 1
  OBVIOUS
<1>1. attempt \in 1 .. MaxAttempts /\ MaxAttempts \in Nat \ {0} /\ Rank \in 0 .. 3
  BY AttemptsAssumption DEF TypeOK, Rank
<1> HIDE DEF Rank
<1> QED
  BY <1>1 DEF Remaining

\* An attempt that fails leaves its operation over, or with fewer attempts to come.
LEMMA FailShrinks ==
    ASSUME TypeOK, stage \in {"sent", "answered", "lost", "body"}, Fail
    PROVE  Remaining' < Remaining
<1>1. attempt \in 1 .. MaxAttempts /\ MaxAttempts \in Nat \ {0}
  BY AttemptsAssumption DEF TypeOK
<1>2. CASE stage' = "asleep" /\ attempt' = attempt
  BY <1>1, <1>2 DEF Remaining, Rank
<1>3. CASE stage' = "idle"
  BY <1>1, <1>3 DEF Remaining, Rank
<1> QED
  BY <1>2, <1>3 DEF Fail, Throw

LEMMA OperationNext ==
    ASSUME TypeInv, Next, stage # "idle"
    PROVE  \/ Remaining' < Remaining
           \/ UNCHANGED clientVars /\ (Disconnect \/ \E q \in Request : HandleLate(q))
<1>1. attempt \in 1 .. MaxAttempts /\ MaxAttempts \in Nat \ {0} /\ TypeOK
  BY AttemptsAssumption DEF TypeInv, TypeOK
<1>2. ASSUME NEW q \in Request, HandleLate(q) PROVE UNCHANGED clientVars
  BY <1>2 DEF HandleLate
<1>3. CASE Handle
  BY <1>1, <1>3 DEF Handle, Remaining, Rank
<1>4. CASE Lose
  BY <1>1, <1>4 DEF Lose, Remaining, Rank
<1>5. CASE Wake
  BY <1>1, <1>5 DEF Wake, Remaining, Rank, TypeInv
<1>6. CASE Abort
  BY <1>1, <1>6, FailShrinks DEF Abort
<1>7. CASE Headers
  <2>1. CASE stage' = "body" /\ attempt' = attempt
    BY <1>1, <1>7, <2>1 DEF Headers, Remaining, Rank
  <2>2. CASE Fail
    BY <1>1, <1>7, <2>2, FailShrinks DEF Headers
  <2> QED
    BY <1>7, <2>1, <2>2 DEF Headers
<1>8. CASE Body
  <2>1. CASE Succeed
    BY <1>1, <1>8, <2>1 DEF Body, Succeed, Remaining, Rank
  <2>2. CASE Fail
    BY <1>1, <1>8, <2>2, FailShrinks DEF Body
  <2> QED
    BY <1>8, <2>1, <2>2 DEF Body
<1>9. \A q \in Request : ~Begin(q)
  BY DEF Begin
<1>10. Disconnect => UNCHANGED clientVars
  BY DEF Disconnect
<1> QED
  BY <1>2, <1>3, <1>4, <1>5, <1>6, <1>7, <1>8, <1>9, <1>10 DEF Next, ClientRuns

\* An operation is over after fewer than 4 * MaxAttempts of its own steps, whatever is
\* lost, aborted or refused: withRetry cannot go round for ever.
THEOREM OperationsAlwaysShrink ==
    Spec => OperationsShrink /\ [](Remaining \in 0 .. 4 * MaxAttempts - 1)
<1>1. TypeInv /\ [Next]_vars
        => [stage # "idle" => \/ Remaining' < Remaining
                              \/ UNCHANGED clientVars /\ (Disconnect \/ \E q \in Request : HandleLate(q))]_vars
  BY OperationNext
<1>2. TypeInv => Remaining \in 0 .. 4 * MaxAttempts - 1
  BY RemainingBounds DEF TypeInv
<1> QED
  BY <1>1, <1>2, TypeInvariant, PTL DEF Spec, OperationsShrink

=============================================================================
