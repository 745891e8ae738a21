--------------------------- MODULE WaterfallProofs ---------------------------
(***************************************************************************)
(* Proofs about the waterfall generator, for any number of clients, any    *)
(* depth of the queue and any number of blocks per line.                   *)
(***************************************************************************)
EXTENDS Waterfall, FiniteSetTheorems, TLAPS

\* Where a process begins, and begins again.
LEMMA TypeInit ==
    /\ Init => TypeOK
    /\ Exit => TypeOK'
<1>1. [c \in Clients |-> Away] \in
          [Clients -> [at : {"out", "in", "leaving"}, id : Ids \cup {None}]]
  BY DEF Away
<1>2. 0 \in 0..MaxQueue /\ 0 \in 0..BlocksPerLine
  BY SizesAssumption
<1> QED
  BY <1>1, <1>2 DEF Init, Exit, TypeOK

LEMMA TypeNext == TypeOK /\ [Next]_vars => TypeOK'
<1> SUFFICES ASSUME TypeOK, [Next]_vars PROVE TypeOK'
  OBVIOUS
<1> USE SizesAssumption DEF TypeOK, Away
<1>1. CASE MainRuns \/ Close
  BY <1>1, TypeInit DEF MainRuns, Start, Notify, Close, Woken
<1>2. CASE Submit \/ FeederEnds \/ WakeSpuriously
  <2>1. CASE Submit
    BY <2>1 DEF Submit, Woken
  <2>2. CASE FeederEnds \/ WakeSpuriously
    BY <2>2 DEF FeederEnds, WakeSpuriously
  <2> QED
    BY <1>2, <2>1, <2>2
<1>3. CASE WorkerRuns
  <2>1. CASE Take
    BY <2>1 DEF Take
  <2>2. CASE Sleep \/ End \/ Lock \/ Deliver \/ Unlock
    BY <2>2 DEF Sleep, End, Lock, Deliver, Unlock
  <2> QED
    BY <1>3, <2>1, <2>2 DEF WorkerRuns
<1>4. ASSUME NEW c \in Clients, Subscribe(c) \/ Unsubscribe(c) \/ Unsubscribed(c)
      PROVE  TypeOK'
  BY <1>4 DEF Subscribe, Unsubscribe, Unsubscribed
<1>5. CASE UNCHANGED vars
  BY <1>5 DEF vars
<1> QED
  BY <1>1, <1>2, <1>3, <1>4, <1>5 DEF Next

\* The variables keep their types; the queue never outgrows its limit.
THEOREM TypeCorrect == Spec => []TypeOK
BY TypeInit, TypeNext, PTL DEF Spec

----------------------------------------------------------------------------
(* Wake-ups.                                                               *)

\* A queue is closed, while the service lasts, by a stop() that is not over.
Awake == NeverAsleepOnWork /\ (closed => main \in {"notifying", "joining"})

LEMMA AwakeNext == TypeOK /\ Awake /\ [Next]_vars => Awake'
<1> SUFFICES ASSUME TypeOK, Awake, [Next]_vars PROVE Awake'
  OBVIOUS
<1> USE DEF Awake, NeverAsleepOnWork
<1>1. CASE MainRuns \/ Close
  BY <1>1 DEF MainRuns, Start, Notify, Exit, Close, Woken
<1>2. CASE Submit \/ FeederEnds \/ WakeSpuriously
  BY <1>2 DEF Submit, FeederEnds, WakeSpuriously, Woken
<1>3. CASE WorkerRuns
  BY <1>3 DEF WorkerRuns, Take, Sleep, End, Lock, Deliver, Unlock
<1>4. ASSUME NEW c \in Clients, Subscribe(c) \/ Unsubscribe(c) \/ Unsubscribed(c)
      PROVE  Awake'
  BY <1>4 DEF Subscribe, Unsubscribe, Unsubscribed
<1>5. CASE UNCHANGED vars
  BY <1>5 DEF vars
<1> QED
  BY <1>1, <1>2, <1>3, <1>4, <1>5 DEF Next

\* The worker never sleeps over a block, nor over a closed queue that nobody is
\* about to wake it for.
THEOREM NoWakeUpLost == Spec => []NeverAsleepOnWork
<1>1. Init => Awake
  BY DEF Init, Awake, NeverAsleepOnWork
<1>2. Awake => NeverAsleepOnWork
  BY DEF Awake
<1> QED
  BY <1>1, <1>2, TypeCorrect, AwakeNext, PTL DEF Spec

----------------------------------------------------------------------------
(* Subscriptions.                                                          *)

\* The map holds the ids of those who have not left; each is one client's; and a
\* line is under way only while the mutex is held, by a worker that was started.
Subscribed ==
    /\ main = "starting" => worker = "none"
    /\ \A c \in Clients : client[c].at = "out" => client[c].id = None
    /\ subscribers \subseteq {client[c].id : c \in Clients}
    /\ \A c, d \in Clients : client[c].id = client[d].id /\ client[c].id # None => c = d
    /\ left \subseteq subscribers
    /\ left # {} => worker = "delivering"

LEMMA SubscribedNext == TypeOK /\ Subscribed /\ [Next]_vars => Subscribed'
<1> SUFFICES ASSUME TypeOK, Subscribed, [Next]_vars PROVE Subscribed'
  OBVIOUS
<1> USE DEF Subscribed
<1>1. CASE Start \/ Notify \/ Close
  BY <1>1 DEF Start, Notify, Close, Woken
<1>exit. CASE Exit
  BY <1>exit DEF Exit, Away
<1>2. CASE Submit \/ FeederEnds \/ WakeSpuriously
  BY <1>2 DEF Submit, FeederEnds, WakeSpuriously, Woken
<1>3. CASE WorkerRuns
  BY <1>3 DEF WorkerRuns, Take, Sleep, End, Lock, Deliver, Unlock
<1>4. ASSUME NEW c \in Clients, Subscribe(c) PROVE Subscribed'
  <2>1. PICK i \in Ids \ {client[d].id : d \in Clients} :
            /\ subscribers' = subscribers \cup {i}
            /\ client' = [client EXCEPT ![c] = [at |-> "in", id |-> i]]
    BY <1>4 DEF Subscribe
  <2>2. client'[c].id = i /\ \A d \in Clients \ {c} : client'[d] = client[d]
    BY <2>1 DEF TypeOK
  <2>3. client[c].id \notin subscribers /\ UNCHANGED <<left, worker>>
    BY <1>4, IdsAssumption DEF Subscribe, TypeOK
  <2>4. client'[c].at = "in" /\ UNCHANGED main
    BY <2>1, <1>4 DEF Subscribe, TypeOK
  <2> QED
    BY <2>1, <2>2, <2>3, <2>4
<1>5. ASSUME NEW c \in Clients, Unsubscribe(c) PROVE Subscribed'
  BY <1>5 DEF Unsubscribe, TypeOK
<1>6. ASSUME NEW c \in Clients, Unsubscribed(c) PROVE Subscribed'
  BY <1>6, IdsAssumption DEF Unsubscribed, Away, TypeOK
<1>7. CASE UNCHANGED vars
  BY <1>7 DEF vars
<1> QED
  BY <1>1, <1>exit, <1>2, <1>3, <1>4, <1>5, <1>6, <1>7 DEF Next, MainRuns

\* No callback is called after its unsubscribe() has returned.
THEOREM NoCallbackAfterwards == Spec => []CallbacksAlive
<1>1. Init => Subscribed
  BY DEF Init, Subscribed, Away
<1>2. Subscribed => CallbacksAlive
  BY DEF Subscribed, CallbacksAlive
<1> QED
  BY <1>1, <1>2, TypeCorrect, SubscribedNext, PTL DEF Spec

----------------------------------------------------------------------------
(* How long stop() can take: the safety half of StopEnds.                  *)

Stopping == main \in {"notifying", "joining"}

\* The most steps that a block can cost the worker: a line for every subscriber.
PerBlock == Cardinality(Ids) + 3

\* The steps the worker may still take over the line it is at.
OfLine == CASE worker = "locking" -> Cardinality(Ids) + 3
            [] worker = "delivering" -> Cardinality(left) + 2
            [] worker = "asleep" -> 2
            [] worker = "checking" -> 1
            [] OTHER -> 0

\* The steps until main can return, if no more blocks come.
Remaining == queue * PerBlock + OfLine + (IF main = "notifying" THEN 1 ELSE 0)

\* Once no blocks come any more, every step of a process that is being stopped brings
\* it nearer to its end, except for those of clients, who do not put it off.
StopShrinks ==
    [][Stopping /\ ~feeding => \/ main' = "starting"
                               \/ Remaining' < Remaining
                               \/ UNCHANGED <<main, queue, worker, left>>]_vars

\* What stop() relies on: its flag is set, and there is a worker to join.
StopReady == Stopping => closed /\ worker # "none"

StopInv == TypeOK /\ Awake /\ Subscribed /\ StopReady /\ (main = "serving" => worker # "none")

LEMMA StopInit == Init => StopInv
  BY TypeInit DEF Init, StopInv, Awake, NeverAsleepOnWork, Subscribed, StopReady, Stopping, Away

LEMMA StopNext == StopInv /\ [Next]_vars => StopInv'
<1> SUFFICES ASSUME StopInv, [Next]_vars
             PROVE  StopReady' /\ (main' = "serving" => worker' # "none")
  BY TypeNext, AwakeNext, SubscribedNext DEF StopInv
<1> USE DEF StopInv, StopReady, Stopping
<1>1. CASE MainRuns \/ Close
  BY <1>1 DEF MainRuns, Start, Notify, Exit, Close, Woken
<1>2. CASE Submit \/ FeederEnds \/ WakeSpuriously
  BY <1>2 DEF Submit, FeederEnds, WakeSpuriously, Woken
<1>3. CASE WorkerRuns
  BY <1>3 DEF WorkerRuns, Take, Sleep, End, Lock, Deliver, Unlock
<1>4. ASSUME NEW c \in Clients, Subscribe(c) \/ Unsubscribe(c) \/ Unsubscribed(c)
      PROVE  StopReady' /\ (main' = "serving" => worker' # "none")
  BY <1>4 DEF Subscribe, Unsubscribe, Unsubscribed
<1>5. CASE UNCHANGED vars
  BY <1>5 DEF vars
<1> QED
  BY <1>1, <1>2, <1>3, <1>4, <1>5 DEF Next

LEMMA StopInvariant == Spec => []StopInv
  BY StopInit, StopNext, PTL DEF Spec

\* A line under way goes to at most all ids there are.
LEMMA LineBounds ==
    ASSUME NEW S, S \subseteq Ids
    PROVE  /\ IsFiniteSet(S) /\ Cardinality(S) \in Nat /\ Cardinality(Ids) \in Nat
           /\ Cardinality(S) <= Cardinality(Ids)
  BY IdsAssumption, FS_Subset, FS_CardinalityType

LEMMA RemainingBounds ==
    TypeOK => /\ OfLine \in 0 .. PerBlock
              /\ Remaining \in 0 .. (MaxQueue + 1) * PerBlock + 1
<1> SUFFICES ASSUME TypeOK
             PROVE  /\ OfLine \in 0 .. PerBlock
                    /\ Remaining \in 0 .. (MaxQueue + 1) * PerBlock + 1
  OBVIOUS
<1>1. Cardinality(left) \in Nat /\ Cardinality(Ids) \in Nat /\ Cardinality(left) <= Cardinality(Ids)
  BY LineBounds DEF TypeOK
<1>2. OfLine \in 0 .. PerBlock /\ PerBlock \in Nat
  BY <1>1 DEF OfLine, PerBlock
<1>3. queue \in 0 .. MaxQueue /\ MaxQueue \in Nat
  BY SizesAssumption DEF TypeOK
<1>4. \A p \in Nat, q \in 0 .. MaxQueue : q * p \in Nat /\ q * p <= MaxQueue * p
                                           /\ (MaxQueue + 1) * p = MaxQueue * p + p
  BY <1>3
<1>5. /\ queue * PerBlock \in Nat /\ MaxQueue * PerBlock \in Nat
      /\ queue * PerBlock <= MaxQueue * PerBlock
      /\ (MaxQueue + 1) * PerBlock = MaxQueue * PerBlock + PerBlock
  BY <1>2, <1>3, <1>4
<1> QED
  BY <1>2, <1>5 DEF Remaining

\* What a step leaves for the worker to do, compared without the products.
LEMMA RemainingShrinks ==
    ASSUME TypeOK, TypeOK', main' = main,
           \/ queue' = queue /\ OfLine' < OfLine
           \/ queue' = queue - 1 /\ OfLine' < OfLine + PerBlock
    PROVE  Remaining' < Remaining
<1> DEFINE o == OfLine'  q == queue'
<1>1. OfLine \in Nat /\ PerBlock \in Nat /\ queue \in Nat
  BY RemainingBounds, LineBounds, SizesAssumption DEF PerBlock, TypeOK
<1>2. o \in Nat /\ q \in Nat
  <2>1. Cardinality(left') \in Nat /\ Cardinality(Ids) \in Nat
    BY LineBounds DEF TypeOK
  <2>2. o \in Nat
    BY <2>1 DEF OfLine
  <2> QED
    BY <2>2, SizesAssumption DEF TypeOK
<1>3. Remaining' = q * PerBlock + o + (IF main = "notifying" THEN 1 ELSE 0)
  BY DEF Remaining, PerBlock
<1>4. \/ q = queue /\ o < OfLine
      \/ q = queue - 1 /\ o < OfLine + PerBlock
  OBVIOUS
<1> HIDE DEF o, q
<1>5. q * PerBlock + o < queue * PerBlock + OfLine
  <2>1. (queue - 1) * PerBlock = queue * PerBlock - PerBlock
    BY <1>1
  <2>2. queue * PerBlock \in Int
    BY <1>1
  <2> QED
    BY <1>1, <1>2, <1>4, <2>1, <2>2
<1>6. q * PerBlock \in Int /\ queue * PerBlock \in Int
  BY <1>1, <1>2
<1> QED
  BY <1>1, <1>2, <1>3, <1>5, <1>6 DEF Remaining

LEMMA StoppingNext ==
    ASSUME StopInv, StopInv', Next, Stopping, ~feeding
    PROVE  \/ main' = "starting"
           \/ Remaining' < Remaining
           \/ UNCHANGED <<main, queue, worker, left>>
<1>1. /\ closed /\ TypeOK /\ TypeOK'
      /\ worker = "asleep" => main = "notifying"
  BY DEF StopInv, StopReady, Awake, NeverAsleepOnWork
<1>2. Cardinality(Ids) \in Nat /\ Cardinality(left) \in Nat /\ IsFiniteSet(left)
      /\ IsFiniteSet(subscribers) /\ Cardinality(subscribers) \in Nat
      /\ Cardinality(left) <= Cardinality(Ids)
      /\ Cardinality(subscribers) <= Cardinality(Ids)
  BY <1>1, LineBounds DEF TypeOK
<1>3. CASE Notify
  <2> DEFINE o == OfLine'
  <2>1. main = "notifying" /\ main' = "joining" /\ queue' = queue /\ left' = left
    BY <1>3 DEF Notify
  <2>2. o \in Nat /\ OfLine \in Nat /\ o <= OfLine
    BY <1>2, <1>3 DEF Notify, Woken, OfLine
  <2>3. queue * PerBlock \in Int
    BY <1>1, <1>2, SizesAssumption DEF TypeOK, PerBlock
  <2>4. /\ Remaining' = queue * PerBlock + o + 0
        /\ Remaining = queue * PerBlock + OfLine + 1
    <3>1. Remaining' = queue' * PerBlock + o + (IF main' = "notifying" THEN 1 ELSE 0)
      BY DEF Remaining, PerBlock
    <3> HIDE DEF o
    <3> QED
      BY <2>1, <3>1 DEF Remaining
  <2> HIDE DEF o
  <2> QED
    BY <2>2, <2>3, <2>4
<1>4. CASE Exit
  BY <1>4 DEF Exit
<1>5. CASE Take
  <2>1. main' = main /\ queue' = queue - 1
    BY <1>5 DEF Take
  <2>2. OfLine' < OfLine + PerBlock
    BY <1>2, <1>5 DEF Take, OfLine, PerBlock
  <2> QED
    BY <1>1, <2>1, <2>2, RemainingShrinks
<1>6. CASE Lock
  <2>1. main' = main /\ queue' = queue /\ OfLine' < OfLine
    BY <1>2, <1>6 DEF Lock, OfLine
  <2> QED
    BY <1>1, <2>1, RemainingShrinks
<1>7. CASE Deliver
  <2>1. PICK i \in left : left' = left \ {i}
    BY <1>7 DEF Deliver
  <2>2. Cardinality(left \ {i}) = Cardinality(left) - 1
    BY <1>2, <2>1, FS_RemoveElement
  <2>3. OfLine' = Cardinality(left \ {i}) + 2 /\ OfLine = Cardinality(left) + 2
    BY <1>7, <2>1 DEF Deliver, OfLine
  <2>4. main' = main /\ queue' = queue /\ OfLine' < OfLine
    BY <1>2, <1>7, <2>2, <2>3 DEF Deliver
  <2> QED
    BY <1>1, <2>4, RemainingShrinks
<1>8. CASE Unlock \/ End \/ WakeSpuriously
  <2>1. main' = main /\ queue' = queue /\ OfLine' < OfLine
    BY <1>2, <1>8, FS_EmptySet DEF Unlock, End, WakeSpuriously, OfLine
  <2> QED
    BY <1>1, <2>1, RemainingShrinks
<1>9. ASSUME NEW c \in Clients, Subscribe(c) \/ Unsubscribe(c) \/ Unsubscribed(c)
      PROVE  UNCHANGED <<main, queue, worker, left>>
  BY <1>9 DEF Subscribe, Unsubscribe, Unsubscribed
<1>10. ~Start /\ ~Close /\ ~Submit /\ ~FeederEnds /\ ~Sleep
  BY <1>1 DEF Stopping, Start, Close, Submit, FeederEnds, Sleep
<1> QED
  BY <1>3, <1>4, <1>5, <1>6, <1>7, <1>8, <1>9, <1>10 DEF Next, MainRuns, WorkerRuns

\* stop() is over after a bounded number of steps of worker and main once no blocks come
\* any more: the worker neither sleeps again nor is kept by clients who come and go.
THEOREM StopAlwaysShrinks ==
    Spec => StopShrinks /\ [](Remaining \in 0 .. (MaxQueue + 1) * PerBlock + 1)
<1>1. StopInv /\ StopInv' /\ [Next]_vars
        => [Stopping /\ ~feeding => \/ main' = "starting"
                                    \/ Remaining' < Remaining
                                    \/ UNCHANGED <<main, queue, worker, left>>]_vars
  BY StoppingNext
<1>2. StopInv => Remaining \in 0 .. (MaxQueue + 1) * PerBlock + 1
  BY RemainingBounds DEF StopInv
<1> QED
  BY <1>1, <1>2, StopInvariant, PTL DEF Spec, StopShrinks

============================================================================
