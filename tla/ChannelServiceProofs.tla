------------------------ MODULE ChannelServiceProofs ------------------------
(***************************************************************************)
(* Proofs about ChannelService, for any number of threads, channels,       *)
(* windows and workers and any depth of the queues: type correctness,      *)
(* RegisteredAlive, ThreadsOwned, QueuesNewest and JoinsShrink.            *)
(***************************************************************************)
EXTENDS ChannelService, SequenceTheorems, TLAPS

(* What a step does to the workers.                                        *)

LEMMA ClosedFacts ==
    ASSUME TypeOK, NEW k
    PROVE  /\ DOMAIN Closed(k) = DOMAIN worker
           /\ \A x \in DOMAIN worker :
                  /\ Closed(k)[x] \in Worker
                  /\ x # k => Closed(k)[x] = worker[x]
                  /\ x = k => Closed(k)[x].closed /\ ~Closed(k)[x].active
                  /\ Closed(k)[x].window = worker[x].window
                  /\ Closed(k)[x].thread = worker[x].thread
                  /\ Closed(k)[x].queue = worker[x].queue
                  /\ Closed(k)[x].taken = worker[x].taken
<1>1. \A x \in DOMAIN worker : worker[x] \in Worker
  BY DEF TypeOK
<1> QED
  BY <1>1 DEF Closed, Worker

LEMMA WithoutFacts ==
    ASSUME NEW f, NEW S
    PROVE  /\ DOMAIN Without(f, S) = DOMAIN f \ S
           /\ \A x \in DOMAIN f \ S : Without(f, S)[x] = f[x]
  BY DEF Without, Restrict

LEMMA WithFacts ==
    ASSUME NEW f, NEW x, NEW v
    PROVE  /\ DOMAIN With(f, x, v) = DOMAIN f \cup {x}
           /\ With(f, x, v)[x] = v
           /\ \A y \in DOMAIN f \ {x} : With(f, x, v)[y] = f[y]
  BY DEF With

\* A block is put at the end, for which a full queue gives up its first.
LEMMA PushedFacts ==
    ASSUME NEW q \in Seq(1 .. MaxBlocks), NEW b \in 1 .. MaxBlocks, Len(q) <= MaxDepth
    PROVE  /\ Pushed(q, b) \in Seq(1 .. MaxBlocks)
           /\ Len(Pushed(q, b)) <= MaxDepth /\ Len(Pushed(q, b)) > 0
           /\ Pushed(q, b)[Len(Pushed(q, b))] = b
           /\ \E d \in {0, 1} :
                  /\ d <= Len(q) /\ Len(Pushed(q, b)) = Len(q) - d + 1
                  /\ \A i \in 1 .. Len(q) - d : Pushed(q, b)[i] = q[i + d]
<1>1. MaxDepth \in Nat \ {0} /\ Len(q) \in Nat
  BY DepthAssumption
<1>2. CASE Len(q) >= MaxDepth
  <2>1. /\ q # <<>> /\ Tail(q) \in Seq(1 .. MaxBlocks) /\ Len(Tail(q)) = Len(q) - 1
        /\ \A i \in 1 .. Len(q) - 1 : Tail(q)[i] = q[i + 1]
    BY <1>1, <1>2
  <2>2. Pushed(q, b) = Append(Tail(q), b)
    BY <1>2 DEF Pushed
  <2>3. /\ Len(Pushed(q, b)) = Len(q) /\ Pushed(q, b) \in Seq(1 .. MaxBlocks)
        /\ Pushed(q, b)[Len(q)] = b
        /\ \A i \in 1 .. Len(q) - 1 : Pushed(q, b)[i] = Tail(q)[i]
    BY <1>1, <2>1, <2>2
  <2>4. 1 <= Len(q) /\ \A i \in 1 .. Len(q) - 1 : Pushed(q, b)[i] = q[i + 1]
    BY <1>1, <1>2, <2>1, <2>3
  <2> QED
    BY <1>1, <1>2, <2>3, <2>4
<1>3. CASE ~(Len(q) >= MaxDepth)
  <2>1. Pushed(q, b) = Append(q, b)
    BY <1>3 DEF Pushed
  <2>2. /\ Len(Pushed(q, b)) = Len(q) + 1 /\ Pushed(q, b) \in Seq(1 .. MaxBlocks)
        /\ Pushed(q, b)[Len(q) + 1] = b
        /\ \A i \in 1 .. Len(q) : Pushed(q, b)[i] = q[i]
    BY <1>1, <2>1
  <2> QED
    BY <1>1, <1>3, <2>2
<1> QED
  BY <1>2, <1>3

LEMMA PushedType ==
    ASSUME NEW q \in Seq(1 .. MaxBlocks), NEW b \in 1 .. MaxBlocks
    PROVE  Pushed(q, b) \in Seq(1 .. MaxBlocks)
<1>1. CASE Len(q) >= MaxDepth
  <2>1. Tail(q) \in Seq(1 .. MaxBlocks)
    BY <1>1, DepthAssumption
  <2> QED
    BY <1>1, <2>1 DEF Pushed
<1>2. CASE ~(Len(q) >= MaxDepth)
  BY <1>2 DEF Pushed
<1> QED
  BY <1>1, <1>2

LEMMA TakenType ==
    ASSUME NEW q \in Seq(1 .. MaxBlocks), q # <<>>
    PROVE  Tail(q) \in Seq(1 .. MaxBlocks) /\ Head(q) \in 0 .. MaxBlocks
<1>1. Tail(q) \in Seq(1 .. MaxBlocks) /\ Head(q) \in 1 .. MaxBlocks
  BY HeadTailProperties
<1> QED
  BY <1>1, DepthAssumption

(* Types.  A datagram that was read has a number left.                     *)

TypeInv == TypeOK /\ (udp # Nobody => received[udp] < MaxBlocks)

WorkersOK ==
    /\ g_workers \in [Channels -> Workers \cup {Nobody}]
    /\ DOMAIN worker \subseteq Workers
    /\ \A k \in DOMAIN worker : worker[k] \in Worker

ThreadsOK ==
    /\ lock \in Handlers \cup {Main, Nobody}
    /\ DOMAIN http \subseteq Handlers
    /\ \A h \in DOMAIN http : http[h] \in Handler
    /\ main \in {"serving", "stopping", "clearing", "joining", "exited"}

BlocksOK ==
    /\ shutdown \in BOOLEAN
    /\ udp \in Windows \cup {Nobody}
    /\ received \in [Windows -> 0 .. MaxBlocks]
    /\ udp # Nobody => received[udp] < MaxBlocks

LEMMA TypeParts == TypeInv <=> WorkersOK /\ ThreadsOK /\ BlocksOK
  BY DEF TypeInv, TypeOK, WorkersOK, ThreadsOK, BlocksOK

LEMMA TypePartsNext == TypeInv' <=> WorkersOK' /\ ThreadsOK' /\ BlocksOK'
  BY DEF TypeInv, TypeOK, WorkersOK, ThreadsOK, BlocksOK

\* What the handlers and the main thread do to blocks.
LEMMA TypeBlocks ==
    ASSUME BlocksOK, UNCHANGED <<shutdown, udp, received>> PROVE BlocksOK'
  BY DEF BlocksOK

LEMMA TypePostCreate ==
    ASSUME TypeInv, NEW h \in Handlers, NEW c \in Channels, NEW w \in Windows, NEW k \in Workers, PostCreate(h, c, w, k)
    PROVE  TypeInv'
<1> DEFINE new == [window |-> w, active |-> TRUE, closed |-> FALSE,
                   thread |-> "started", queue |-> <<>>, taken |-> 0]
           at == [at |-> "insert", channel |-> c, worker |-> k]
<1>1. new \in Worker /\ at \in Handler
  BY DepthAssumption DEF Worker, Handler
<1>2. /\ worker' = With(worker, k, new) /\ http' = With(http, h, at)
      /\ UNCHANGED <<g_workers, lock, main, shutdown, udp, received>>
  BY DEF PostCreate
<1> HIDE DEF new, at
<1>3. WorkersOK /\ ThreadsOK /\ BlocksOK
  BY TypeParts
<1>4. WorkersOK'
  <2>1. /\ DOMAIN worker' = DOMAIN worker \cup {k}
        /\ \A y \in DOMAIN worker' : worker'[y] = IF y = k THEN new ELSE worker[y]
    BY <1>2 DEF With
  <2> QED
    BY <1>1, <1>2, <1>3, <2>1 DEF WorkersOK
<1>5. ThreadsOK'
  <2>1. /\ DOMAIN http' = DOMAIN http \cup {h}
        /\ \A y \in DOMAIN http' : http'[y] = IF y = h THEN at ELSE http[y]
    BY <1>2 DEF With
  <2> QED
    BY <1>1, <1>2, <1>3, <2>1 DEF ThreadsOK
<1> QED
  BY <1>2, <1>3, <1>4, <1>5, TypeBlocks, TypePartsNext

LEMMA TypeDeleteBegins ==
    ASSUME TypeInv, NEW h \in Handlers, NEW c \in Channels, DeleteBegins(h, c) PROVE TypeInv'
<1> DEFINE at == [at |-> "find", channel |-> c, worker |-> Nobody]
<1>1. at \in Handler
  BY DEF Handler
<1>2. /\ http' = With(http, h, at)
      /\ UNCHANGED <<g_workers, worker, lock, main, shutdown, udp, received>>
  BY DEF DeleteBegins
<1> HIDE DEF at
<1>3. WorkersOK /\ ThreadsOK /\ BlocksOK
  BY TypeParts
<1>4. ThreadsOK'
  <2>1. /\ DOMAIN http' = DOMAIN http \cup {h}
        /\ \A y \in DOMAIN http' : http'[y] = IF y = h THEN at ELSE http[y]
    BY <1>2 DEF With
  <2> QED
    BY <1>1, <1>2, <1>3, <2>1 DEF ThreadsOK
<1>5. WorkersOK'
  BY <1>2, <1>3 DEF WorkersOK
<1> QED
  BY <1>2, <1>3, <1>4, <1>5, TypeBlocks, TypePartsNext

LEMMA TypeDelete ==
    ASSUME TypeInv, NEW h \in Handlers, Delete(h) PROVE TypeInv'
<1> DEFINE k == g_workers[http[h].channel]
<1>1. /\ h \in DOMAIN http /\ http[h] \in Handler /\ http[h].channel \in Channels
      /\ UNCHANGED <<g_workers, main, shutdown, udp, received>>
  BY DEF Delete, Free, TypeInv, TypeOK, Handler
<1>2. WorkersOK /\ ThreadsOK /\ BlocksOK
  BY TypeParts
<1>3. CASE k = Nobody
  <2>1. http' = Without(http, {h}) /\ UNCHANGED <<worker, lock>>
    BY <1>3 DEF Delete
  <2>2. DOMAIN http' \subseteq DOMAIN http /\ \A x \in DOMAIN http' : http'[x] = http[x]
    BY <2>1 DEF Without, Restrict
  <2>3. WorkersOK' /\ ThreadsOK'
    BY <1>1, <1>2, <2>1, <2>2 DEF WorkersOK, ThreadsOK
  <2> QED
    BY <1>1, <1>2, <2>3, TypeBlocks, TypePartsNext
<1>4. CASE k # Nobody
  <2>1. /\ worker' = Closed(k) /\ lock' = h
        /\ http' = [http EXCEPT ![h].at = "delete", ![h].worker = k]
    BY <1>4 DEF Delete
  <2>2. k \in Workers
    BY <1>1, <1>2, <1>4 DEF WorkersOK
  <2> HIDE DEF k
  <2>3. WorkersOK'
    BY <1>1, <1>2, <2>1, ClosedFacts DEF WorkersOK, TypeInv
  <2>4. ThreadsOK'
    BY <1>1, <1>2, <2>1, <2>2 DEF ThreadsOK, Handler
  <2> QED
    BY <1>1, <1>2, <2>3, <2>4, TypeBlocks, TypePartsNext
<1> QED
  BY <1>3, <1>4

LEMMA TypeHandlerRuns ==
    ASSUME TypeInv, NEW h \in Handlers, HandlerRuns(h) PROVE TypeInv'
<1>1. UNCHANGED <<main, shutdown, udp, received>> /\ h \in DOMAIN http /\ http[h] \in Handler
  BY DEF HandlerRuns, PostInsert, PostReplace, PostJoined, Delete, DeleteJoined, Free, TypeInv, TypeOK
<1>2. CASE PostInsert(h)
  <2>1. /\ g_workers' = [g_workers EXCEPT ![http[h].channel] = http[h].worker]
        /\ http' = Without(http, {h}) /\ UNCHANGED <<worker, lock>>
    BY <1>2 DEF PostInsert
  <2>2. WorkersOK'
    BY <1>1, <2>1, TypeParts DEF WorkersOK, Handler
  <2>3. ThreadsOK'
    <3>1. DOMAIN http' \subseteq DOMAIN http /\ \A x \in DOMAIN http' : http'[x] = http[x]
      BY <2>1 DEF Without, Restrict
    <3>2. ThreadsOK
      BY TypeParts
    <3> QED
      BY <1>1, <2>1, <3>1, <3>2 DEF ThreadsOK
  <2> QED
    BY <1>1, <2>2, <2>3, TypeBlocks, TypeParts, TypePartsNext
<1>3. CASE PostReplace(h)
  <2> DEFINE old == g_workers[http[h].channel]
  <2>1. /\ g_workers' = [g_workers EXCEPT ![http[h].channel] = http[h].worker]
        /\ http' = [http EXCEPT ![h].at = "replace", ![h].worker = old]
        /\ worker' = Closed(old) /\ old # Nobody /\ lock' = h
    BY <1>3 DEF PostReplace
  <2>2. WorkersOK'
    BY <1>1, <2>1, ClosedFacts, TypeParts DEF WorkersOK, Handler, TypeInv
  <2>3. old \in Workers
    BY <1>1, <2>1, TypeParts DEF WorkersOK, Handler
  <2> HIDE DEF old
  <2>4. ThreadsOK'
    BY <1>1, <2>1, <2>3, TypeParts DEF ThreadsOK, Handler
  <2> QED
    BY <1>1, <2>2, <2>4, TypeBlocks, TypeParts, TypePartsNext
<1>4. CASE PostJoined(h) \/ DeleteJoined(h)
  <2>1. /\ worker' = Without(worker, {http[h].worker})
        /\ http' = Without(http, {h}) /\ lock' = Nobody
        /\ \/ g_workers' = g_workers
           \/ g_workers' = [g_workers EXCEPT ![http[h].channel] = Nobody]
    BY <1>4 DEF PostJoined, DeleteJoined
  <2>2. /\ DOMAIN http' \subseteq DOMAIN http /\ \A x \in DOMAIN http' : http'[x] = http[x]
        /\ DOMAIN worker' \subseteq DOMAIN worker
        /\ \A x \in DOMAIN worker' : worker'[x] = worker[x]
    BY <2>1 DEF Without, Restrict
  <2>3. WorkersOK /\ ThreadsOK /\ BlocksOK
    BY TypeParts
  <2>4. WorkersOK'
    BY <1>1, <2>1, <2>2, <2>3 DEF WorkersOK, Handler
  <2>5. ThreadsOK'
    BY <1>1, <2>1, <2>2, <2>3 DEF ThreadsOK
  <2> QED
    BY <1>1, <2>3, <2>4, <2>5, TypeBlocks, TypePartsNext
<1> QED
  BY <1>2, <1>3, <1>4, TypeDelete DEF HandlerRuns

LEMMA TypeInit == Init => TypeInv
<1> SUFFICES ASSUME Init PROVE TypeInv
  OBVIOUS
<1>1. DOMAIN worker = {} /\ DOMAIN http = {}
  BY DEF Init, Nothing
<1>2. WorkersOK /\ ThreadsOK
  BY <1>1 DEF Init, WorkersOK, ThreadsOK
<1>3. BlocksOK
  <2>1. 0 \in 0 .. MaxBlocks
    BY DepthAssumption
  <2>2. received \in [Windows -> 0 .. MaxBlocks]
    BY <2>1 DEF Init
  <2> QED
    BY <2>2 DEF Init, BlocksOK
<1> QED
  BY <1>2, <1>3, TypeParts

LEMMA TypeReset ==
    ASSUME g_workers' = [c \in Channels |-> Nobody], worker' = Nothing, lock' = Nobody,
           http' = Nothing, main' = "serving", shutdown' = FALSE, udp' = Nobody,
           received' = [w \in Windows |-> 0]
    PROVE  TypeInv'
<1>1. DOMAIN worker' = {} /\ DOMAIN http' = {}
  BY DEF Nothing
<1>2. WorkersOK'
  BY <1>1 DEF WorkersOK
<1>3. ThreadsOK'
  BY <1>1 DEF ThreadsOK
<1>4. BlocksOK'
  <2>1. 0 \in 0 .. MaxBlocks
    BY DepthAssumption
  <2>2. received' \in [Windows -> 0 .. MaxBlocks]
    BY <2>1
  <2> QED
    BY <2>2 DEF BlocksOK
<1> QED
  BY <1>2, <1>3, <1>4, TypePartsNext

\* A step of a worker's thread, other than the throw.
LEMMA WorkerFacts ==
    ASSUME TypeInv, NEW k \in Workers, Enter(k) \/ Take(k) \/ Process(k) \/ End(k)
    PROVE  /\ UNCHANGED <<g_workers, lock, http, main, shutdown, udp, received>>
           /\ DOMAIN worker' = DOMAIN worker /\ k \in DOMAIN worker
           /\ \A x \in DOMAIN worker :
                  /\ worker'[x] \in Worker
                  /\ x # k => worker'[x] = worker[x]
                  /\ worker'[x].window = worker[x].window
                  /\ worker'[x].active = worker[x].active
                  /\ worker'[x].closed = worker[x].closed
           /\ \/ /\ worker'[k].queue = worker[k].queue /\ worker'[k].taken = worker[k].taken
              \/ /\ worker[k].queue # <<>> /\ worker'[k].queue = Tail(worker[k].queue)
                 /\ worker'[k].taken = Head(worker[k].queue)
<1>1. \A x \in DOMAIN worker : worker[x] \in Worker
  BY DEF TypeInv, TypeOK
<1>2. CASE Enter(k) \/ Process(k) \/ End(k)
  BY <1>1, <1>2 DEF Enter, Process, End, Worker
<1>3. CASE Take(k)
  <2>1. /\ worker[k].queue \in Seq(1 .. MaxBlocks) /\ worker[k].queue # <<>>
        /\ k \in DOMAIN worker
    BY <1>1, <1>3 DEF Take, Worker
  <2>2. Tail(worker[k].queue) \in Seq(1 .. MaxBlocks) /\ Head(worker[k].queue) \in 0 .. MaxBlocks
    BY <2>1, TakenType
  <2> QED
    BY <1>1, <1>3, <2>1, <2>2 DEF Take, Worker
<1> QED
  BY <1>2, <1>3

\* The UDP thread hands a block to the workers.
LEMMA SubmitFacts ==
    ASSUME TypeInv, Submit
    PROVE  /\ DOMAIN worker' = DOMAIN worker
           /\ received[udp] + 1 \in 1 .. MaxBlocks
           /\ \A x \in DOMAIN worker :
                  /\ worker'[x] \in Worker
                  /\ worker'[x].window = worker[x].window
                  /\ worker'[x].active = worker[x].active
                  /\ worker'[x].closed = worker[x].closed
                  /\ worker'[x].taken = worker[x].taken
                  /\ worker'[x].queue =
                         IF x \in Registered /\ worker[x].window = udp /\ worker[x].active
                         THEN Pushed(worker[x].queue, received[udp] + 1) ELSE worker[x].queue
<1>1. \A x \in DOMAIN worker : worker[x] \in Worker /\ worker[x].queue \in Seq(1 .. MaxBlocks)
  BY DEF TypeInv, TypeOK, Worker
<1>2. received[udp] + 1 \in 1 .. MaxBlocks
  BY DepthAssumption DEF Submit, TypeInv, TypeOK
<1>3. \A x \in DOMAIN worker : Pushed(worker[x].queue, received[udp] + 1) \in Seq(1 .. MaxBlocks)
  BY <1>1, <1>2, PushedType
<1> QED
  BY <1>1, <1>2, <1>3 DEF Submit, Worker

\* The main thread stops and forgets workers.
LEMMA TypeMainRuns ==
    ASSUME TypeInv, MainRuns \/ Terminate PROVE TypeInv'
<1>1. WorkersOK /\ ThreadsOK /\ BlocksOK
  BY TypeParts
<1>2. CASE StopHttp \/ LockAll \/ Return \/ Terminate
  <2>1. /\ UNCHANGED <<g_workers, worker, http, udp, received>>
        /\ lock' \in {lock, Main} /\ main' \in {main, "stopping", "clearing", "exited"}
        /\ shutdown' \in {shutdown, TRUE}
    BY <1>2 DEF StopHttp, LockAll, Return, Terminate
  <2> QED
    BY <1>1, <2>1, TypePartsNext DEF WorkersOK, ThreadsOK, BlocksOK
<1>3. CASE Clear
  <2>1. /\ worker' = Without(worker, Registered) /\ g_workers' = [c \in Channels |-> Nobody]
        /\ lock' = Nobody /\ main' = "joining" /\ UNCHANGED <<http, shutdown, udp, received>>
    BY <1>3 DEF Clear
  <2>2. DOMAIN worker' \subseteq DOMAIN worker /\ \A x \in DOMAIN worker' : worker'[x] = worker[x]
    BY <2>1 DEF Without, Restrict
  <2>3. WorkersOK'
    BY <1>1, <2>1, <2>2 DEF WorkersOK
  <2>4. ThreadsOK'
    BY <1>1, <2>1 DEF ThreadsOK
  <2> QED
    BY <1>1, <2>1, <2>3, <2>4, TypeBlocks, TypePartsNext
<1>4. CASE \E k \in Workers : StopNext(k) \/ Destroy(k)
  <2>1. PICK k \in Workers :
            /\ worker' = Closed(k)
            /\ UNCHANGED <<g_workers, lock, http, main, shutdown, udp, received>>
    BY <1>4 DEF StopNext, Destroy
  <2>2. WorkersOK'
    BY <1>1, <2>1, ClosedFacts DEF TypeInv, WorkersOK
  <2>3. ThreadsOK'
    BY <1>1, <2>1 DEF ThreadsOK
  <2> QED
    BY <1>1, <2>1, <2>2, <2>3, TypeBlocks, TypePartsNext
<1>5. CASE Restart
  <2>1. /\ g_workers' = [c \in Channels |-> Nobody] /\ worker' = Nothing /\ main' = "serving"
        /\ shutdown' = FALSE /\ udp' = Nobody /\ received' = [w \in Windows |-> 0]
        /\ UNCHANGED <<lock, http>>
    BY <1>5 DEF Restart
  <2>2. DOMAIN worker' = {}
    BY <2>1 DEF Nothing
  <2>3. WorkersOK' /\ ThreadsOK'
    BY <1>1, <2>1, <2>2 DEF WorkersOK, ThreadsOK
  <2>4. 0 \in 0 .. MaxBlocks
    BY DepthAssumption
  <2>5. received' \in [Windows -> 0 .. MaxBlocks]
    BY <2>1, <2>4
  <2>6. BlocksOK'
    BY <2>1, <2>5 DEF BlocksOK
  <2> QED
    BY <2>3, <2>6, TypePartsNext
<1> QED
  BY <1>2, <1>3, <1>4, <1>5 DEF MainRuns

LEMMA TypeNext == TypeInv /\ [Next]_vars => TypeInv'
<1> SUFFICES ASSUME TypeInv, [Next]_vars PROVE TypeInv'
  OBVIOUS
<1>1. WorkersOK /\ ThreadsOK /\ BlocksOK
  BY TypeParts
<1>2. CASE UNCHANGED vars
  BY <1>1, <1>2, TypePartsNext DEF vars, WorkersOK, ThreadsOK, BlocksOK
<1>3. ASSUME NEW k \in Workers, WorkerRuns(k) PROVE TypeInv'
  <2>1. CASE Abort(k)
    BY <2>1, TypeReset DEF Abort
  <2>2. CASE Enter(k) \/ Take(k) \/ Process(k) \/ End(k)
    <3>1. WorkersOK'
      BY <1>1, <2>2, WorkerFacts DEF WorkersOK
    <3>2. ThreadsOK' /\ BlocksOK'
      BY <1>1, <2>2, WorkerFacts DEF ThreadsOK, BlocksOK
    <3> QED
      BY <3>1, <3>2, TypePartsNext
  <2> QED
    BY <1>3, <2>1, <2>2 DEF WorkerRuns
<1>4. CASE Submit
  <2>1. /\ UNCHANGED <<g_workers, lock, http, main, shutdown>> /\ udp' = Nobody
        /\ received' = [received EXCEPT ![udp] = @ + 1]
    BY <1>4 DEF Submit
  <2>2. WorkersOK'
    BY <1>1, <1>4, <2>1, SubmitFacts DEF WorkersOK
  <2>3. ThreadsOK'
    BY <1>1, <2>1 DEF ThreadsOK
  <2>4. received[udp] + 1 \in 0 .. MaxBlocks
    BY <1>4, SubmitFacts
  <2>5. BlocksOK'
    BY <1>1, <2>1, <2>4 DEF BlocksOK
  <2> QED
    BY <2>2, <2>3, <2>5, TypePartsNext
<1>5. ASSUME NEW w \in Windows, Recv(w) PROVE TypeInv'
  BY <1>1, <1>5, TypePartsNext DEF Recv, WorkersOK, ThreadsOK, BlocksOK
<1> QED
  BY <1>2, <1>3, <1>4, <1>5, TypePostCreate, TypeDeleteBegins, TypeHandlerRuns, TypeMainRuns DEF Next

\* Types, for any number of threads and workers: in particular no handler ever closes or
\* joins what is no worker.
THEOREM TypeCorrect == Spec => []TypeOK
<1>1. TypeInv => TypeOK
  BY DEF TypeInv
<1> QED
  BY <1>1, TypeInit, TypeNext, PTL DEF Spec

(* Who holds a worker.                                                     *)

\* The handlers' workers, by what the handler does.
HandlerOwns(h) ==
    /\ http[h].at = "insert" =>
           /\ http[h].worker \in DOMAIN worker /\ http[h].worker \notin Registered
           /\ worker[http[h].worker].queue = <<>> /\ ~worker[http[h].worker].closed
    /\ http[h].at = "replace" =>
           /\ lock = h
           /\ http[h].worker \in DOMAIN worker /\ http[h].worker \notin Registered
           /\ worker[http[h].worker].closed
    /\ http[h].at = "delete" =>
           /\ lock = h
           /\ g_workers[http[h].channel] = http[h].worker
           /\ worker[http[h].worker].closed

Owned ==
    /\ RegisteredAlive
    /\ ThreadsOwned
    /\ \A h \in DOMAIN http : HandlerOwns(h)
    /\ \A h, i \in DOMAIN http :
           h # i /\ http[h].worker # Nobody => http[h].worker # http[i].worker
    /\ \A k \in DOMAIN worker : worker[k].closed => ~worker[k].active
    /\ lock = Main <=> main = "clearing"
    /\ main = "exited" => http = Nothing

OwnedInv == TypeInv /\ Owned

Distinct ==
    \A c, d \in Channels : c # d /\ g_workers[c] # Nobody => g_workers[c] # g_workers[d]

\* Each handler's worker exists, but for one that has still to look it up.
LEMMA HandlersWorker ==
    ASSUME OwnedInv, NEW h \in DOMAIN http
    PROVE  /\ h \in Handlers /\ http[h] \in Handler /\ HandlerOwns(h)
           /\ http[h].at = "find" => http[h].worker = Nobody
           /\ http[h].at # "find" => http[h].worker \in DOMAIN worker /\ http[h].worker # Nobody
           /\ http[h].worker \in DOMAIN worker \/ http[h].worker = Nobody
           /\ http[h].at = "delete" => http[h].worker \in Registered
           /\ http[h].at \in {"find", "insert", "replace", "delete"}
<1>1. h \in Handlers /\ http[h] \in Handler /\ HandlerOwns(h)
  BY DEF OwnedInv, Owned, TypeInv, TypeOK
<1>2. /\ http[h].channel \in Channels /\ http[h].at \in {"find", "insert", "replace", "delete"}
      /\ http[h].at = "find" => http[h].worker = Nobody
      /\ http[h].at # "find" => http[h].worker \in Workers /\ http[h].worker # Nobody
  BY <1>1, ThreadsAssumption DEF Handler
<1>3. http[h].at = "delete" => http[h].worker \in Registered
  BY <1>1, <1>2 DEF HandlerOwns, Registered
<1>4. Registered \subseteq DOMAIN worker
  BY DEF OwnedInv, Owned, RegisteredAlive
<1>5. http[h].at # "find" => http[h].worker \in DOMAIN worker
  BY <1>1, <1>2, <1>3, <1>4 DEF HandlerOwns
<1> QED
  BY <1>1, <1>2, <1>3, <1>5

LEMMA RegisteredWorkers ==
    ASSUME OwnedInv
    PROVE  /\ Registered \subseteq DOMAIN worker /\ Registered \subseteq Workers
           /\ Nobody \notin DOMAIN worker /\ Distinct
           /\ \A c \in Channels : g_workers[c] # Nobody => g_workers[c] \in Registered
  BY ThreadsAssumption DEF OwnedInv, Owned, RegisteredAlive, Distinct, TypeInv, TypeOK, Registered

\* The entry of channel c is assigned.
LEMMA Assigned ==
    ASSUME OwnedInv, NEW c \in Channels, NEW v \in Workers \cup {Nobody}, v \notin Registered,
           g_workers' = [g_workers EXCEPT ![c] = v]
    PROVE  /\ Registered' = (Registered \ {g_workers[c]}) \cup ({v} \ {Nobody})
           /\ Distinct'
<1>1. \A d \in Channels : g_workers'[d] = IF d = c THEN v ELSE g_workers[d]
  BY DEF OwnedInv, TypeInv, TypeOK
<1>2. Distinct
  BY RegisteredWorkers
<1>3. Registered' = (Registered \ {g_workers[c]}) \cup ({v} \ {Nobody})
  BY <1>1, <1>2 DEF Registered, Distinct
<1>4. Distinct'
  BY <1>1, <1>2 DEF Registered, Distinct
<1> QED
  BY <1>3, <1>4

\* What a step must do to keep Owned that changes no owner: workers may move on.
LEMMA OwnersKept ==
    ASSUME OwnedInv, UNCHANGED <<g_workers, lock, http, main>>,
           DOMAIN worker' = DOMAIN worker,
           \A x \in DOMAIN worker :
               /\ worker[x].closed => worker'[x].closed
               /\ worker'[x].closed => ~worker'[x].active
               /\ x \notin Registered =>
                      /\ worker'[x].closed = worker[x].closed
                      /\ worker[x].queue = <<>> => worker'[x].queue = <<>>
    PROVE  Owned'
<1>1. Registered' = Registered
  BY DEF Registered
<1>2. ASSUME NEW h \in DOMAIN http' PROVE HandlerOwns(h)'
  <2>1. HandlerOwns(h) /\ (http[h].worker \in DOMAIN worker \/ http[h].at = "find")
    BY <1>2, HandlersWorker
  <2> QED
    BY <1>1, <2>1 DEF HandlerOwns
<1>3. RegisteredAlive' /\ ThreadsOwned'
  BY <1>1 DEF OwnedInv, Owned, RegisteredAlive, ThreadsOwned
<1> QED
  BY <1>2, <1>3 DEF OwnedInv, Owned

LEMMA OwnedPostCreate ==
    ASSUME OwnedInv, NEW h \in Handlers, NEW c \in Channels, NEW w \in Windows, NEW k \in Workers, PostCreate(h, c, w, k)
    PROVE  Owned'
<1>1. /\ h \notin DOMAIN http /\ k \notin DOMAIN worker /\ main = "serving"
      /\ UNCHANGED <<g_workers, lock, main>> /\ Registered' = Registered
  BY DEF PostCreate, Free, Registered
<1>2. /\ DOMAIN worker' = DOMAIN worker \cup {k}
      /\ \A x \in DOMAIN worker : worker'[x] = worker[x]
      /\ worker'[k].queue = <<>> /\ ~worker'[k].closed
  BY <1>1 DEF PostCreate, With
<1>3. /\ DOMAIN http' = DOMAIN http \cup {h}
      /\ \A x \in DOMAIN http : http'[x] = http[x]
      /\ http'[h].at = "insert" /\ http'[h].worker = k
  BY <1>1 DEF PostCreate, With
<1>4. Registered \subseteq DOMAIN worker
  BY RegisteredWorkers
<1>5. ASSUME NEW x \in DOMAIN http' PROVE HandlerOwns(x)'
  <2>1. CASE x = h
    BY <1>1, <1>2, <1>3, <1>4, <2>1 DEF HandlerOwns
  <2>2. CASE x # h
    <3>1. /\ x \in DOMAIN http /\ HandlerOwns(x)
          /\ http[x].worker \in DOMAIN worker \/ http[x].at = "find"
      BY <1>3, <2>2, HandlersWorker
    <3> QED
      BY <1>1, <1>2, <1>3, <3>1 DEF HandlerOwns
  <2> QED
    BY <2>1, <2>2
<1>6. \A x, y \in DOMAIN http' :
          x # y /\ http'[x].worker # Nobody => http'[x].worker # http'[y].worker
  <2>1. \A x \in DOMAIN http : http[x].worker # k
    BY <1>1, HandlersWorker, ThreadsAssumption
  <2> QED
    BY <1>3, <2>1 DEF OwnedInv, Owned
<1>7. ThreadsOwned'
  <2> SUFFICES ASSUME NEW x \in DOMAIN worker', x \notin Registered
               PROVE  \E y \in DOMAIN http' : http'[y].worker = x /\ http'[y].at \in {"insert", "replace"}
    BY <1>1 DEF ThreadsOwned
  <2>1. CASE x = k
    BY <1>3, <2>1
  <2>2. CASE x # k
    BY <1>2, <1>3, <2>2 DEF OwnedInv, Owned, ThreadsOwned
  <2> QED
    BY <2>1, <2>2
<1>8. RegisteredAlive'
  BY <1>1, <1>2 DEF OwnedInv, Owned, RegisteredAlive
<1>9. \A x \in DOMAIN worker' : worker'[x].closed => ~worker'[x].active
  BY <1>2 DEF OwnedInv, Owned
<1> QED
  BY <1>1, <1>5, <1>6, <1>7, <1>8, <1>9 DEF OwnedInv, Owned

LEMMA OwnedPostInsert ==
    ASSUME OwnedInv, NEW h \in Handlers, PostInsert(h) PROVE Owned'
<1> DEFINE c == http[h].channel
           k == http[h].worker
<1>1. /\ h \in DOMAIN http /\ http[h].at = "insert" /\ g_workers[c] = Nobody
      /\ lock = Nobody /\ UNCHANGED <<worker, lock, main>>
      /\ g_workers' = [g_workers EXCEPT ![c] = k]
      /\ DOMAIN http' = DOMAIN http \ {h}
      /\ \A x \in DOMAIN http' : http'[x] = http[x]
  BY DEF PostInsert, Free, Without, Restrict
<1>2. /\ k \in DOMAIN worker /\ k \notin Registered /\ k # Nobody
      /\ k \in Workers /\ c \in Channels
  BY <1>1, HandlersWorker DEF HandlerOwns, Handler
<1>3. Registered' = Registered \cup {k} /\ Distinct'
  <2>1. Registered' = (Registered \ {g_workers[c]}) \cup ({k} \ {Nobody}) /\ Distinct'
    BY <1>1, <1>2, Assigned
  <2> QED
    BY <1>1, <1>2, <2>1 DEF Registered
<1>4. ASSUME NEW x \in DOMAIN http' PROVE HandlerOwns(x)'
  <2>1. x \in DOMAIN http /\ x # h /\ http[x].worker # k
    BY <1>1, <1>2 DEF OwnedInv, Owned
  <2>2. HandlerOwns(x) /\ x \in Handlers /\ Nobody \notin Handlers
    BY <2>1, HandlersWorker, ThreadsAssumption
  <2> QED
    BY <1>1, <1>3, <2>1, <2>2 DEF HandlerOwns
<1>5. RegisteredAlive'
  BY <1>1, <1>2, <1>3, RegisteredWorkers DEF RegisteredAlive, Distinct
<1>6. ThreadsOwned'
  BY <1>1, <1>3 DEF OwnedInv, Owned, ThreadsOwned
<1>7. http = Nothing => FALSE
  BY <1>1 DEF Nothing
<1> QED
  BY <1>1, <1>4, <1>5, <1>6, <1>7 DEF OwnedInv, Owned

\* While no handler has the lock, they are about to insert or to look up.
LEMMA Waiting ==
    ASSUME OwnedInv, lock \notin Handlers, NEW x \in DOMAIN http
    PROVE  http[x].at \in {"find", "insert"}
  BY HandlersWorker DEF HandlerOwns, Handler

LEMMA OwnedPostReplace ==
    ASSUME OwnedInv, NEW h \in Handlers, PostReplace(h) PROVE Owned'
<1> DEFINE c == http[h].channel
           k == http[h].worker
           old == g_workers[c]
<1>1. /\ h \in DOMAIN http /\ http[h].at = "insert" /\ old # Nobody
      /\ lock = Nobody /\ lock' = h /\ main' = main
      /\ g_workers' = [g_workers EXCEPT ![c] = k]
      /\ worker' = Closed(old)
      /\ http' = [http EXCEPT ![h].at = "replace", ![h].worker = old]
  BY DEF PostReplace, Free
<1>2. /\ k \in DOMAIN worker /\ k \notin Registered /\ k # Nobody
      /\ k \in Workers /\ c \in Channels /\ http[h] \in Handler
  BY <1>1, HandlersWorker DEF HandlerOwns, Handler
<1>3. old \in Registered /\ old # k /\ old \in DOMAIN worker
  BY <1>1, <1>2, RegisteredWorkers
<1>4. Registered' = (Registered \ {old}) \cup {k} /\ Distinct'
  <2>1. Registered' = (Registered \ {g_workers[c]}) \cup ({k} \ {Nobody}) /\ Distinct'
    BY <1>1, <1>2, Assigned
  <2> QED
    BY <1>1, <1>2, <2>1
<1>5. /\ DOMAIN worker' = DOMAIN worker
      /\ \A x \in DOMAIN worker : x # old => worker'[x] = worker[x]
      /\ worker'[old].closed /\ ~worker'[old].active
  BY <1>1, <1>3, ClosedFacts DEF OwnedInv, TypeInv
<1>6. /\ DOMAIN http' = DOMAIN http
      /\ \A x \in DOMAIN http \ {h} : http'[x] = http[x]
      /\ http'[h].at = "replace" /\ http'[h].worker = old
  BY <1>1, <1>2 DEF Handler
<1> HIDE DEF c, k, old
<1>7. \A x \in DOMAIN http \ {h} :
          /\ HandlerOwns(x) /\ http[x].at \in {"find", "insert"}
          /\ http[x].worker # k /\ http[x].worker # old
  BY <1>1, <1>3, HandlersWorker, Waiting, ThreadsAssumption
     DEF OwnedInv, Owned, HandlerOwns, k
<1>8. ASSUME NEW x \in DOMAIN http' PROVE HandlerOwns(x)'
  <2>1. CASE x = h
    BY <1>1, <1>3, <1>4, <1>5, <1>6, <2>1 DEF HandlerOwns
  <2>2. CASE x # h
    BY <1>4, <1>5, <1>6, <1>7, <2>2 DEF HandlerOwns
  <2> QED
    BY <2>1, <2>2
<1>9. \A x, y \in DOMAIN http' :
          x # y /\ http'[x].worker # Nobody => http'[x].worker # http'[y].worker
  BY <1>6, <1>7 DEF OwnedInv, Owned
<1>10. RegisteredAlive'
  BY <1>2, <1>4, <1>5, RegisteredWorkers DEF RegisteredAlive, Distinct
<1>11. ThreadsOwned'
  <2> SUFFICES ASSUME NEW x \in DOMAIN worker', x \notin Registered'
               PROVE  \E y \in DOMAIN http' : http'[y].worker = x /\ http'[y].at \in {"insert", "replace"}
    BY DEF ThreadsOwned
  <2>1. CASE x = old
    BY <1>1, <1>6, <2>1
  <2>2. CASE x # old
    <3>1. x \notin Registered /\ x # k /\ x \in DOMAIN worker
      BY <1>4, <1>5, <2>2
    <3>2. PICK y \in DOMAIN http : http[y].worker = x /\ http[y].at \in {"insert", "replace"}
      BY <3>1 DEF OwnedInv, Owned, ThreadsOwned
    <3> QED
      BY <1>6, <3>1, <3>2 DEF k
  <2> QED
    BY <2>1, <2>2
<1>12. \A x \in DOMAIN worker' : worker'[x].closed => ~worker'[x].active
  BY <1>5 DEF OwnedInv, Owned
<1>13. http # Nothing /\ Main # h /\ Main # Nobody
  BY <1>1, ThreadsAssumption DEF Nothing
<1> QED
  BY <1>1, <1>8, <1>9, <1>10, <1>11, <1>12, <1>13 DEF OwnedInv, Owned

\* The join under the lock is over, and worker j destroyed.
LEMMA OwnedJoined ==
    ASSUME OwnedInv, NEW h \in Handlers, PostJoined(h) \/ DeleteJoined(h) PROVE Owned'
<1> DEFINE c == http[h].channel
           j == http[h].worker
<1>1. /\ h \in DOMAIN http /\ lock' = Nobody /\ main' = main
      /\ DOMAIN worker' = DOMAIN worker \ {j}
      /\ \A x \in DOMAIN worker' : worker'[x] = worker[x]
      /\ DOMAIN http' = DOMAIN http \ {h}
      /\ \A x \in DOMAIN http' : http'[x] = http[x]
      /\ \/ http[h].at = "replace" /\ g_workers' = g_workers
         \/ http[h].at = "delete" /\ g_workers' = [g_workers EXCEPT ![c] = Nobody]
  BY DEF PostJoined, DeleteJoined, Free, Without, Restrict
<1>2. /\ HandlerOwns(h) /\ http[h] \in Handler /\ j \in DOMAIN worker /\ lock = h
  BY <1>1, HandlersWorker DEF HandlerOwns
<1>3. Registered' = Registered \ {j} /\ Distinct'
  <2>1. CASE http[h].at = "replace" /\ g_workers' = g_workers
    <3>1. j \notin Registered
      BY <1>2, <2>1 DEF HandlerOwns
    <3> QED
      BY <2>1, <3>1, RegisteredWorkers DEF Registered, Distinct
  <2>2. CASE http[h].at = "delete" /\ g_workers' = [g_workers EXCEPT ![c] = Nobody]
    <3>1. g_workers[c] = j /\ c \in Channels
      BY <1>2, <2>2 DEF HandlerOwns, Handler
    <3>2. Nobody \notin Registered
      BY DEF Registered
    <3>3. /\ Registered' = (Registered \ {g_workers[c]}) \cup ({Nobody} \ {Nobody})
          /\ Distinct'
      BY <2>2, <3>1, <3>2, Assigned
    <3> QED
      BY <3>1, <3>3
  <2> QED
    BY <1>1, <2>1, <2>2
<1> HIDE DEF c, j
<1>4. ASSUME NEW x \in DOMAIN http'
      PROVE  /\ HandlerOwns(x) /\ http[x].at \in {"find", "insert"}
             /\ http[x].worker # j
             /\ http[x].worker \in DOMAIN worker \/ http[x].at = "find"
  <2>1. x \in DOMAIN http /\ x # h /\ j # Nobody
    BY <1>1, HandlersWorker DEF j
  <2>2. http[x].worker # j
    BY <1>1, <2>1 DEF OwnedInv, Owned, j
  <2> QED
    BY <1>2, <2>1, <2>2, HandlersWorker DEF HandlerOwns, Handler
<1>5. ASSUME NEW x \in DOMAIN http' PROVE HandlerOwns(x)'
  BY <1>1, <1>3, <1>4 DEF HandlerOwns
<1>6. RegisteredAlive'
  BY <1>1, <1>3, RegisteredWorkers DEF RegisteredAlive, Distinct
<1>7. ThreadsOwned'
  <2> SUFFICES ASSUME NEW x \in DOMAIN worker', x \notin Registered'
               PROVE  \E y \in DOMAIN http' : http'[y].worker = x /\ http'[y].at \in {"insert", "replace"}
    BY DEF ThreadsOwned
  <2>1. x \notin Registered /\ x # j /\ x \in DOMAIN worker
    BY <1>1, <1>3
  <2>2. PICK y \in DOMAIN http : http[y].worker = x /\ http[y].at \in {"insert", "replace"}
    BY <2>1 DEF OwnedInv, Owned, ThreadsOwned
  <2> QED
    BY <1>1, <2>1, <2>2 DEF j
<1>8. http # Nothing /\ Main # h /\ Main # Nobody
  BY <1>1, ThreadsAssumption DEF Nothing
<1> QED
  BY <1>1, <1>2, <1>5, <1>6, <1>7, <1>8 DEF OwnedInv, Owned

LEMMA OwnedDeleteBegins ==
    ASSUME OwnedInv, NEW h \in Handlers, NEW c \in Channels, DeleteBegins(h, c) PROVE Owned'
<1>1. /\ h \notin DOMAIN http /\ main = "serving" /\ Registered' = Registered
      /\ UNCHANGED <<g_workers, worker, lock, main>>
  BY DEF DeleteBegins, Free, Registered
<1>2. /\ DOMAIN http' = DOMAIN http \cup {h}
      /\ \A x \in DOMAIN http : http'[x] = http[x]
      /\ http'[h].at = "find" /\ http'[h].worker = Nobody
  BY <1>1 DEF DeleteBegins, With
<1>3. ASSUME NEW x \in DOMAIN http' PROVE HandlerOwns(x)'
  <2>1. CASE x = h
    BY <1>2, <2>1 DEF HandlerOwns
  <2>2. CASE x # h
    <3>1. x \in DOMAIN http /\ HandlerOwns(x)
      BY <1>2, <2>2, HandlersWorker
    <3> QED
      BY <1>1, <1>2, <3>1 DEF HandlerOwns
  <2> QED
    BY <2>1, <2>2
<1>4. \A x, y \in DOMAIN http' :
          x # y /\ http'[x].worker # Nobody => http'[x].worker # http'[y].worker
  BY <1>2 DEF OwnedInv, Owned
<1>5. RegisteredAlive' /\ ThreadsOwned'
  BY <1>1, <1>2 DEF OwnedInv, Owned, RegisteredAlive, ThreadsOwned
<1> QED
  BY <1>1, <1>3, <1>4, <1>5 DEF OwnedInv, Owned

LEMMA OwnedDelete ==
    ASSUME OwnedInv, NEW h \in Handlers, Delete(h) PROVE Owned'
<1> DEFINE j == g_workers[http[h].channel]
<1>1. /\ h \in DOMAIN http /\ http[h].at = "find" /\ lock = Nobody
      /\ http[h] \in Handler /\ http[h].channel \in Channels
      /\ UNCHANGED <<g_workers, main>> /\ Registered' = Registered
  BY HandlersWorker DEF Delete, Free, Registered, Handler
<1>2. http # Nothing /\ Main # h /\ Main # Nobody
  BY <1>1, ThreadsAssumption DEF Nothing
<1>3. \A x \in DOMAIN http : HandlerOwns(x) /\ http[x].at \in {"find", "insert"}
  BY <1>1, HandlersWorker, Waiting, ThreadsAssumption
<1>4. CASE j = Nobody
  <2>1. /\ UNCHANGED <<worker, lock>> /\ DOMAIN http' = DOMAIN http \ {h}
        /\ \A x \in DOMAIN http' : http'[x] = http[x]
    BY <1>4 DEF Delete, Without, Restrict
  <2>2. \A x \in DOMAIN http' : HandlerOwns(x)'
    BY <1>1, <1>3, <2>1 DEF HandlerOwns
  <2>3. RegisteredAlive' /\ ThreadsOwned'
    BY <1>1, <2>1 DEF OwnedInv, Owned, RegisteredAlive, ThreadsOwned
  <2> QED
    BY <1>1, <1>2, <2>1, <2>2, <2>3 DEF OwnedInv, Owned
<1>5. CASE j # Nobody
  <2>1. /\ worker' = Closed(j) /\ lock' = h
        /\ http' = [http EXCEPT ![h].at = "delete", ![h].worker = j]
    BY <1>5 DEF Delete
  <2>2. /\ DOMAIN http' = DOMAIN http
        /\ \A x \in DOMAIN http \ {h} : http'[x] = http[x]
        /\ http'[h].at = "delete" /\ http'[h].worker = j
        /\ http'[h].channel = http[h].channel
    BY <1>1, <2>1 DEF Handler
  <2>3. j \in Registered /\ j \in DOMAIN worker /\ g_workers[http[h].channel] = j
    BY <1>1, <1>5, RegisteredWorkers
  <2> HIDE DEF j
  <2>4. /\ DOMAIN worker' = DOMAIN worker
        /\ \A x \in DOMAIN worker : x # j => worker'[x] = worker[x]
        /\ worker'[j].closed /\ ~worker'[j].active
    BY <2>1, <2>3, ClosedFacts DEF OwnedInv, TypeInv
  <2>5. \A x \in DOMAIN http : http[x].worker # j
    BY <1>3, <1>5, <2>3, HandlersWorker DEF HandlerOwns
  <2>6. ASSUME NEW x \in DOMAIN http' PROVE HandlerOwns(x)'
    <3>1. CASE x = h
      BY <1>1, <2>1, <2>2, <2>3, <2>4, <3>1 DEF HandlerOwns
    <3>2. CASE x # h
      BY <1>1, <1>3, <2>2, <2>4, <2>5, <3>2 DEF HandlerOwns
    <3> QED
      BY <3>1, <3>2
  <2>7. \A x, y \in DOMAIN http' :
            x # y /\ http'[x].worker # Nobody => http'[x].worker # http'[y].worker
    BY <2>2, <2>5 DEF OwnedInv, Owned
  <2>8. RegisteredAlive' /\ ThreadsOwned'
    BY <1>1, <2>2, <2>4 DEF OwnedInv, Owned, RegisteredAlive, ThreadsOwned
  <2>9. \A x \in DOMAIN worker' : worker'[x].closed => ~worker'[x].active
    BY <2>4 DEF OwnedInv, Owned
  <2> QED
    BY <1>1, <1>2, <2>1, <2>6, <2>7, <2>8, <2>9 DEF OwnedInv, Owned
<1> QED
  BY <1>4, <1>5

\* After a reset nobody owns anything.
LEMMA OwnedNothing ==
    ASSUME g_workers' = [c \in Channels |-> Nobody], worker' = Nothing, http' = Nothing,
           lock' # Main, main' = "serving"
    PROVE  Owned'
<1>1. DOMAIN worker' = {} /\ DOMAIN http' = {}
  BY DEF Nothing
<1>2. Registered' = {}
  BY DEF Registered
<1>3. RegisteredAlive' /\ ThreadsOwned'
  BY <1>1, <1>2 DEF RegisteredAlive, ThreadsOwned
<1> QED
  BY <1>1, <1>3 DEF Owned

LEMMA OwnedMainRuns == ASSUME OwnedInv, MainRuns PROVE Owned'
<1>1. CASE StopHttp \/ Return
  <2>1. /\ UNCHANGED <<g_workers, worker, lock, http>> /\ main # "clearing"
        /\ main' # "clearing"
        /\ main' = "exited" => http = Nothing
    BY <1>1 DEF StopHttp, Return
  <2>2. /\ Registered' = Registered /\ RegisteredAlive' /\ ThreadsOwned'
        /\ \A x \in DOMAIN http : HandlerOwns(x)
    BY <2>1 DEF OwnedInv, Owned, RegisteredAlive, ThreadsOwned, Registered
  <2>3. \A x \in DOMAIN http' : HandlerOwns(x)'
    BY <2>1, <2>2 DEF HandlerOwns
  <2> QED
    BY <2>1, <2>2, <2>3 DEF OwnedInv, Owned
<1>2. CASE LockAll
  <2>1. /\ UNCHANGED <<g_workers, worker, http>> /\ lock = Nobody
        /\ lock' = Main /\ main' = "clearing" /\ Registered' = Registered
    BY <1>2 DEF LockAll, Registered
  <2>2. \A x \in DOMAIN http : HandlerOwns(x) /\ http[x].at \in {"find", "insert"}
    BY <2>1, HandlersWorker, Waiting, ThreadsAssumption
  <2>3. \A x \in DOMAIN http' : HandlerOwns(x)'
    BY <2>1, <2>2 DEF HandlerOwns
  <2> QED
    BY <2>1, <2>3 DEF OwnedInv, Owned, RegisteredAlive, ThreadsOwned
<1>3. CASE \E k \in Workers : StopNext(k) \/ Destroy(k)
  <2>1. PICK k \in Registered : /\ worker' = Closed(k)
                                /\ UNCHANGED <<g_workers, lock, http, main>>
    BY <1>3 DEF StopNext, Destroy
  <2>2. /\ DOMAIN worker' = DOMAIN worker
        /\ \A x \in DOMAIN worker : /\ x # k => worker'[x] = worker[x]
                                    /\ x = k => worker'[x].closed /\ ~worker'[x].active
    BY <2>1, ClosedFacts DEF OwnedInv, TypeInv
  <2>3. \A x \in DOMAIN worker : worker[x].closed => ~worker[x].active
    BY DEF OwnedInv, Owned
  <2> QED
    BY <2>1, <2>2, <2>3, OwnersKept
<1>4. CASE Clear
  <2>1. /\ main = "clearing" /\ lock' = Nobody /\ main' = "joining" /\ http' = http
        /\ g_workers' = [c \in Channels |-> Nobody]
        /\ DOMAIN worker' = DOMAIN worker \ Registered
        /\ \A x \in DOMAIN worker' : worker'[x] = worker[x]
    BY <1>4 DEF Clear, Without, Restrict
  <2>2. Registered' = {}
    BY <2>1 DEF Registered
  <2>3. lock = Main /\ lock \notin Handlers /\ Main # Nobody
    BY <2>1, ThreadsAssumption DEF OwnedInv, Owned
  <2>4. \A x \in DOMAIN http : HandlerOwns(x) /\ http[x].at \in {"find", "insert"}
    BY <2>3, HandlersWorker, Waiting
  <2>5. \A x \in DOMAIN http' : HandlerOwns(x)'
    BY <2>1, <2>2, <2>4 DEF HandlerOwns
  <2>6. RegisteredAlive' /\ ThreadsOwned'
    BY <2>1, <2>2 DEF OwnedInv, Owned, RegisteredAlive, ThreadsOwned
  <2> QED
    BY <2>1, <2>3, <2>5, <2>6 DEF OwnedInv, Owned
<1>5. CASE Restart
  <2>1. lock # Main /\ http = Nothing
    BY <1>5 DEF Restart, OwnedInv, Owned
  <2> QED
    BY <1>5, <2>1, OwnedNothing DEF Restart
<1> QED
  BY <1>1, <1>2, <1>3, <1>4, <1>5 DEF MainRuns

LEMMA OwnedNext == OwnedInv /\ [Next]_vars => OwnedInv'
<1> SUFFICES ASSUME OwnedInv, [Next]_vars PROVE Owned'
  BY TypeNext DEF OwnedInv
<1>1. \A x \in DOMAIN worker : worker[x].closed => ~worker[x].active
  BY DEF OwnedInv, Owned
<1>2. CASE UNCHANGED <<g_workers, worker, lock, http, main>>
  BY <1>1, <1>2, OwnersKept
<1>3. CASE UNCHANGED vars
  BY <1>2, <1>3 DEF vars
<1>4. CASE Terminate \/ \E w \in Windows : Recv(w)
  BY <1>2, <1>4 DEF Terminate, Recv
<1>5. ASSUME NEW k \in Workers, WorkerRuns(k) PROVE Owned'
  <2>1. CASE Abort(k)
    BY <2>1, OwnedNothing, ThreadsAssumption DEF Abort
  <2>2. CASE Enter(k) \/ Take(k) \/ Process(k) \/ End(k)
    <3>1. worker[k].queue = <<>> => worker'[k].queue = <<>>
      BY <2>2, WorkerFacts DEF OwnedInv
    <3> QED
      BY <1>1, <2>2, <3>1, WorkerFacts, OwnersKept DEF OwnedInv
  <2> QED
    BY <1>5, <2>1, <2>2 DEF WorkerRuns
<1>6. CASE Submit
  <2>1. UNCHANGED <<g_workers, lock, http, main>>
    BY <1>6 DEF Submit
  <2> QED
    BY <1>1, <1>6, <2>1, SubmitFacts, OwnersKept DEF OwnedInv
<1>7. ASSUME NEW h \in Handlers, HandlerRuns(h) PROVE Owned'
  BY <1>7, OwnedPostInsert, OwnedPostReplace, OwnedJoined, OwnedDelete DEF HandlerRuns
<1> QED
  BY <1>3, <1>4, <1>5, <1>6, <1>7, OwnedPostCreate, OwnedDeleteBegins, OwnedMainRuns DEF Next

LEMMA OwnedInit == Init => OwnedInv
<1> SUFFICES ASSUME Init PROVE Owned
  BY TypeInit DEF OwnedInv
<1>1. DOMAIN worker = {} /\ DOMAIN http = {} /\ Registered = {} /\ lock # Main
  BY ThreadsAssumption DEF Init, Nothing, Registered
<1> QED
  BY <1>1 DEF Init, Owned, RegisteredAlive, ThreadsOwned

LEMMA Ownership == Spec => []OwnedInv
  BY OwnedInit, OwnedNext, PTL DEF Spec

\* Every worker is reached by exactly one who will stop it, whatever creates, replacements,
\* deletes and the shutdown overlap: no std::thread is destroyed while it is joinable.
THEOREM ThreadsAlwaysOwned == Spec => []ThreadsOwned
<1>1. OwnedInv => ThreadsOwned
  BY DEF OwnedInv, Owned
<1> QED
  BY <1>1, Ownership, PTL

\* The UDP thread never finds a destroyed worker in the map.
THEOREM RegisteredAlwaysAlive == Spec => []RegisteredAlive
<1>1. OwnedInv => RegisteredAlive
  BY DEF OwnedInv, Owned
<1> QED
  BY <1>1, Ownership, PTL

(* Queues.                                                                 *)

\* Queue q of a worker that took block `taken' last, while r blocks of its window came.
Fed(q, taken, active, r) ==
    /\ Len(q) <= MaxDepth
    /\ \A i \in 1 .. Len(q) - 1 : q[i + 1] = q[i] + 1
    /\ \A i \in 1 .. Len(q) : q[i] <= r
    /\ taken <= r
    /\ q # <<>> => taken < q[1]
    /\ q # <<>> /\ active => q[Len(q)] = r

WorkerFed(k) ==
    Fed(worker[k].queue, worker[k].taken, worker[k].active, received[worker[k].window])

QueueInv == OwnedInv /\ \A k \in DOMAIN worker : WorkerFed(k)

LEMMA FedPush ==
    ASSUME NEW q \in Seq(1 .. MaxBlocks), NEW taken \in Nat, NEW r \in Nat,
           r + 1 \in 1 .. MaxBlocks, Fed(q, taken, TRUE, r), NEW active
    PROVE  Fed(Pushed(q, r + 1), taken, active, r + 1)
<1> DEFINE p == Pushed(q, r + 1)
<1>1. /\ Len(q) <= MaxDepth /\ Len(q) \in Nat /\ taken <= r
      /\ \A i \in 1 .. Len(q) : q[i] \in Nat /\ q[i] <= r
      /\ \A i \in 1 .. Len(q) - 1 : q[i + 1] = q[i] + 1
      /\ Len(q) > 0 => taken < q[1] /\ q[Len(q)] = r
  <2>1. Len(q) \in Nat /\ (Len(q) > 0 => q # <<>>)
    OBVIOUS
  <2>2. \A i \in 1 .. Len(q) : q[i] \in 1 .. MaxBlocks
    BY ElementOfSeq
  <2> QED
    BY <2>1, <2>2 DEF Fed
<1>2. /\ Len(p) <= MaxDepth /\ Len(p) > 0 /\ p[Len(p)] = r + 1
  BY <1>1, PushedFacts
<1>3. PICK d \in {0, 1} : /\ d <= Len(q) /\ Len(p) = Len(q) - d + 1
                          /\ \A i \in 1 .. Len(q) - d : p[i] = q[i + d]
  BY <1>1, PushedFacts
<1> HIDE DEF p
<1>4. ASSUME NEW i \in 1 .. Len(p) - 1 PROVE p[i + 1] = p[i] + 1
  <2>1. i \in 1 .. Len(q) - d /\ i + d \in 1 .. Len(q) /\ p[i] = q[i + d] /\ i \in Nat
    BY <1>1, <1>3
  <2>2. CASE i = Len(q) - d
    <3>1. i + d = Len(q) /\ Len(q) > 0 /\ i + 1 = Len(p)
      BY <1>1, <1>3, <2>1, <2>2
    <3> QED
      BY <1>1, <1>2, <2>1, <3>1
  <2>3. CASE i # Len(q) - d
    <3>1. i + 1 \in 1 .. Len(q) - d /\ i + d \in 1 .. Len(q) - 1
      BY <1>1, <1>3, <2>1, <2>3
    <3>2. p[i + 1] = q[(i + 1) + d] /\ q[(i + d) + 1] = q[i + d] + 1
      BY <1>1, <1>3, <3>1
    <3>3. (i + 1) + d = (i + d) + 1
      BY <2>1
    <3> QED
      BY <2>1, <3>2, <3>3
  <2> QED
    BY <2>2, <2>3
<1>5. ASSUME NEW i \in 1 .. Len(p) PROVE p[i] <= r + 1
  <2>1. CASE i = Len(p)
    BY <1>2, <2>1
  <2>2. CASE i # Len(p)
    <3>1. i \in 1 .. Len(q) - d /\ i + d \in 1 .. Len(q)
      BY <1>1, <1>3, <2>2
    <3>2. p[i] = q[i + d]
      BY <1>3, <3>1
    <3> QED
      BY <1>1, <3>1, <3>2
  <2> QED
    BY <2>1, <2>2
<1>6. taken < p[1]
  <2>1. CASE Len(q) = d
    BY <1>1, <1>2, <1>3, <2>1
  <2>2. CASE Len(q) # d /\ d = 0
    <3>1. 1 \in 1 .. Len(q) - d /\ 1 + d = 1 /\ Len(q) > 0
      BY <1>1, <1>3, <2>2
    <3>2. p[1] = q[1]
      BY <1>3, <3>1
    <3> QED
      BY <1>1, <3>1, <3>2
  <2>3. CASE Len(q) # d /\ d = 1
    <3>1. 1 \in 1 .. Len(q) - d /\ 1 \in 1 .. Len(q) - 1 /\ Len(q) > 0 /\ 1 \in 1 .. Len(q)
      BY <1>1, <1>3, <2>3
    <3>2. p[1] = q[2] /\ q[1 + 1] = q[1] + 1 /\ q[1] \in Nat
      BY <1>1, <1>3, <2>3, <3>1
    <3> QED
      BY <1>1, <3>1, <3>2
  <2> QED
    BY <2>1, <2>2, <2>3
<1>7. taken <= r + 1
  BY <1>1
<1> QED
  BY <1>2, <1>4, <1>5, <1>6, <1>7 DEF Fed, p

LEMMA FedTake ==
    ASSUME NEW q \in Seq(1 .. MaxBlocks), NEW taken \in Nat, NEW r \in Nat, NEW active,
           Fed(q, taken, active, r), q # <<>>
    PROVE  Fed(Tail(q), Head(q), active, r)
<1>1. /\ Len(q) \in Nat /\ Len(q) > 0 /\ Head(q) = q[1] /\ MaxDepth \in Nat
      /\ \A i \in 1 .. Len(q) : q[i] \in Nat
  <2>1. Len(q) \in Nat /\ Len(q) # 0
    OBVIOUS
  <2>2. \A i \in 1 .. Len(q) : q[i] \in 1 .. MaxBlocks
    BY ElementOfSeq
  <2>3. Head(q) = q[1]
    OBVIOUS
  <2> QED
    BY <2>1, <2>2, <2>3, DepthAssumption
<1>2. /\ Len(q) <= MaxDepth /\ q[1] <= r
      /\ \A i \in 1 .. Len(q) : q[i] <= r
      /\ \A i \in 1 .. Len(q) - 1 : q[i + 1] = q[i] + 1
      /\ active => q[Len(q)] = r
  BY <1>1 DEF Fed
<1>3. /\ Len(Tail(q)) = Len(q) - 1 /\ (Tail(q) # <<>> => Len(q) > 1)
      /\ \A i \in 1 .. Len(q) - 1 : Tail(q)[i] = q[i + 1]
  BY <1>1
<1>4. \A i \in 1 .. Len(Tail(q)) - 1 : Tail(q)[i + 1] = Tail(q)[i] + 1
  BY <1>1, <1>2, <1>3
<1>5. \A i \in 1 .. Len(Tail(q)) : Tail(q)[i] <= r
  BY <1>1, <1>2, <1>3
<1>6. Tail(q) # <<>> => Head(q) < Tail(q)[1]
  BY <1>1, <1>2, <1>3
<1>7. Tail(q) # <<>> /\ active => Tail(q)[Len(Tail(q))] = r
  BY <1>1, <1>2, <1>3
<1> QED
  BY <1>1, <1>2, <1>3, <1>4, <1>5, <1>6, <1>7 DEF Fed

\* What QueueInv says of a worker needs nothing but its queue, its flag and the count.
LEMMA FedKept ==
    ASSUME QueueInv, NEW k \in DOMAIN worker, k \in DOMAIN worker',
           worker'[k].queue = worker[k].queue, worker'[k].taken = worker[k].taken,
           worker'[k].window = worker[k].window, worker'[k].active => worker[k].active,
           received' = received
    PROVE  WorkerFed(k)'
<1>1. WorkerFed(k)
  BY DEF QueueInv
<1> QED
  BY <1>1 DEF WorkerFed, Fed

LEMMA FedTypes ==
    ASSUME QueueInv, NEW k \in DOMAIN worker
    PROVE  /\ worker[k].queue \in Seq(1 .. MaxBlocks) /\ worker[k].taken \in Nat
           /\ worker[k].window \in Windows /\ received[worker[k].window] \in Nat
           /\ worker[k].active \in BOOLEAN /\ WorkerFed(k)
<1>1. /\ worker[k] \in Worker /\ received \in [Windows -> 0 .. MaxBlocks] /\ WorkerFed(k)
      /\ MaxBlocks \in Nat
  BY DepthAssumption DEF QueueInv, OwnedInv, TypeInv, TypeOK
<1> QED
  BY <1>1 DEF Worker

LEMMA FedSubmit ==
    ASSUME QueueInv, Submit, NEW k \in DOMAIN worker PROVE WorkerFed(k)'
<1> DEFINE q == worker[k].queue
           t == worker[k].taken
           w == worker[k].window
           r == received[w]
<1>1. /\ q \in Seq(1 .. MaxBlocks) /\ t \in Nat /\ w \in Windows /\ r \in Nat
      /\ worker[k].active \in BOOLEAN /\ Fed(q, t, worker[k].active, r)
  BY FedTypes DEF WorkerFed
<1>2. /\ worker'[k].window = w /\ worker'[k].active = worker[k].active
      /\ worker'[k].taken = t
      /\ worker'[k].queue = IF k \in Registered /\ w = udp /\ worker[k].active
                            THEN Pushed(q, received[udp] + 1) ELSE q
      /\ received[udp] + 1 \in 1 .. MaxBlocks
  BY SubmitFacts DEF QueueInv, OwnedInv
<1>3. received'[w] = IF w = udp THEN r + 1 ELSE r
  BY <1>1 DEF Submit, QueueInv, OwnedInv, TypeInv, TypeOK
<1> HIDE DEF q, t, w
<1>4. CASE k \in Registered /\ w = udp /\ worker[k].active
  <2>1. /\ worker'[k].queue = Pushed(q, r + 1) /\ received'[w] = r + 1
        /\ r + 1 \in 1 .. MaxBlocks /\ Fed(q, t, TRUE, r)
    BY <1>1, <1>2, <1>3, <1>4 DEF Fed
  <2>2. Fed(Pushed(q, r + 1), t, worker[k].active, r + 1)
    BY <1>1, <2>1, FedPush
  <2> QED
    BY <1>2, <2>1, <2>2 DEF WorkerFed
<1>5. CASE w # udp
  <2>1. worker'[k].queue = q /\ received'[w] = r
    BY <1>2, <1>3, <1>5
  <2> QED
    BY <1>1, <1>2, <2>1 DEF WorkerFed
<1>6. CASE w = udp /\ ~(k \in Registered /\ worker[k].active)
  <2>1. q = <<>> \/ ~worker[k].active
    <3> SUFFICES ASSUME k \notin Registered PROVE q = <<>> \/ ~worker[k].active
      BY <1>6
    <3>1. PICK h \in DOMAIN http : http[h].worker = k /\ http[h].at \in {"insert", "replace"}
      BY DEF QueueInv, OwnedInv, Owned, ThreadsOwned
    <3>2. HandlerOwns(h)
      BY HandlersWorker DEF QueueInv
    <3> QED
      BY <3>1, <3>2 DEF HandlerOwns, QueueInv, OwnedInv, Owned, q
  <2>2. \A i \in 1 .. Len(q) : q[i] \in 1 .. MaxBlocks
    BY <1>1, ElementOfSeq
  <2>3. Fed(q, t, worker[k].active, r + 1)
    BY <1>1, <2>1, <2>2 DEF Fed
  <2>4. worker'[k].queue = q /\ received'[w] = r + 1
    BY <1>2, <1>3, <1>6
  <2> QED
    BY <1>2, <2>3, <2>4 DEF WorkerFed
<1> QED
  BY <1>4, <1>5, <1>6

LEMMA QueueNext == QueueInv /\ [Next]_vars => QueueInv'
<1> SUFFICES ASSUME QueueInv, [Next]_vars, NEW k \in DOMAIN worker' PROVE WorkerFed(k)'
  BY OwnedNext DEF QueueInv
<1>1. \A x \in DOMAIN worker : worker[x].active \in BOOLEAN /\ TypeInv /\ TypeOK
  BY DEF QueueInv, OwnedInv, TypeInv, TypeOK, Worker
<1>2. CASE k \in DOMAIN worker /\ UNCHANGED <<worker, received>>
  BY <1>2, FedKept
<1>3. CASE UNCHANGED vars
  BY <1>2, <1>3 DEF vars
<1>4. CASE \/ Terminate \/ StopHttp \/ LockAll \/ Return
           \/ \E w \in Windows : Recv(w)
           \/ \E h \in Handlers, c \in Channels : DeleteBegins(h, c)
           \/ \E h \in Handlers : Delete(h) /\ worker' = worker
  BY <1>2, <1>4 DEF Terminate, StopHttp, LockAll, Return, Recv, DeleteBegins, Delete
<1>5. CASE Restart \/ \E x \in Workers : Abort(x)
  BY <1>5 DEF Restart, Abort, Nothing
<1>6. CASE received' = received /\ \E x : worker' = Closed(x)
  <2>1. PICK x : worker' = Closed(x)
    BY <1>6
  <2>2. /\ k \in DOMAIN worker /\ worker'[k].queue = worker[k].queue
        /\ worker'[k].taken = worker[k].taken /\ worker'[k].window = worker[k].window
        /\ worker'[k].active => worker[k].active
    BY <1>1, <2>1, ClosedFacts DEF QueueInv, OwnedInv, TypeInv
  <2> QED
    BY <1>6, <2>2, FedKept
<1>7. CASE \/ \E x \in Workers : StopNext(x) \/ Destroy(x)
           \/ \E h \in Handlers : PostReplace(h) \/ (Delete(h) /\ worker' # worker)
  BY <1>6, <1>7 DEF StopNext, Destroy, PostReplace, Delete
<1>8. CASE Clear \/ \E h \in Handlers : PostInsert(h) \/ PostJoined(h) \/ DeleteJoined(h)
  <2>1. k \in DOMAIN worker /\ worker'[k] = worker[k] /\ received' = received
    BY <1>8 DEF Clear, PostInsert, PostJoined, DeleteJoined, Without, Restrict
  <2> QED
    BY <2>1, FedKept
<1>9. CASE Submit
  BY <1>9, SubmitFacts, FedSubmit DEF QueueInv, OwnedInv
<1>10. ASSUME NEW x \in Workers, Enter(x) \/ Take(x) \/ Process(x) \/ End(x)
       PROVE  WorkerFed(k)'
  <2>1. TypeInv
    BY DEF QueueInv, OwnedInv
  <2>2. /\ k \in DOMAIN worker /\ received' = received
        /\ worker'[k].window = worker[k].window /\ worker'[k].active = worker[k].active
        /\ \/ worker'[k].queue = worker[k].queue /\ worker'[k].taken = worker[k].taken
           \/ /\ worker[k].queue # <<>> /\ worker'[k].queue = Tail(worker[k].queue)
              /\ worker'[k].taken = Head(worker[k].queue)
    BY <1>10, <2>1, WorkerFacts
  <2>3. CASE worker'[k].queue = worker[k].queue /\ worker'[k].taken = worker[k].taken
    BY <2>2, <2>3, FedKept
  <2>4. CASE /\ worker[k].queue # <<>> /\ worker'[k].queue = Tail(worker[k].queue)
             /\ worker'[k].taken = Head(worker[k].queue)
    <3>1. Fed(Tail(worker[k].queue), Head(worker[k].queue), worker[k].active,
              received[worker[k].window])
      BY <2>2, <2>4, FedTypes, FedTake DEF WorkerFed
    <3> QED
      BY <2>2, <2>4, <3>1 DEF WorkerFed
  <2> QED
    BY <2>2, <2>3, <2>4
<1>11. ASSUME NEW h \in Handlers, NEW c \in Channels, NEW w \in Windows, NEW x \in Workers, PostCreate(h, c, w, x)
       PROVE  WorkerFed(k)'
  <2>1. CASE k = x
    <3>1. /\ worker'[k].queue = <<>> /\ worker'[k].taken = 0 /\ received' = received
          /\ worker'[k].window = w
      BY <1>11, <2>1 DEF PostCreate, With
    <3>2. MaxDepth \in Nat /\ MaxBlocks \in Nat /\ received[w] \in 0 .. MaxBlocks
      BY DepthAssumption DEF QueueInv, OwnedInv, TypeInv, TypeOK
    <3> QED
      BY <3>1, <3>2 DEF WorkerFed, Fed
  <2>2. CASE k # x
    <3>1. k \in DOMAIN worker /\ worker'[k] = worker[k] /\ received' = received
      BY <1>11, <2>2 DEF PostCreate, With
    <3> QED
      BY <3>1, FedKept
  <2> QED
    BY <2>1, <2>2
<1> QED
  BY <1>3, <1>4, <1>5, <1>7, <1>8, <1>9, <1>10, <1>11
     DEF Next, HandlerRuns, WorkerRuns, MainRuns

\* A worker gets the newest blocks of its window, in order and without a gap, for any
\* depth of its queue and whatever is created, deleted or shut down meanwhile.
THEOREM QueuesAlwaysNewest == Spec => []QueuesNewest
<1>1. Init => QueueInv
  BY OwnedInit DEF Init, Nothing, QueueInv
<1>2. QueueInv => QueuesNewest
  BY DEF QueueInv, WorkerFed, Fed, QueuesNewest
<1> QED
  BY <1>1, <1>2, QueueNext, PTL DEF Spec

(* A join comes to its end.                                                *)

LEMMA RemainingNat ==
    ASSUME TypeOK, NEW k \in DOMAIN worker
    PROVE  /\ Remaining(k) \in Nat
           /\ Remaining(k) <= 2 * Len(worker[k].queue) + 2
<1>1. worker[k].queue \in Seq(1 .. MaxBlocks) /\ worker[k].thread \in {"started", "idle", "busy", "ended"}
  BY DEF TypeOK, Worker
<1>2. Len(worker[k].queue) \in Nat
  BY <1>1
<1> QED
  BY <1>1, <1>2 DEF Remaining

\* Each step of a worker's thread is one of those that it has before it.
LEMMA WorkerShrinks ==
    ASSUME TypeInv, NEW k \in Workers, Enter(k) \/ Take(k) \/ Process(k) \/ End(k)
    PROVE  Remaining(k)' < Remaining(k)
<1>1. k \in DOMAIN worker /\ worker[k] \in Worker
  BY DEF Enter, Take, Process, End, TypeInv, TypeOK
<1>2. worker[k].queue \in Seq(1 .. MaxBlocks)
  BY <1>1 DEF Worker
<1>3. Len(worker[k].queue) \in Nat
  BY <1>2
<1> DEFINE n == Len(worker[k].queue)
<1>4. CASE Enter(k)
  <2>1. /\ worker'[k].queue = worker[k].queue
        /\ worker[k].thread = "started" /\ worker'[k].thread = "idle"
    BY <1>1, <1>4 DEF Enter, Worker
  <2> QED
    BY <1>3, <2>1 DEF Remaining
<1>5. CASE Process(k)
  <2>1. /\ worker'[k].queue = worker[k].queue
        /\ worker[k].thread = "busy" /\ worker'[k].thread = "idle"
    BY <1>1, <1>5 DEF Process, Worker
  <2> QED
    BY <1>3, <2>1 DEF Remaining
<1>6. CASE End(k)
  <2>1. /\ worker'[k].queue = worker[k].queue
        /\ worker[k].thread = "idle" /\ worker'[k].thread = "ended"
    BY <1>1, <1>6 DEF End, Worker
  <2> QED
    BY <1>3, <2>1 DEF Remaining
<1>7. CASE Take(k)
  <2>1. /\ worker[k].queue # <<>> /\ worker'[k].queue = Tail(worker[k].queue)
        /\ worker[k].thread = "idle" /\ worker'[k].thread = "busy"
    BY <1>1, <1>7 DEF Take, Worker
  <2>2. Len(Tail(worker[k].queue)) = n - 1
    BY <1>2, <2>1, HeadTailProperties
  <2>3. Len(worker'[k].queue) = n - 1
    BY <2>1, <2>2
  <2> QED
    BY <1>3, <2>1, <2>3 DEF Remaining
<1> QED
  BY <1>4, <1>5, <1>6, <1>7

\* All that happens to a closed worker is a step of its own thread.
LEMMA OnlyItsThread ==
    ASSUME OwnedInv, [Next]_vars, NEW k \in DOMAIN worker, k \in DOMAIN worker',
           worker[k].closed, worker'[k] # worker[k]
    PROVE  Enter(k) \/ Take(k) \/ Process(k) \/ End(k)
<1>1. ~worker[k].active /\ TypeInv /\ TypeOK /\ worker[k] \in Worker
  BY DEF OwnedInv, Owned, TypeInv, TypeOK
<1>2. CASE worker' = worker
  BY <1>2
<1>3. CASE \/ Terminate \/ StopHttp \/ LockAll \/ Return
           \/ \E w \in Windows : Recv(w)
           \/ \E h \in Handlers, c \in Channels : DeleteBegins(h, c)
           \/ UNCHANGED vars
  BY <1>2, <1>3 DEF Terminate, StopHttp, LockAll, Return, Recv, DeleteBegins, vars
<1>4. CASE Restart \/ \E x \in Workers : Abort(x)
  BY <1>4 DEF Restart, Abort, Nothing
<1>5. CASE \E x : worker' = Closed(x)
  <2>1. PICK x : worker' = Closed(x)
    BY <1>5
  <2>2. worker[k].closed = TRUE /\ worker[k].active = FALSE
    BY <1>1 DEF Worker
  <2>3. /\ worker'[k] \in Worker /\ worker'[k].closed = TRUE /\ worker'[k].active = FALSE
        /\ worker'[k].window = worker[k].window
        /\ worker'[k].thread = worker[k].thread /\ worker'[k].queue = worker[k].queue
        /\ worker'[k].taken = worker[k].taken
    BY <1>1, <2>1, <2>2 DEF Closed, Worker
  <2> QED
    BY <1>1, <2>2, <2>3 DEF Worker
<1>6. CASE \/ \E x \in Workers : StopNext(x) \/ Destroy(x)
           \/ \E h \in Handlers : PostReplace(h) \/ (Delete(h) /\ worker' # worker)
  BY <1>5, <1>6 DEF StopNext, Destroy, PostReplace, Delete
<1>7. CASE Clear \/ \E h \in Handlers : PostInsert(h) \/ PostJoined(h) \/ DeleteJoined(h)
  BY <1>7 DEF Clear, PostInsert, PostJoined, DeleteJoined, Without, Restrict
<1>8. CASE Submit
  BY <1>1, <1>8 DEF Submit
<1>9. ASSUME NEW x \in Workers, Enter(x) \/ Take(x) \/ Process(x) \/ End(x)
      PROVE  x = k
  BY <1>1, <1>9, WorkerFacts
<1>10. CASE \E h \in Handlers, c \in Channels, w \in Windows, x \in Workers :
                PostCreate(h, c, w, x)
  BY <1>10 DEF PostCreate, With
<1>11. CASE \E x \in Workers : Enter(x) \/ Take(x) \/ Process(x) \/ End(x)
  BY <1>9, <1>11
<1> QED
  BY <1>3, <1>4, <1>6, <1>7, <1>8, <1>10, <1>11 DEF Next, HandlerRuns, WorkerRuns, MainRuns

\* Whatever happens to a worker that is being joined brings it closer to its end, for
\* any number of threads that create, feed and delete meanwhile.
THEOREM JoinsAlwaysShrink == Spec => JoinsShrink
<1>1. ASSUME OwnedInv, [Next]_vars, NEW k \in DOMAIN worker, k \in DOMAIN worker',
             worker[k].closed, worker'[k] # worker[k]
      PROVE  worker'[k].closed /\ Remaining(k)' < Remaining(k)
  <2>1. TypeInv /\ k \in Workers
    BY <1>1 DEF OwnedInv, TypeInv, TypeOK
  <2>2. Enter(k) \/ Take(k) \/ Process(k) \/ End(k)
    BY <1>1, OnlyItsThread
  <2>3. worker'[k].closed = worker[k].closed
    BY <1>1, <2>1, <2>2, WorkerFacts
  <2> QED
    BY <1>1, <2>1, <2>2, <2>3, WorkerShrinks
<1>2. OwnedInv /\ [Next]_vars =>
          [\A k \in DOMAIN worker \cap DOMAIN worker' :
               worker[k].closed /\ worker'[k] # worker[k]
                   => worker'[k].closed /\ Remaining(k)' < Remaining(k)]_vars
  BY <1>1
<1> QED
  BY <1>2, Ownership, PTL DEF Spec, JoinsShrink

\* A handler that joins a worker holds the lock meanwhile, and waits for a worker that
\* exists, is closed and has a bounded number of steps before it.
JoinsBounded ==
    \A h \in DOMAIN http :
        LET k == http[h].worker
        IN  http[h].at \in {"replace", "delete"} =>
                /\ lock = h
                /\ k \in DOMAIN worker /\ worker[k].closed
                /\ Remaining(k) <= 2 * MaxDepth + 2

\* The longest that g_workers_mtx is held: a full queue and the block under way.
THEOREM JoinsAlwaysBounded == Spec => []JoinsBounded
<1>1. Init => QueueInv
  BY OwnedInit DEF Init, Nothing, QueueInv
<1>2. ASSUME QueueInv, NEW h \in DOMAIN http, http[h].at \in {"replace", "delete"}
      PROVE  /\ lock = h
             /\ http[h].worker \in DOMAIN worker /\ worker[http[h].worker].closed
             /\ Remaining(http[h].worker) <= 2 * MaxDepth + 2
  <2> DEFINE k == http[h].worker
  <2>1. lock = h /\ k \in DOMAIN worker /\ worker[k].closed
    BY <1>2, HandlersWorker DEF HandlerOwns, QueueInv
  <2> HIDE DEF k
  <2>2. Len(worker[k].queue) <= MaxDepth /\ TypeOK
    BY <1>2, <2>1 DEF QueueInv, WorkerFed, Fed, OwnedInv, TypeInv
  <2>3. worker[k].queue \in Seq(1 .. MaxBlocks)
    BY <2>1, <2>2 DEF TypeOK, Worker
  <2>4. Len(worker[k].queue) \in Nat /\ MaxDepth \in Nat
    BY <2>3, DepthAssumption
  <2>5. Remaining(k) \in Nat /\ Remaining(k) <= 2 * Len(worker[k].queue) + 2
    BY <2>1, <2>2, RemainingNat
  <2>6. Remaining(k) <= 2 * MaxDepth + 2
    BY <2>2, <2>4, <2>5
  <2> QED
    BY <2>1, <2>6 DEF k
<1>3. QueueInv => JoinsBounded
  BY <1>2 DEF JoinsBounded
<1> QED
  BY <1>1, <1>3, QueueNext, PTL DEF Spec

=============================================================================
