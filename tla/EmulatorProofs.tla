--------------------------- MODULE EmulatorProofs ---------------------------
(***************************************************************************)
(* Proofs about Emulator, for any number of threads and of stream objects: *)
(* type correctness and StreamsReachable; and that the flag `streaming' is *)
(* never wrong while requests come one at a time and no stream breaks off. *)
(***************************************************************************)
EXTENDS Emulator, TLAPS

\* Until two starts overlap, the one that is past its look at the pointer knows what
\* the pointer is.
PointerKnown ==
    ~overlapped =>
        /\ \A h, i \in Starting : h = i
        /\ \A h \in Handlers :
               /\ At(h, "swap") => doing[h].old = emulator
               /\ At(h, "exchange") \/ At(h, "launch") => doing[h].obj = emulator

Inv == TypeOK /\ PointerKnown /\ StreamsReachable

\* Thread t goes on to a task, or ends its request.
Moves(t) == (\E task \in Task : doing' = With(doing, t, task)) \/ Done(t)

LEMMA Moving ==
    ASSUME TypeOK, NEW t \in Threads, Moves(t)
    PROVE  /\ DOMAIN doing' \subseteq Threads /\ \A u \in DOMAIN doing' : doing'[u] \in Task
           /\ \A u : u # t => /\ u \in DOMAIN doing' <=> u \in DOMAIN doing
                              /\ u \in DOMAIN doing => doing'[u] = doing[u]
<1>1. CASE Done(t)
  BY <1>1 DEF Done, Without, Restrict, TypeOK
<1>2. ASSUME NEW task \in Task, doing' = With(doing, t, task)
      PROVE  /\ DOMAIN doing' \subseteq Threads /\ \A u \in DOMAIN doing' : doing'[u] \in Task
             /\ \A u : u # t => /\ u \in DOMAIN doing' <=> u \in DOMAIN doing
                                /\ u \in DOMAIN doing => doing'[u] = doing[u]
  BY <1>2 DEF With, TypeOK
<1> QED
  BY <1>1, <1>2 DEF Moves

LEMMA Going ==
    ASSUME NEW t, NEW place, NEW e, Go(t, place, e)
    PROVE  t \in DOMAIN doing' /\ doing'[t].at = place /\ doing'[t].obj = e
  BY DEF Go, With

LEMMA Ending == ASSUME NEW t, Done(t) PROVE t \notin DOMAIN doing'
  BY DEF Done, Without, Restrict

\* A step of a thread that leaves the pointer alone.
LEMMA Quiet ==
    ASSUME Inv, NEW t \in Threads, Moves(t), UNCHANGED <<emulator, overlapped>>,
           streaming' \in BOOLEAN, stopped' \in BOOLEAN, stream' \in [Streams -> Stream],
           ~overlapped => Delivering' \subseteq Delivering \cup {emulator},
           At(t, "retire") => doing[t].obj \notin Delivering',
           t \in Starting' => t \in Starting, ~At(t, "swap")',
           ~overlapped /\ (At(t, "exchange") \/ At(t, "launch"))' => doing'[t].obj = emulator
    PROVE  Inv'
<1>1. /\ DOMAIN doing' \subseteq Threads /\ \A u \in DOMAIN doing' : doing'[u] \in Task
      /\ \A u : u # t => /\ u \in DOMAIN doing' <=> u \in DOMAIN doing
                         /\ u \in DOMAIN doing => doing'[u] = doing[u]
  BY Moving DEF Inv
<1>2. TypeOK'
  BY <1>1 DEF Inv, TypeOK
<1>3. \A u : u # t => /\ \A place : At(u, place)' <=> At(u, place)
                      /\ u \in DOMAIN doing => doing'[u] = doing[u]
  BY <1>1 DEF At
<1>4. PointerKnown'
  <2>1. \A u \in Starting' : u \in Starting
    BY <1>3 DEF Starting
  <2> SUFFICES ASSUME ~overlapped
               PROVE  /\ \A h, i \in Starting' : h = i
                      /\ \A h \in Handlers :
                             /\ At(h, "swap")' => doing'[h].old = emulator'
                             /\ (At(h, "exchange") \/ At(h, "launch"))' => doing'[h].obj = emulator'
    BY DEF PointerKnown
  <2>2. \A h, i \in Starting' : h = i
    BY <2>1 DEF Inv, PointerKnown
  <2>3. ASSUME NEW h \in Handlers
        PROVE  /\ At(h, "swap")' => doing'[h].old = emulator'
               /\ (At(h, "exchange") \/ At(h, "launch"))' => doing'[h].obj = emulator'
    BY <1>3, <2>3 DEF Inv, PointerKnown, At
  <2> QED
    BY <2>2, <2>3
<1>5. StreamsReachable'
  <2> SUFFICES ASSUME ~overlapped, NEW e \in Delivering', e # emulator PROVE e \in Retiring'
    BY DEF StreamsReachable
  <2>1. e \in Retiring
    BY DEF Inv, StreamsReachable
  <2>2. PICK u \in DOMAIN doing : At(u, "retire") /\ doing[u].obj = e
    BY <2>1 DEF Retiring
  <2>3. u # t
    BY <2>2
  <2> QED
    BY <1>1, <1>3, <2>2, <2>3 DEF Retiring
<1> QED
  BY <1>2, <1>4, <1>5 DEF Inv

\* A step of a stream's thread or of the server, which no thread's task depends on.
LEMMA Background ==
    ASSUME Inv, UNCHANGED <<emulator, overlapped, doing, streaming>>, stopped' \in BOOLEAN,
           stream' \in [Streams -> Stream], Delivering' \subseteq Delivering
    PROVE  Inv'
  BY DEF Inv, TypeOK, PointerKnown, StreamsReachable, Starting, At, Retiring

LEMMA InvReset == ASSUME Reset PROVE Inv'
<1>1. [alive |-> FALSE, running |-> FALSE, thread |-> "none"] \in Stream
  BY DEF Stream
<1> DEFINE none == [alive |-> FALSE, running |-> FALSE, thread |-> "none"]
<1>2. stream' = [e \in Streams |-> none] /\ none \in Stream /\ ~none.running
  BY <1>1 DEF Reset
<1> HIDE DEF none
<1>3. DOMAIN doing' = {} /\ emulator' = Nobody /\ streaming' = FALSE /\ stopped' = FALSE /\ overlapped' = FALSE
  BY DEF Reset, Nothing
<1>4. TypeOK'
  BY <1>2, <1>3 DEF TypeOK
<1>5. Delivering' = {} /\ Starting' = {} /\ \A h, place : ~At(h, place)'
  BY <1>2, <1>3 DEF Delivering, Starting, At, Live
<1> QED
  BY <1>4, <1>5 DEF Inv, PointerKnown, StreamsReachable

LEMMA InvInit == Init => Inv
<1> SUFFICES ASSUME Init PROVE Inv
  OBVIOUS
<1>1. [alive |-> FALSE, running |-> FALSE, thread |-> "none"] \in Stream
  BY DEF Stream
<1> DEFINE none == [alive |-> FALSE, running |-> FALSE, thread |-> "none"]
<1>2. stream = [e \in Streams |-> none] /\ none \in Stream /\ ~none.running
  BY <1>1 DEF Init
<1> HIDE DEF none
<1>3. DOMAIN doing = {} /\ emulator = Nobody /\ streaming = FALSE /\ stopped = FALSE /\ overlapped = FALSE
  BY DEF Init, Nothing
<1>4. TypeOK
  BY <1>2, <1>3 DEF TypeOK
<1>5. Delivering = {} /\ Starting = {} /\ \A h, place : ~At(h, place)
  BY <1>2, <1>3 DEF Delivering, Starting, At, Live
<1> QED
  BY <1>4, <1>5 DEF Inv, PointerKnown, StreamsReachable

LEMMA InvCreate == ASSUME Inv, NEW h \in Handlers, NEW e \in Streams, Create(h, e) PROVE Inv'
<1> DEFINE new == [alive |-> TRUE, running |-> FALSE, thread |-> "none"]
           task == [at |-> "swap", obj |-> e, old |-> emulator]
<1>1. new \in Stream /\ ~new.running
  BY DEF Stream
<1>2. task \in Task /\ task.at = "swap" /\ task.old = emulator
  BY DEF Task, Inv, TypeOK
<1>3. /\ At(h, "create") /\ stream' = [stream EXCEPT ![e] = new] /\ doing' = With(doing, h, task)
      /\ overlapped' = (overlapped \/ Starting # {}) /\ UNCHANGED <<emulator, streaming, stopped>>
  BY DEF Create
<1> HIDE DEF new, task
<1>4. h \in Threads /\ Moves(h)
  BY <1>2, <1>3 DEF Threads, Moves
<1>5. /\ DOMAIN doing' \subseteq Threads /\ \A u \in DOMAIN doing' : doing'[u] \in Task
      /\ \A u : u # h => /\ u \in DOMAIN doing' <=> u \in DOMAIN doing
                         /\ u \in DOMAIN doing => doing'[u] = doing[u]
  BY <1>4, Moving DEF Inv
<1>6. doing'[h] = task /\ h \in DOMAIN doing'
  BY <1>3 DEF With
<1>7. stream' \in [Streams -> Stream] /\ Delivering' \subseteq Delivering
  BY <1>1, <1>3 DEF Delivering, Live, Inv, TypeOK
<1>8. TypeOK'
  BY <1>3, <1>5, <1>7 DEF Inv, TypeOK
<1>9. \A u : u # h => \A place : At(u, place)' <=> At(u, place)
  BY <1>5 DEF At
<1>10. PointerKnown'
  <2> SUFFICES ASSUME ~overlapped'
               PROVE  /\ \A i, j \in Starting' : i = j
                      /\ \A i \in Handlers :
                             /\ At(i, "swap")' => doing'[i].old = emulator'
                             /\ (At(i, "exchange") \/ At(i, "launch"))' => doing'[i].obj = emulator'
    BY DEF PointerKnown
  <2>1. Starting = {}
    BY <1>3
  <2>2. \A i \in Handlers : i # h => i \notin Starting'
    BY <1>9, <2>1 DEF Starting
  <2>3. \A i \in Handlers : i # h => ~At(i, "swap")' /\ ~At(i, "exchange")' /\ ~At(i, "launch")'
    BY <2>2 DEF Starting
  <2>4. ~At(h, "exchange")' /\ ~At(h, "launch")' /\ doing'[h].old = emulator'
    BY <1>2, <1>3, <1>6 DEF At
  <2>5. \A i, j \in Starting' : i = j
    BY <2>2 DEF Starting
  <2> QED
    BY <2>3, <2>4, <2>5
<1>11. StreamsReachable'
  <2> SUFFICES ASSUME ~overlapped', NEW s \in Delivering', s # emulator PROVE s \in Retiring'
    BY <1>3 DEF StreamsReachable
  <2>1. s \in Retiring
    BY <1>3, <1>7 DEF Inv, StreamsReachable
  <2>2. PICK u \in DOMAIN doing : At(u, "retire") /\ doing[u].obj = s
    BY <2>1 DEF Retiring
  <2>3. u # h
    BY <1>3, <2>2 DEF At
  <2> QED
    BY <1>5, <1>9, <2>2, <2>3 DEF Retiring
<1> QED
  BY <1>8, <1>10, <1>11 DEF Inv

LEMMA InvSwap == ASSUME Inv, NEW h \in Handlers, Swap(h) PROVE Inv'
<1>1. /\ At(h, "swap") /\ emulator' = doing[h].obj /\ UNCHANGED <<streaming, stream, stopped, overlapped>>
      /\ \/ doing[h].old = Nobody /\ Go(h, "start", Nobody)
         \/ doing[h].old # Nobody /\ Go(h, "retire", doing[h].old)
  BY DEF Swap
<1>2. doing[h].obj \in Streams \cup {Nobody} /\ doing[h].old \in Streams \cup {Nobody}
  BY <1>1 DEF Inv, TypeOK, At, Task
<1>3. h \in Threads /\ Moves(h)
  BY <1>1, <1>2 DEF Threads, Moves, Go, Task
<1>4. /\ DOMAIN doing' \subseteq Threads /\ \A u \in DOMAIN doing' : doing'[u] \in Task
      /\ \A u : u # h => /\ u \in DOMAIN doing' <=> u \in DOMAIN doing
                         /\ u \in DOMAIN doing => doing'[u] = doing[u]
  BY <1>3, Moving DEF Inv
<1>5. TypeOK'
  BY <1>1, <1>2, <1>4 DEF Inv, TypeOK
<1>6. \A u : u # h => \A place : At(u, place)' <=> At(u, place)
  BY <1>4 DEF At
<1>7. /\ h \in DOMAIN doing'
      /\ \/ doing[h].old = Nobody /\ doing'[h].at = "start"
         \/ doing[h].old # Nobody /\ doing'[h].at = "retire" /\ doing'[h].obj = doing[h].old
  BY <1>1, Going
<1>8. h \in Starting
  BY <1>1 DEF Starting
<1>9. PointerKnown'
  <2> SUFFICES ASSUME ~overlapped
               PROVE  /\ \A i, j \in Starting' : i = j
                      /\ \A i \in Handlers :
                             /\ At(i, "swap")' => doing'[i].old = emulator'
                             /\ (At(i, "exchange") \/ At(i, "launch"))' => doing'[i].obj = emulator'
    BY <1>1 DEF PointerKnown
  <2>1. \A i \in Starting : i = h
    BY <1>8 DEF Inv, PointerKnown
  <2>2. \A i \in Handlers : i # h => i \notin Starting'
    BY <1>6, <2>1 DEF Starting
  <2>3. \A i \in Handlers : i # h => ~At(i, "swap")' /\ ~At(i, "exchange")' /\ ~At(i, "launch")'
    BY <2>2 DEF Starting
  <2>4. ~At(h, "swap")' /\ ~At(h, "exchange")' /\ ~At(h, "launch")'
    BY <1>7 DEF At
  <2>5. \A i, j \in Starting' : i = j
    BY <2>2 DEF Starting
  <2> QED
    BY <2>3, <2>4, <2>5
<1>10. StreamsReachable'
  <2> SUFFICES ASSUME ~overlapped, NEW s \in Delivering', s # emulator' PROVE s \in Retiring'
    BY <1>1 DEF StreamsReachable
  <2>1. s \in Streams /\ s \in Delivering
    BY <1>1 DEF Delivering, Live
  <2>2. doing[h].old = emulator
    BY <1>1 DEF Inv, PointerKnown
  <2>3. CASE s = emulator
    <3>1. doing'[h].at = "retire" /\ doing'[h].obj = s
      BY <1>7, <2>1, <2>2, <2>3, ThreadsAssumption
    <3> QED
      BY <1>7, <3>1 DEF Retiring, At
  <2>4. CASE s \in Retiring
    <3>1. PICK u \in DOMAIN doing : At(u, "retire") /\ doing[u].obj = s
      BY <2>4 DEF Retiring
    <3>2. u # h
      BY <1>1, <3>1 DEF At
    <3> QED
      BY <1>4, <1>6, <3>1, <3>2 DEF Retiring
  <2> QED
    BY <2>1, <2>3, <2>4 DEF Inv, StreamsReachable
<1> QED
  BY <1>5, <1>9, <1>10 DEF Inv

\* The steps that write running_ or a thread handle.
LEMMA InvWrite ==
    ASSUME Inv, NEW t \in Threads,
           (t \in Handlers /\ (Exchange(t) \/ Launch(t))) \/ Halt(t) \/ Join(t) \/ Free(t)
    PROVE  Inv'
<1> DEFINE o == doing[t].obj
<1>1. TypeOK /\ t \in DOMAIN doing /\ doing[t] \in Task /\ o \in Streams \cup {Nobody}
  <2>1. t \in DOMAIN doing
    BY DEF Exchange, Launch, Halt, Join, Free, At
  <2> QED
    BY <2>1 DEF Inv, TypeOK, Task
<1>2. /\ UNCHANGED <<emulator, streaming, stopped, overlapped>>
      /\ (\E place \in {"launch", "mark", "join", "drain", "free", "closing", "unmark", "exit", "start"},
             e \in {o, Nobody} : Go(t, place, e)) \/ Done(t)
  BY DEF Exchange, Launch, Halt, Join, Free
<1>3. Moves(t)
  BY <1>1, <1>2 DEF Moves, Go, Task
<1>4. /\ streaming' \in BOOLEAN /\ stopped' \in BOOLEAN /\ ~At(t, "swap")' /\ ~At(t, "exchange")'
  BY <1>1, <1>2, Going, Ending DEF TypeOK, At
<1>5. t \in Starting' => t \in Starting
  <2>1. CASE Exchange(t) \/ Launch(t) \/ At(t, "retire") \/ At(t, "drain") \/ Free(t)
    BY <2>1 DEF Starting, Exchange, Launch, Free
  <2>2. CASE Halt(t) /\ ~At(t, "retire")
    <3>1. Go(t, "join", o)
      BY <2>2 DEF Halt
    <3> QED
      BY <3>1, Going DEF Starting, At
  <2>3. CASE Join(t) /\ ~At(t, "drain")
    <3>1. Go(t, "closing", o) \/ Go(t, "unmark", o)
      BY <2>3 DEF Join
    <3> QED
      BY <3>1, Going DEF Starting, At
  <2> QED
    BY <2>1, <2>2, <2>3
<1>6. /\ stream' \in [Streams -> Stream]
      /\ ~overlapped => Delivering' \subseteq Delivering \cup {emulator}
      /\ At(t, "retire") => o \notin Delivering'
  <2>1. stream \in [Streams -> Stream]
    BY <1>1 DEF TypeOK
  <2>2. CASE t \in Handlers /\ (Exchange(t) \/ Launch(t))
    <3>1. /\ At(t, "exchange") \/ At(t, "launch")
          /\ \/ stream' = [stream EXCEPT ![o].running = TRUE]
             \/ stream' = [stream EXCEPT ![o].thread = "live"]
      BY <2>2 DEF Exchange, Launch
    <3>2. (~overlapped => o = emulator) /\ ~At(t, "retire")
      BY <2>2, <3>1 DEF Inv, PointerKnown, At
    <3>3. \A e \in Streams : e # o => stream'[e] = stream[e]
      BY <2>1, <3>1
    <3>4. stream' \in [Streams -> Stream]
      BY <2>1, <3>1 DEF Stream
    <3> QED
      BY <3>2, <3>3, <3>4 DEF Delivering, Live
  <2>3. CASE Halt(t)
    <3>1. stream' = [stream EXCEPT ![o].running = FALSE]
      BY <2>3 DEF Halt
    <3> QED
      BY <2>1, <3>1 DEF Delivering, Live, Stream
  <2>4. CASE Join(t) \/ Free(t)
    <3>1. /\ ~At(t, "retire")
          /\ \/ stream' = [stream EXCEPT ![o].thread = "none"]
             \/ stream' = [stream EXCEPT ![o].alive = FALSE]
      BY <2>4 DEF Join, Free, At
    <3> HIDE DEF o
    <3>2. stream' \in [Streams -> Stream]
      BY <2>1, <3>1 DEF Stream
    <3>3. \A e \in Streams : Live(e)' /\ stream'[e].running => Live(e) /\ stream[e].running
      BY <2>1, <3>1 DEF Live, Stream
    <3> QED
      BY <3>1, <3>2, <3>3 DEF Delivering
  <2> QED
    BY <2>2, <2>3, <2>4
<1>7. (At(t, "exchange") \/ At(t, "launch"))' => (~overlapped => doing'[t].obj = emulator)
  <2> SUFFICES ASSUME (At(t, "exchange") \/ At(t, "launch"))', ~overlapped PROVE doing'[t].obj = emulator
    OBVIOUS
  <2>1. Exchange(t) /\ Go(t, "launch", o) /\ t \in Handlers
    <3>1. \A place, e : Go(t, place, e) => place \in {"exchange", "launch"}
      BY Going DEF At
    <3>2. ~Done(t)
      BY Ending DEF At
    <3> QED
      BY <3>1, <3>2 DEF Exchange, Launch, Halt, Join, Free
  <2>2. o = emulator
    BY <2>1 DEF Exchange, Inv, PointerKnown
  <2> QED
    BY <2>1, <2>2, Going
<1> QED
  BY <1>2, <1>3, <1>4, <1>5, <1>6, <1>7, Quiet

LEMMA InvNext == Inv /\ [Next]_vars => Inv'
<1> SUFFICES ASSUME Inv, [Next]_vars PROVE Inv'
  OBVIOUS
<1>1. /\ TypeOK /\ Handlers \subseteq Threads /\ Main \in Threads /\ Main \notin Handlers
      /\ emulator \in Streams \cup {Nobody} /\ streaming \in BOOLEAN /\ stopped \in BOOLEAN
      /\ stream \in [Streams -> Stream]
  BY ThreadsAssumption DEF Inv, TypeOK, Threads
<1>2. CASE UNCHANGED vars
  BY <1>1, <1>2, Background DEF vars, Delivering, Live
<1>3. ASSUME NEW t \in Threads, NEW place, NEW e \in {Nobody, emulator},
             Go(t, place, e) \/ Done(t), UNCHANGED <<emulator, stream, overlapped>>,
             streaming' \in BOOLEAN, stopped' \in BOOLEAN, ~At(t, "retire"),
             \/ place \in {"create", "check", "stop", "halt", "closing", "exit"}
             \/ place = "exchange" /\ At(t, "start") /\ e = emulator
             \/ place = "retire" /\ t = Main
      PROVE  Inv'
  <2>1. Moves(t)
    BY <1>1, <1>3 DEF Moves, Go, Task
  <2>2. /\ At(t, "exchange")' => doing'[t].obj = emulator /\ At(t, "start")
        /\ ~At(t, "swap")' /\ ~At(t, "launch")'
        /\ \A p \in {"swap", "drain", "free", "start"} : ~At(t, p)'
        /\ At(t, "retire")' => t = Main
    BY <1>3, Going, Ending DEF At
  <2>3. t \in Starting' => t \in Starting
    BY <1>1, <2>2 DEF Starting
  <2>4. Delivering' = Delivering
    BY <1>3 DEF Delivering, Live
  <2> QED
    BY <1>1, <1>3, <2>1, <2>2, <2>3, <2>4, Quiet
<1>4. ASSUME NEW h \in Handlers,
             \/ StartBegins(h) \/ Read(h) \/ Mark(h) \/ StopBegins(h) \/ Check(h) \/ Stop(h)
             \/ Unmark(h) \/ JoinFails(h)
      PROVE  Inv'
  <2>1. /\ UNCHANGED <<emulator, stream, stopped, overlapped>> /\ streaming' \in BOOLEAN
        /\ ~At(h, "retire")
        /\ \/ Go(h, "create", Nobody) \/ Go(h, "check", emulator) \/ Go(h, "stop", Nobody)
           \/ Go(h, "halt", emulator) \/ Done(h) \/ (Go(h, "exchange", emulator) /\ At(h, "start"))
    BY <1>1, <1>4 DEF StartBegins, Read, Mark, StopBegins, Check, Stop, Unmark, JoinFails, Idle, At
  <2>2. CASE Go(h, "create", Nobody)
    BY <1>1, <1>3, <2>1, <2>2
  <2>3. CASE Go(h, "check", emulator)
    BY <1>1, <1>3, <2>1, <2>3
  <2>4. CASE Go(h, "stop", Nobody)
    BY <1>1, <1>3, <2>1, <2>4
  <2>5. CASE Go(h, "halt", emulator)
    BY <1>1, <1>3, <2>1, <2>5
  <2>6. CASE Done(h)
    <3>1. "create" \in {"create", "check", "stop", "halt", "closing", "exit"}
      OBVIOUS
    <3> QED
      BY <1>1, <1>3, <2>1, <2>6, <3>1
  <2>7. CASE Go(h, "exchange", emulator) /\ At(h, "start")
    BY <1>1, <1>3, <2>1, <2>7
  <2> QED
    BY <2>1, <2>2, <2>3, <2>4, <2>5, <2>6, <2>7
<1>5. CASE Shutdown \/ Leave
  <2>1. /\ UNCHANGED <<emulator, streaming, stream, stopped, overlapped>> /\ ~At(Main, "retire")
        /\ \/ Go(Main, "closing", Nobody) \/ Go(Main, "halt", emulator) \/ Go(Main, "exit", Nobody)
           \/ Go(Main, "retire", emulator)
    BY <1>5 DEF Shutdown, Leave, At
  <2>2. CASE Go(Main, "closing", Nobody)
    BY <1>1, <1>3, <2>1, <2>2
  <2>3. CASE Go(Main, "halt", emulator)
    BY <1>1, <1>3, <2>1, <2>3
  <2>4. CASE Go(Main, "exit", Nobody)
    BY <1>1, <1>3, <2>1, <2>4
  <2>5. CASE Go(Main, "retire", emulator)
    BY <1>1, <1>3, <2>1, <2>5
  <2> QED
    BY <2>1, <2>2, <2>3, <2>4, <2>5
<1>6. CASE CloseServer
  BY <1>1, <1>6, Background DEF CloseServer, Delivering, Live
<1>7. ASSUME NEW e \in Streams, LoopEnds(e) \/ Disconnect(e) PROVE Inv'
  <2>1. /\ stream' = [stream EXCEPT ![e].thread = "ended"]
        /\ UNCHANGED <<emulator, streaming, doing, stopped, overlapped>>
    BY <1>7 DEF LoopEnds, Disconnect
  <2>2. stream' \in [Streams -> Stream] /\ Delivering' \subseteq Delivering
    BY <1>1, <2>1 DEF Stream, Delivering, Live
  <2> QED
    BY <1>1, <2>1, <2>2, Background
<1>8. CASE Crash \/ Exit \/ \E h \in Handlers : Terminate(h)
  BY <1>8, InvReset DEF Crash, Exit, Terminate
<1> QED
  BY <1>1, <1>2, <1>4, <1>5, <1>6, <1>7, <1>8, InvCreate, InvSwap, InvWrite
     DEF Next, HandlerRuns, MainRuns

LEMMA Invariant == Spec => []Inv
  BY InvInit, InvNext, PTL DEF Spec

\* Types, for any number of pool threads and of stream objects.
THEOREM TypeCorrect == Spec => []TypeOK
<1>1. Inv => TypeOK
  BY DEF Inv
<1> QED
  BY <1>1, Invariant, PTL

\* Until two starts overlap, a stream that delivers is one that the pointer leads to or
\* that is about to be stopped, whatever stops, disconnects and the shutdown do.
THEOREM StreamsAlwaysReachable == Spec => []StreamsReachable
<1>1. Inv => StreamsReachable
  BY DEF Inv
<1> QED
  BY <1>1, Invariant, PTL

(* Requests that come one at a time.                                       *)

\* The pointer leads to an object that delivers.
Flowing == emulator \in Streams /\ stream[emulator].running /\ Live(emulator)

\* Before main shuts down, the flag follows the object that the pointer leads to,
\* except between the lines of a request.
FlagFollows ==
    Main \notin DOMAIN doing =>
        /\ emulator \in Streams => stream[emulator].alive
        /\ streaming /\ DOMAIN doing = {} => Flowing
        /\ \A h \in Handlers :
               /\ h \in Starting \/ At(h, "create") => ~streaming
               /\ At(h, "swap") => doing[h].obj \in Streams \ {emulator} /\ stream[doing[h].obj].alive
                                   /\ doing[h].old = emulator
               /\ At(h, "retire") \/ At(h, "drain") \/ At(h, "free") => doing[h].obj # emulator
               /\ At(h, "exchange") \/ At(h, "launch") => doing[h].obj = emulator
               /\ At(h, "retire") \/ At(h, "drain") \/ At(h, "free") \/ At(h, "start")
                      \/ At(h, "exchange") \/ At(h, "launch") => emulator \in Streams
               /\ At(h, "launch") => stream[emulator].running
               /\ At(h, "mark") => Flowing
               /\ At(h, "check") => doing[h].obj = emulator
               /\ At(h, "check") \/ At(h, "stop") => (streaming => Flowing)

\* The one handler goes on to a place, with the objects it works on.
LEMMA FlagGoes ==
    ASSUME \A i, j \in Handlers : i = j, NEW h \in Handlers, NEW place, NEW e, NEW o,
           doing' = With(doing, h, [at |-> place, obj |-> e, old |-> o]),
           emulator' \in Streams => stream'[emulator'].alive,
           place \in {"create", "swap", "retire", "drain", "free", "start", "exchange", "launch"}
               => ~streaming',
           place = "swap" => e \in Streams \ {emulator'} /\ stream'[e].alive /\ o = emulator',
           place \in {"retire", "drain", "free"} => e # emulator',
           place \in {"exchange", "launch"} => e = emulator',
           place \in {"retire", "drain", "free", "start", "exchange", "launch"} => emulator' \in Streams,
           place = "launch" => stream'[emulator'].running,
           place = "mark" => Flowing', place = "check" => e = emulator',
           place \in {"check", "stop"} => (streaming' => Flowing')
    PROVE  FlagFollows'
<1>1. h \in DOMAIN doing' /\ doing'[h] = [at |-> place, obj |-> e, old |-> o]
  BY DEF With
<1>2. \A p : At(h, p)' <=> p = place
  BY <1>1 DEF At
<1>3. h \in Starting' => place \in {"swap", "retire", "drain", "free", "start", "exchange", "launch"}
  BY <1>2 DEF Starting
<1>4. doing'[h].obj = e /\ doing'[h].old = o
  BY <1>1
<1> QED
  BY <1>1, <1>2, <1>3, <1>4 DEF FlagFollows

\* The one handler answers.
LEMMA FlagAnswers ==
    ASSUME \A i, j \in Handlers : i = j, NEW h \in Handlers, Done(h),
           emulator' \in Streams => stream'[emulator'].alive, streaming' => Flowing'
    PROVE  FlagFollows'
<1>1. \A i \in Handlers : \A p : ~At(i, p)'
  BY Ending DEF At
<1> QED
  BY <1>1 DEF FlagFollows, Starting

LEMMA FlagHandler ==
    ASSUME \A i, j \in Handlers : i = j, Inv, FlagFollows, NEW h \in Handlers,
           Main \notin DOMAIN doing,
           StartBegins(h) \/ StopBegins(h) \/ HandlerRuns(h), ~Terminate(h)
    PROVE  FlagFollows'
<1> DEFINE o == doing[h].obj
<1>1. /\ emulator \in Streams => stream[emulator].alive
      /\ streaming /\ DOMAIN doing = {} => Flowing
      /\ h \in Starting \/ At(h, "create") => ~streaming
      /\ At(h, "swap") => o \in Streams \ {emulator} /\ stream[o].alive /\ doing[h].old = emulator
      /\ At(h, "retire") \/ At(h, "drain") \/ At(h, "free") => o # emulator
      /\ At(h, "exchange") \/ At(h, "launch") => o = emulator
      /\ At(h, "retire") \/ At(h, "drain") \/ At(h, "free") \/ At(h, "start")
             \/ At(h, "exchange") \/ At(h, "launch") => emulator \in Streams
      /\ At(h, "launch") => stream[emulator].running
      /\ At(h, "mark") => Flowing
      /\ At(h, "check") => o = emulator
      /\ At(h, "check") \/ At(h, "stop") => (streaming => Flowing)
  BY DEF FlagFollows
<1>2. /\ stream \in [Streams -> Stream] /\ emulator \in Streams \cup {Nobody} /\ Nobody \notin Streams
      /\ h # Main
  BY ThreadsAssumption DEF Inv, TypeOK
<1>3. \A p \in {"swap", "retire", "drain", "free", "start", "exchange", "launch"} :
          At(h, p) => ~streaming
  BY <1>1 DEF Starting
<1>4. CASE StartBegins(h)
  BY <1>1, <1>4, FlagGoes DEF StartBegins, Go
<1>5. CASE StopBegins(h)
  <2>1. DOMAIN doing = {}
    <3>1. \A t \in DOMAIN doing : t \in Handlers
      BY DEF Inv, TypeOK, Threads
    <3> QED
      BY <1>5, <3>1 DEF StopBegins, Idle
  <2>2. streaming' => Flowing'
    BY <1>1, <1>5, <2>1 DEF StopBegins, Flowing, Live
  <2> QED
    BY <1>1, <1>5, <2>2, FlagGoes DEF StopBegins, Go
<1>6. ASSUME NEW e \in Streams, Create(h, e) PROVE FlagFollows'
  <2>1. e # emulator
    BY <1>1, <1>6 DEF Create, Fresh
  <2>2. stream'[e].alive /\ (emulator' \in Streams => stream'[emulator'].alive)
    BY <1>1, <1>2, <1>6, <2>1 DEF Create
  <2>3. /\ doing' = With(doing, h, [at |-> "swap", obj |-> e, old |-> emulator])
        /\ emulator' = emulator /\ ~streaming'
    BY <1>1, <1>6 DEF Create
  <2> QED
    BY <2>1, <2>2, <2>3, FlagGoes
<1>7. CASE Swap(h)
  <2>1. /\ emulator' = o /\ o \in Streams /\ ~streaming' /\ stream'[o].alive
        /\ \/ Go(h, "start", Nobody)
           \/ Go(h, "retire", doing[h].old) /\ doing[h].old # emulator'
    BY <1>1, <1>3, <1>7 DEF Swap
  <2>2. CASE Go(h, "start", Nobody)
    BY <2>1, <2>2, FlagGoes DEF Go
  <2>3. CASE Go(h, "retire", doing[h].old) /\ doing[h].old # emulator'
    BY <2>1, <2>3, FlagGoes DEF Go
  <2> QED
    BY <2>1, <2>2, <2>3
<1>8. CASE Halt(h) \/ Join(h)
  <2>1. /\ \/ Go(h, "join", o) \/ Go(h, "unmark", o)
           \/ (At(h, "retire") \/ At(h, "drain")) /\ (Go(h, "drain", o) \/ Go(h, "free", o))
        /\ UNCHANGED <<emulator, streaming>>
    BY <1>2, <1>8 DEF Halt, Join
  <2>2. \/ stream' = [stream EXCEPT ![o].running = FALSE]
        \/ stream' = [stream EXCEPT ![o].thread = "none"]
    BY <1>8 DEF Halt, Join
  <2>3. emulator' \in Streams => stream'[emulator'].alive
    BY <1>1, <1>2, <2>1, <2>2 DEF Stream
  <2>4. CASE Go(h, "join", o)
    BY <2>3, <2>4, FlagGoes DEF Go
  <2>5. CASE Go(h, "unmark", o)
    BY <2>3, <2>5, FlagGoes DEF Go
  <2>6. CASE (At(h, "retire") \/ At(h, "drain")) /\ (Go(h, "drain", o) \/ Go(h, "free", o))
    <3>1. o # emulator' /\ emulator' \in Streams /\ ~streaming'
      BY <1>1, <1>3, <2>1, <2>6
    <3>2. CASE Go(h, "drain", o)
      BY <2>3, <3>1, <3>2, FlagGoes DEF Go
    <3>3. CASE Go(h, "free", o)
      BY <2>3, <3>1, <3>3, FlagGoes DEF Go
    <3> QED
      BY <2>6, <3>2, <3>3
  <2> QED
    BY <2>1, <2>4, <2>5, <2>6
<1>9. CASE Free(h)
  <2>1. /\ Go(h, "start", Nobody) /\ emulator' = emulator /\ ~streaming' /\ emulator \in Streams
        /\ stream'[emulator] = stream[emulator]
    BY <1>1, <1>2, <1>3, <1>9 DEF Free
  <2> QED
    BY <1>1, <2>1, FlagGoes DEF Go
<1>10. CASE Read(h)
  <2>1. Go(h, "exchange", emulator) /\ UNCHANGED <<emulator, stream>> /\ ~streaming' /\ emulator \in Streams
    BY <1>1, <1>3, <1>10 DEF Read
  <2> QED
    BY <1>1, <2>1, FlagGoes DEF Go
<1>11. CASE Exchange(h)
  <2>1. /\ UNCHANGED emulator /\ ~streaming' /\ emulator \in Streams /\ o = emulator
        /\ stream' = [stream EXCEPT ![emulator].running = TRUE]
    BY <1>1, <1>3, <1>11 DEF Exchange
  <2>2. stream'[emulator].running /\ stream'[emulator].alive
    BY <1>1, <1>2, <2>1 DEF Stream
  <2>3. CASE Done(h)
    BY <2>1, <2>2, <2>3, FlagAnswers
  <2>4. CASE Go(h, "launch", o)
    BY <2>1, <2>2, <2>4, FlagGoes DEF Go
  <2> QED
    BY <1>11, <2>3, <2>4 DEF Exchange
<1>12. CASE Launch(h)
  <2>1. /\ Go(h, "mark", Nobody) /\ UNCHANGED emulator /\ emulator \in Streams
        /\ stream' = [stream EXCEPT ![emulator].thread = "live"]
    BY <1>1, <1>12 DEF Launch
  <2>2. stream'[emulator].alive /\ Flowing'
    BY <1>1, <1>2, <1>12, <2>1 DEF Flowing, Live, Stream, Launch
  <2> QED
    BY <2>1, <2>2, FlagGoes DEF Go
<1>13. CASE Mark(h)
  <2>1. Done(h) /\ UNCHANGED <<emulator, stream>> /\ Flowing'
    BY <1>1, <1>13 DEF Mark, Flowing, Live
  <2> QED
    BY <1>1, <2>1, FlagAnswers
<1>14. CASE Check(h)
  <2>1. UNCHANGED <<emulator, streaming, stream>> /\ (streaming' => Flowing')
    BY <1>1, <1>14 DEF Check, Flowing, Live
  <2>2. CASE Go(h, "stop", Nobody)
    BY <1>1, <2>1, <2>2, FlagGoes DEF Go
  <2>3. CASE Done(h)
    BY <1>1, <2>1, <2>3, FlagAnswers
  <2> QED
    BY <1>14, <2>2, <2>3 DEF Check
<1>15. CASE Stop(h)
  BY <1>1, <1>15, FlagGoes DEF Stop, Go
<1>16. CASE Unmark(h)
  BY <1>1, <1>16, FlagAnswers DEF Unmark
<1> QED
  BY <1>4, <1>5, <1>6, <1>7, <1>8, <1>9, <1>10, <1>11, <1>12, <1>13, <1>14, <1>15, <1>16
     DEF HandlerRuns

LEMMA FlagNext ==
    ASSUME ~Disconnects, \A h, i \in Handlers : h = i, Inv, FlagFollows, [Next]_vars
    PROVE  FlagFollows'
<1> SUFFICES ASSUME Main \notin DOMAIN doing' PROVE FlagFollows'
  BY DEF FlagFollows
<1>1. Main \notin Handlers /\ stream \in [Streams -> Stream]
  BY ThreadsAssumption DEF Inv, TypeOK
<1>2. CASE Crash \/ Exit \/ \E h \in Handlers : Terminate(h)
  <2>1. DOMAIN doing' = {} /\ ~streaming' /\ emulator' = Nobody
    BY <1>2 DEF Crash, Exit, Terminate, Reset, Nothing
  <2>2. \A h, p : ~At(h, p)'
    BY <2>1 DEF At
  <2> QED
    BY <2>1, <2>2, ThreadsAssumption DEF FlagFollows, Starting
<1>3. CASE Shutdown \/ CloseServer \/ Leave \/ Halt(Main) \/ Join(Main) \/ Free(Main)
  BY <1>3 DEF Shutdown, CloseServer, Leave, Halt, Join, Free, At, Go, With
<1>4. ASSUME NEW h \in Handlers,
             StartBegins(h) \/ StopBegins(h) \/ HandlerRuns(h), ~Terminate(h)
      PROVE  FlagFollows'
  <2>1. (\E task : doing' = With(doing, h, task)) \/ Done(h)
    BY <1>4 DEF StartBegins, StopBegins, HandlerRuns, Create, Swap, Halt, Join, Free, Read,
                Exchange, Launch, Mark, Check, Stop, Unmark, Go
  <2>2. Main \notin DOMAIN doing
    BY <1>1, <2>1 DEF With, Done, Without, Restrict
  <2> QED
    BY <1>4, <2>2, FlagHandler
<1>5. ASSUME NEW h \in Handlers, JoinFails(h) PROVE FlagFollows'
  <2>1. PICK t \in Threads \ {h} : t \in DOMAIN doing
    BY <1>5 DEF JoinFails, Waiting, At
  <2>2. Main \in DOMAIN doing /\ Main # h
    BY <1>1, <2>1 DEF Threads
  <2> QED
    BY <1>5, <2>2 DEF JoinFails, Done, Without, Restrict
<1>6. ASSUME NEW e \in Streams, LoopEnds(e) PROVE FlagFollows'
  <2>1. /\ UNCHANGED <<emulator, streaming, doing>>
        /\ \A x \in Streams : /\ stream[x].running => stream'[x] = stream[x]
                              /\ stream'[x].alive = stream[x].alive
                              /\ stream'[x].running = stream[x].running
    BY <1>1, <1>6 DEF LoopEnds, Stream
  <2>2. Flowing => Flowing'
    BY <2>1 DEF Flowing, Live
  <2>3. Starting' = Starting /\ \A h, p : At(h, p)' = At(h, p)
    BY <2>1 DEF Starting, At
  <2>4. FlagFollows
    OBVIOUS
  <2> QED
    BY <2>1, <2>2, <2>3, <2>4 DEF FlagFollows
<1>7. CASE UNCHANGED vars
  BY <1>7 DEF vars, FlagFollows, At, Starting, Flowing, Live
<1>8. \A e : ~Disconnect(e)
  BY DEF Disconnect
<1> QED
  BY <1>2, <1>3, <1>4, <1>5, <1>6, <1>7, <1>8 DEF Next, MainRuns

\* 409 `already streaming' is always the truth when requests are served one at a time
\* and no stream breaks off by itself: it takes a start that overlaps a stop (or a
\* planned disconnect) for the flag to stay set over a stream that has ended.
THEOREM SequentialRefusals ==
    ASSUME \A h, i \in Handlers : h = i, ~Disconnects
    PROVE  Spec => []RefusedOnlyWhileStreaming
<1>1. Init => FlagFollows
  BY ThreadsAssumption DEF Init, Nothing, FlagFollows, At, Starting
<1>2. Inv /\ FlagFollows /\ [Next]_vars => FlagFollows'
  BY FlagNext
<1>3. Inv /\ FlagFollows => RefusedOnlyWhileStreaming
  BY DEF FlagFollows, RefusedOnlyWhileStreaming, Flowing, Delivering
<1> QED
  BY <1>1, <1>2, <1>3, Invariant, PTL DEF Spec

=============================================================================
