------------------------------ MODULE Emulator ------------------------------
(***************************************************************************)
(* The stream routes of the receiver emulator (native/receiver-emulator):  *)
(* the threads of its HTTP server start and stop a stream object that they *)
(* and the main thread share through the unguarded pointer `emulator' and  *)
(* the atomic flag `streaming'; the stream's own thread delivers blocks.   *)
(*                                                                         *)
(* Each read or write of the pointer, of running_ and of a thread handle   *)
(* is a step of its own.  What is undefined behaviour in C++ (an access to *)
(* an object that was destroyed, two joins of one thread) either goes on   *)
(* as the memory still allows, which keeps what it held until it is        *)
(* allocated again, or ends the process, which its container starts again. *)
(* (A thread that is started on a destroyed object always ends it.)        *)
(***************************************************************************)
EXTENDS Naturals, FiniteSets, Functions

CONSTANTS
    Handlers,  \* threads of the HTTP server's pool
    Streams,   \* addresses of ReceiverEmulator objects: they bound the leaked ones
    Disconnects, \* whether the scenario injects a planned disconnect
    Main,      \* the main thread
    Nobody     \* the null pointer

ASSUME ThreadsAssumption ==
    /\ Main \notin Handlers /\ Nobody \notin Streams /\ Disconnects \in BOOLEAN
    /\ IsFiniteSet(Handlers)

VARIABLES
    emulator,  \* the unique_ptr of main()
    streaming, \* the atomic flag of main()
    stream,    \* the objects, each at its address
    doing,     \* what each thread that serves a request is at; main's shutdown too
    stopped,   \* the main thread has called server.stop()
    overlapped \* history: two starts were between reading the pointer and starting

vars == <<emulator, streaming, stream, doing, stopped, overlapped>>

Threads == Handlers \cup {Main}

\* alive: not destroyed.  running: running_.  thread: none to join, live, out of its loop.
Stream == [alive : BOOLEAN, running : BOOLEAN, thread : {"none", "live", "ended"}]

\* obj: the object that the thread is working on.  old: the pointer that the
\* assignment read.
Task == [at : {"create", "swap", "retire", "drain", "free", "start", "exchange", "launch", "mark",
               "check", "stop", "halt", "join", "unmark", "closing", "exit"},
         obj : Streams \cup {Nobody}, old : Streams \cup {Nobody}]

TypeOK ==
    /\ emulator \in Streams \cup {Nobody}
    /\ streaming \in BOOLEAN
    /\ stream \in [Streams -> Stream]
    /\ DOMAIN doing \subseteq Threads
    /\ \A t \in DOMAIN doing : doing[t] \in Task
    /\ stopped \in BOOLEAN
    /\ overlapped \in BOOLEAN

With(f, x, v) == [y \in DOMAIN f \cup {x} |-> IF y = x THEN v ELSE f[y]]

Without(f, x) == Restrict(f, DOMAIN f \ {x})

Nothing == [x \in {} |-> Nobody]

At(t, place) == t \in DOMAIN doing /\ doing[t].at = place

Go(t, place, e) == doing' = With(doing, t, [at |-> place, obj |-> e, old |-> Nobody])

Done(t) == doing' = Without(doing, t)

Live(e) == stream[e].thread = "live"

Joinable(e) == stream[e].thread # "none"

\* Addresses that an allocation may return.
Fresh == {e \in Streams : ~stream[e].alive}

\* Handlers between their look at the pointer and the start of the thread.
Starting == {h \in Handlers : \E p \in {"swap", "retire", "drain", "free", "start", "exchange", "launch"} :
                                  At(h, p)}

----------------------------------------------------------------------------

Init ==
    /\ emulator = Nobody
    /\ streaming = FALSE
    /\ stream = [e \in Streams |-> [alive |-> FALSE, running |-> FALSE, thread |-> "none"]]
    /\ doing = Nothing
    /\ stopped = FALSE
    /\ overlapped = FALSE

(* POST .../stream/start.                                                  *)

Idle(h) == h \in Handlers \ DOMAIN doing /\ ~stopped

\* A set flag is answered with 409 `already streaming', and nothing changes.  (The
\* bound of the model: a start comes while there are addresses left for it.)
StartBegins(h) ==
    /\ Idle(h) /\ ~streaming
    /\ Cardinality(Fresh) > Cardinality({i \in Handlers : At(i, "create")})
    /\ Go(h, "create", Nobody)
    /\ UNCHANGED <<emulator, streaming, stream, stopped, overlapped>>

\* make_unique, and the first step of the assignment, which reads the old pointer.
\* (Nobody else knows the new object yet.)
Create(h, e) ==
    /\ At(h, "create") /\ e \in Fresh
    /\ stream' = [stream EXCEPT ![e] = [alive |-> TRUE, running |-> FALSE, thread |-> "none"]]
    /\ doing' = With(doing, h, [at |-> "swap", obj |-> e, old |-> emulator])
    /\ overlapped' = (overlapped \/ Starting # {})
    /\ UNCHANGED <<emulator, streaming, stopped>>

\* Mutant of Swap: a raw pointer, whose old object nobody deletes.
SwapKeepsOld(h) ==
    /\ At(h, "swap")
    /\ emulator' = doing[h].obj
    /\ Go(h, "start", Nobody)
    /\ UNCHANGED <<streaming, stream, stopped, overlapped>>

\* The second step writes the new pointer, and deletes the old one if there is any.
Swap(h) ==
    /\ At(h, "swap")
    /\ emulator' = doing[h].obj
    /\ IF doing[h].old = Nobody THEN Go(h, "start", Nobody) ELSE Go(h, "retire", doing[h].old)
    /\ UNCHANGED <<streaming, stream, stopped, overlapped>>

\* emulator->start(): the pointer is read again.
Read(h) ==
    /\ At(h, "start")
    /\ Go(h, "exchange", emulator)
    /\ UNCHANGED <<emulator, streaming, stream, stopped, overlapped>>

\* An object that runs throws, and the server answers 500.
Exchange(h) ==
    /\ At(h, "exchange")
    /\ stream' = [stream EXCEPT ![doing[h].obj].running = TRUE]
    /\ IF stream[doing[h].obj].running THEN Done(h) ELSE Go(h, "launch", doing[h].obj)
    /\ UNCHANGED <<emulator, streaming, stopped, overlapped>>

Launch(h) ==
    /\ At(h, "launch") /\ stream[doing[h].obj].alive /\ ~Joinable(doing[h].obj)
    /\ stream' = [stream EXCEPT ![doing[h].obj].thread = "live"]
    /\ Go(h, "mark", Nobody)
    /\ UNCHANGED <<emulator, streaming, stopped, overlapped>>

Mark(h) ==
    /\ At(h, "mark")
    /\ streaming' = TRUE
    /\ Done(h)
    /\ UNCHANGED <<emulator, stream, stopped, overlapped>>

(* POST .../stream/stop and .../release, which do the same.                *)

\* A null pointer is answered 200, and nothing changes.  (The pointer is read for the
\* test and again for is_running(); it never becomes null again, so the later read is
\* the one that counts.)
StopBegins(h) ==
    /\ Idle(h) /\ emulator # Nobody
    /\ Go(h, "check", emulator)
    /\ UNCHANGED <<emulator, streaming, stream, stopped, overlapped>>

\* is_running() of what the pointer led to.
Check(h) ==
    /\ At(h, "check")
    /\ IF stream[doing[h].obj].running THEN Go(h, "stop", Nobody) ELSE Done(h)
    /\ UNCHANGED <<emulator, streaming, stream, stopped, overlapped>>

\* emulator->stop(): the pointer is read again.
Stop(h) ==
    /\ At(h, "stop")
    /\ Go(h, "halt", emulator)
    /\ UNCHANGED <<emulator, streaming, stream, stopped, overlapped>>

Unmark(h) ==
    /\ At(h, "unmark")
    /\ streaming' = FALSE
    /\ Done(h)
    /\ UNCHANGED <<emulator, stream, stopped, overlapped>>

(* ReceiverEmulator::stop(), called by the stop routes and the main thread *)
(* ("halt", "join") and by the destructor ("retire", "drain").             *)

\* The first line.
Halt(t) ==
    /\ At(t, "halt") \/ At(t, "retire")
    /\ stream' = [stream EXCEPT ![doing[t].obj].running = FALSE]
    /\ Go(t, IF At(t, "halt") THEN "join" ELSE "drain", doing[t].obj)
    /\ UNCHANGED <<emulator, streaming, stopped, overlapped>>

\* The rest: a thread that is joinable is waited for.
Join(t) ==
    /\ At(t, "join") \/ At(t, "drain")
    /\ ~Live(doing[t].obj)
    /\ stream' = [stream EXCEPT ![doing[t].obj].thread = "none"]
    /\ Go(t, IF At(t, "drain") THEN "free" ELSE IF t = Main THEN "closing" ELSE "unmark",
          doing[t].obj)
    /\ UNCHANGED <<emulator, streaming, stopped, overlapped>>

Waiting(t, e) == (At(t, "join") \/ At(t, "drain")) /\ doing[t].obj = e /\ Live(e)

\* A second thread that joins gets an exception, which the server answers with 500.
JoinFails(h) ==
    /\ \E e \in Streams : Waiting(h, e) /\ \E t \in Threads \ {h} : Waiting(t, e)
    /\ At(h, "join")
    /\ Done(h)
    /\ UNCHANGED <<emulator, streaming, stream, stopped, overlapped>>

\* The destructor has returned.
Free(t) ==
    /\ At(t, "free") /\ ~Joinable(doing[t].obj)
    /\ stream' = [stream EXCEPT ![doing[t].obj].alive = FALSE]
    /\ Go(t, IF t = Main THEN "exit" ELSE "start", Nobody)
    /\ UNCHANGED <<emulator, streaming, stopped, overlapped>>

(* The stream's thread: stream_loop.                                       *)

\* The planned disconnect: a last block and out of the loop; running_ stays set.
Disconnect(e) ==
    /\ Disconnects
    /\ Live(e) /\ stream[e].running
    /\ stream' = [stream EXCEPT ![e].thread = "ended"]
    /\ UNCHANGED <<emulator, streaming, doing, stopped, overlapped>>

\* Mutant of LoopEnds: the loop does not look at running_.
LoopEndsLate(e) ==
    /\ Live(e) /\ ~stream[e].running /\ stopped
    /\ stream' = [stream EXCEPT ![e].thread = "ended"]
    /\ UNCHANGED <<emulator, streaming, doing, stopped, overlapped>>

\* Between two blocks the loop sees that running_ is cleared.  (A turn that only
\* delivers a block, or stalls, changes nothing that is modelled here.)
LoopEnds(e) ==
    /\ Live(e) /\ ~stream[e].running
    /\ stream' = [stream EXCEPT ![e].thread = "ended"]
    /\ UNCHANGED <<emulator, streaming, doing, stopped, overlapped>>

(* The main thread's shutdown, and the end of the process.                 *)

\* Mutant of Shutdown: the pointer is not tested, and stop() writes through null.
ShutdownUnchecked ==
    /\ Main \notin DOMAIN doing
    /\ stream' = With(stream, emulator, [alive |-> TRUE, running |-> FALSE, thread |-> "none"])
    /\ Go(Main, "join", emulator)
    /\ UNCHANGED <<emulator, streaming, stopped, overlapped>>

\* After the deregistration: if (emulator) emulator->stop().
Shutdown ==
    /\ Main \notin DOMAIN doing
    /\ IF emulator = Nobody THEN Go(Main, "closing", Nobody) ELSE Go(Main, "halt", emulator)
    /\ UNCHANGED <<emulator, streaming, stream, stopped, overlapped>>

\* server.stop(): no new requests; the server thread ends when the pool is idle.
CloseServer ==
    /\ At(Main, "closing") /\ ~stopped
    /\ stopped' = TRUE
    /\ UNCHANGED <<emulator, streaming, stream, doing, overlapped>>

\* Both threads are joined and main returns: the unique_ptr deletes its object.
Leave ==
    /\ At(Main, "closing") /\ stopped /\ DOMAIN doing = {Main}
    /\ IF emulator = Nobody THEN Go(Main, "exit", Nobody) ELSE Go(Main, "retire", emulator)
    /\ UNCHANGED <<emulator, streaming, stream, stopped, overlapped>>

\* The process ends, and its container starts it again.
Reset ==
    /\ emulator' = Nobody
    /\ streaming' = FALSE
    /\ stream' = [e \in Streams |-> [alive |-> FALSE, running |-> FALSE, thread |-> "none"]]
    /\ doing' = Nothing
    /\ stopped' = FALSE
    /\ overlapped' = FALSE

Exit == At(Main, "exit") /\ Reset

\* std::terminate: a thread that nobody has joined is assigned over, or destroyed.
Terminate(h) ==
    /\ \/ At(h, "launch") /\ (Joinable(doing[h].obj) \/ ~stream[doing[h].obj].alive)
       \/ At(h, "free") /\ Joinable(doing[h].obj)
    /\ Reset

\* An access to an object that was destroyed; a second join in a destructor or in
\* main(), where nothing catches its exception.
Undefined ==
    \/ \E t \in DOMAIN doing :
           /\ \E p \in {"exchange", "launch", "check", "halt", "join", "retire", "drain", "free"} :
                  At(t, p)
           /\ ~stream[doing[t].obj].alive
    \/ \E t \in Threads, e \in Streams :
           /\ Waiting(t, e) /\ \E u \in Threads \ {t} : Waiting(u, e)
           /\ At(t, "drain") \/ t = Main

Crash == Undefined /\ Reset

----------------------------------------------------------------------------

HandlerRuns(h) ==
    \/ \E e \in Streams : Create(h, e)
    \/ Swap(h) \/ Halt(h) \/ Join(h) \/ Free(h) \/ Read(h) \/ Exchange(h) \/ Launch(h) \/ Mark(h)
    \/ Check(h) \/ Stop(h) \/ Unmark(h) \/ Terminate(h)

MainRuns == Halt(Main) \/ Join(Main) \/ Free(Main) \/ CloseServer \/ Leave \/ Exit

Next ==
    \/ \E h \in Handlers :
           StartBegins(h) \/ StopBegins(h) \/ HandlerRuns(h) \/ JoinFails(h)
    \/ \E e \in Streams : LoopEnds(e) \/ Disconnect(e)
    \/ Shutdown \/ MainRuns \/ Crash

Spec == Init /\ [][Next]_vars

\* The threads of the process run; requests, disconnects and SIGTERM need not come.  A
\* join() waits for one thread: it returns once that one has ended, also if a start
\* has put another in its place since.
Fairness ==
    /\ \A h \in Handlers : WF_vars(HandlerRuns(h))
    /\ \A t \in Threads : SF_vars(Join(t))
    /\ \A e \in Streams : WF_vars(LoopEnds(e))
    /\ WF_vars(MainRuns)

FairSpec == Spec /\ Fairness

----------------------------------------------------------------------------

Delivering == {e \in Streams : Live(e) /\ stream[e].running}

\* Objects whose destructor has been called, and has not yet cleared running_.
Retiring == {doing[t].obj : t \in {u \in DOMAIN doing : At(u, "retire")}}

\* However start and stop requests, planned disconnects and the shutdown interleave on
\* the unguarded pointer: a stream that delivers blocks is the one the pointer leads
\* to, or one whose destructor is called, until two starts have overlapped after
\* reading the pointer.  Then there may be two, one of which nobody can stop.
StreamsReachable ==
    ~overlapped => Delivering \subseteq {emulator} \cup Retiring

\* A start has set running_ again between the two lines of a stop() or of a destructor.
Overtaken(t) ==
    (At(t, "join") \/ At(t, "drain")) /\ doing[t].obj \in Delivering

\* Every request is answered, and SIGTERM ends the process, though they wait for
\* the stream's thread and for each other: a stop() waits for ever only if a
\* start() set running_ again between its two lines.
AnsweredUnlessOvertaken ==
    \A t \in Threads : t \in DOMAIN doing ~> (t \notin DOMAIN doing \/ \E u \in Threads : Overtaken(u))

\* 409 `already streaming' is the truth whenever no request is under way.  It is
\* not once a start and a stop have overlapped: the flag stays set over a stream
\* that ended, and a later stop does not clear it.
RefusedOnlyWhileStreaming ==
    streaming /\ DOMAIN doing = {} => Delivering # {}
============================================================================
