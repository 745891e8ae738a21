--------------------------- MODULE ChannelService ---------------------------
(***************************************************************************)
(* The channel service (native/channel-service): one worker thread for     *)
(* each channel, fed with IQ blocks by the UDP thread, created and deleted *)
(* by the threads of the HTTP server's pool, stopped by the main thread.   *)
(*                                                                         *)
(* g_workers_mtx guards the map of workers, and a handler holds it while   *)
(* it joins a worker thread, so it is a variable here.  A queue's own      *)
(* mutex is held only for the length of one operation on the queue: such   *)
(* an operation is one step, and waiting on the condition variable is the  *)
(* guard of the step that comes after it (the predicate is written under   *)
(* the mutex, so no wake-up is lost).  The UDP thread's turn round the     *)
(* workers is one step: it runs inside g_workers_mtx and waits for nothing *)
(* but queue mutexes.                                                      *)
(*                                                                         *)
(* Blocks are numbered by window, as the UDP thread takes them up.         *)
(***************************************************************************)
EXTENDS Naturals, Sequences, FiniteSets, Functions

CONSTANTS
    Handlers, \* threads of the HTTP server's pool
    Channels, \* channel ids
    Windows,  \* window ids
    Workers,  \* worker objects that may be alive at one time
    MaxDepth, \* IQQueue::MAX_DEPTH
    MaxBlocks,\* bound on the blocks of a window in one life of the process
    Main,     \* the main thread
    Nobody    \* no thread, no worker

ASSUME DepthAssumption == MaxDepth \in Nat \ {0} /\ MaxBlocks \in Nat
ASSUME ThreadsAssumption == Main \notin Handlers /\ Nobody \notin Handlers \cup {Main} \cup Workers

VARIABLES
    g_workers, \* the map: the worker of each channel, or Nobody
    worker,    \* the worker objects that exist
    lock,      \* which thread holds g_workers_mtx
    http,      \* what each pool thread is doing
    main,      \* where the main thread is
    shutdown,  \* g_shutdown
    udp,       \* the window of the datagram the UDP thread has read, or Nobody
    received   \* blocks handed out so far, by window

vars == <<g_workers, worker, lock, http, main, shutdown, udp, received>>

\* taken: the block the worker thread took last.
Worker == [window : Windows, active : BOOLEAN, closed : BOOLEAN,
           thread : {"started", "idle", "busy", "ended"},
           queue : Seq(1 .. MaxBlocks), taken : 0 .. MaxBlocks]

\* worker: the one being inserted, or the one being joined.
Handler ==
    [at : {"find"}, channel : Channels, worker : {Nobody}]
        \cup [at : {"insert", "replace", "delete"}, channel : Channels, worker : Workers]

TypeOK ==
    /\ g_workers \in [Channels -> Workers \cup {Nobody}]
    /\ DOMAIN worker \subseteq Workers
    /\ \A k \in DOMAIN worker : worker[k] \in Worker
    /\ lock \in Handlers \cup {Main, Nobody}
    /\ DOMAIN http \subseteq Handlers
    /\ \A h \in DOMAIN http : http[h] \in Handler
    /\ main \in {"serving", "stopping", "clearing", "joining", "exited"}
    /\ shutdown \in BOOLEAN
    /\ udp \in Windows \cup {Nobody}
    /\ received \in [Windows -> 0 .. MaxBlocks]

With(f, x, v) == [y \in DOMAIN f \cup {x} |-> IF y = x THEN v ELSE f[y]]

Without(f, S) == Restrict(f, DOMAIN f \ S)

Nothing == [x \in {} |-> Nobody]

Registered == {g_workers[c] : c \in Channels} \ {Nobody}

\* Mutant of Closed: the queue is left open.
ClosedInactive(k) == [worker EXCEPT ![k].active = FALSE]

\* ChannelWorker::stop(), up to the join.
Closed(k) == [worker EXCEPT ![k].active = FALSE, ![k].closed = TRUE]

Ended(k) == worker[k].thread = "ended"

----------------------------------------------------------------------------

Init ==
    /\ g_workers = [c \in Channels |-> Nobody]
    /\ worker = Nothing
    /\ lock = Nobody
    /\ http = Nothing
    /\ main = "serving"
    /\ shutdown = FALSE
    /\ udp = Nobody
    /\ received = [w \in Windows |-> 0]

(* HTTP handlers.                                                          *)

Free(h) == h \notin DOMAIN http

\* POST /channels: the worker is made and its thread started outside the lock.
PostCreate(h, c, w, k) ==
    /\ Free(h) /\ main = "serving"
    /\ k \in Workers \ DOMAIN worker
    /\ worker' = With(worker, k, [window |-> w, active |-> TRUE, closed |-> FALSE,
                                  thread |-> "started",
                                  queue |-> <<>>, taken |-> 0])
    /\ http' = With(http, h, [at |-> "insert", channel |-> c, worker |-> k])
    /\ UNCHANGED <<g_workers, lock, main, shutdown, udp, received>>

\* The assignment to g_workers[channel_id] of a new id: 201.
PostInsert(h) ==
    /\ ~Free(h) /\ http[h].at = "insert"
    /\ lock = Nobody
    /\ g_workers[http[h].channel] = Nobody
    /\ g_workers' = [g_workers EXCEPT ![http[h].channel] = http[h].worker]
    /\ http' = Without(http, {h})
    /\ UNCHANGED <<worker, lock, main, shutdown, udp, received>>

\* The same for an id that is there: the old worker's destructor stops it, under
\* the lock.
PostReplace(h) ==
    LET old == g_workers[http[h].channel]
    IN  /\ ~Free(h) /\ http[h].at = "insert"
        /\ lock = Nobody
        /\ old # Nobody
        /\ lock' = h
        /\ g_workers' = [g_workers EXCEPT ![http[h].channel] = http[h].worker]
        /\ worker' = Closed(old)
        /\ http' = [http EXCEPT ![h].at = "replace", ![h].worker = old]
        /\ UNCHANGED <<main, shutdown, udp, received>>

PostJoined(h) ==
    /\ ~Free(h) /\ http[h].at = "replace"
    /\ Ended(http[h].worker)
    /\ worker' = Without(worker, {http[h].worker})
    /\ lock' = Nobody
    /\ http' = Without(http, {h})
    /\ UNCHANGED <<g_workers, main, shutdown, udp, received>>

\* DELETE /channels/:id arrives, and wants the lock.
DeleteBegins(h, c) ==
    /\ Free(h) /\ main = "serving"
    /\ http' = With(http, h, [at |-> "find", channel |-> c, worker |-> Nobody])
    /\ UNCHANGED <<g_workers, worker, lock, main, shutdown, udp, received>>

\* Mutants of Delete: an unknown id is not answered with 404; the lock is given
\* back before the worker is closed and joined.
DeleteUnknown(h) ==
    /\ ~Free(h) /\ http[h].at = "find"
    /\ lock = Nobody
    /\ lock' = h
    /\ worker' = Closed(g_workers[http[h].channel])
    /\ http' = [http EXCEPT ![h].at = "delete", ![h].worker = g_workers[http[h].channel]]
    /\ UNCHANGED <<g_workers, main, shutdown, udp, received>>

DeleteUnlocked(h) ==
    LET k == g_workers[http[h].channel]
    IN  /\ ~Free(h) /\ http[h].at = "find"
        /\ lock = Nobody
        /\ k # Nobody
        /\ worker' = [worker EXCEPT ![k].closed = TRUE]
        /\ http' = [http EXCEPT ![h].at = "delete", ![h].worker = k]
        /\ UNCHANGED <<g_workers, lock, main, shutdown, udp, received>>

\* Under the lock a channel that is there has its worker stopped; one that is not
\* is answered with 404, also because the shutdown emptied the map meanwhile.
Delete(h) ==
    LET k == g_workers[http[h].channel]
    IN  /\ ~Free(h) /\ http[h].at = "find"
        /\ lock = Nobody
        /\ IF k = Nobody
           THEN http' = Without(http, {h}) /\ UNCHANGED <<worker, lock>>
           ELSE /\ lock' = h
                /\ worker' = Closed(k)
                /\ http' = [http EXCEPT ![h].at = "delete", ![h].worker = k]
        /\ UNCHANGED <<g_workers, main, shutdown, udp, received>>

\* Mutants of DeleteJoined: the thread is not waited for; the entry is not erased.
DeleteDetached(h) ==
    /\ ~Free(h) /\ http[h].at = "delete"
    /\ g_workers' = [g_workers EXCEPT ![http[h].channel] = Nobody]
    /\ lock' = Nobody
    /\ http' = Without(http, {h})
    /\ UNCHANGED <<worker, main, shutdown, udp, received>>

DeleteKeepsEntry(h) ==
    /\ ~Free(h) /\ http[h].at = "delete"
    /\ Ended(http[h].worker)
    /\ worker' = Without(worker, {http[h].worker})
    /\ lock' = Nobody
    /\ http' = Without(http, {h})
    /\ UNCHANGED <<g_workers, main, shutdown, udp, received>>

\* The join returned: the entry is erased and the lock released.
DeleteJoined(h) ==
    /\ ~Free(h) /\ http[h].at = "delete"
    /\ Ended(http[h].worker)
    /\ worker' = Without(worker, {http[h].worker})
    /\ g_workers' = [g_workers EXCEPT ![http[h].channel] = Nobody]
    /\ lock' = Nobody
    /\ http' = Without(http, {h})
    /\ UNCHANGED <<main, shutdown, udp, received>>

(* The UDP thread and the workers.                                         *)

\* Mutant of Pushed: a full queue loses the new block.
PushedElseDropped(q, b) == IF Len(q) >= MaxDepth THEN q ELSE Append(q, b)

\* submit_iq_block: a full queue loses its oldest block.
Pushed(q, b) == Append(IF Len(q) >= MaxDepth THEN Tail(q) ELSE q, b)

\* recv() returns a well-formed datagram of window w.
Recv(w) ==
    /\ ~shutdown /\ udp = Nobody /\ received[w] < MaxBlocks
    /\ udp' = w
    /\ UNCHANGED <<g_workers, worker, lock, http, main, shutdown, received>>

\* Under the lock, every active worker of the datagram's window gets a copy.
\* The shutdown may have begun since it was read.
Submit ==
    /\ udp # Nobody /\ lock = Nobody
    /\ received' = [received EXCEPT ![udp] = @ + 1]
    /\ worker' = [k \in DOMAIN worker |->
                      IF k \in Registered /\ worker[k].window = udp /\ worker[k].active
                      THEN [worker[k] EXCEPT !.queue = Pushed(@, received[udp] + 1)]
                      ELSE worker[k]]
    /\ udp' = Nobody
    /\ UNCHANGED <<g_workers, lock, http, main, shutdown>>

\* The thread has made its Channeliser and enters the loop.
Enter(k) ==
    /\ k \in DOMAIN worker /\ worker[k].thread = "started"
    /\ worker' = [worker EXCEPT ![k].thread = "idle"]
    /\ UNCHANGED <<g_workers, lock, http, main, shutdown, udp, received>>

\* The Channeliser's constructor throws, as it does for audio rates that do not divide
\* the window's: nothing catches it in this thread, and std::terminate ends the
\* process; its container starts it again.
Abort(k) ==
    /\ k \in DOMAIN worker /\ worker[k].thread = "started"
    /\ g_workers' = [c \in Channels |-> Nobody]
    /\ worker' = Nothing
    /\ lock' = Nobody
    /\ http' = Nothing
    /\ main' = "serving"
    /\ shutdown' = FALSE
    /\ udp' = Nobody
    /\ received' = [w \in Windows |-> 0]

Take(k) ==
    /\ k \in DOMAIN worker /\ worker[k].thread = "idle" /\ worker[k].queue # <<>>
    /\ worker' = [worker EXCEPT ![k].taken = Head(worker[k].queue),
                                ![k].queue = Tail(@), ![k].thread = "busy"]
    /\ UNCHANGED <<g_workers, lock, http, main, shutdown, udp, received>>

\* Mixing, filtering, demodulation and the callback, which does nothing.
Process(k) ==
    /\ k \in DOMAIN worker /\ worker[k].thread = "busy"
    /\ worker' = [worker EXCEPT ![k].thread = "idle"]
    /\ UNCHANGED <<g_workers, lock, http, main, shutdown, udp, received>>

\* The loop ends once the queue is closed and drained.
End(k) ==
    /\ k \in DOMAIN worker /\ worker[k].thread = "idle" /\ worker[k].queue = <<>>
    /\ worker[k].closed
    /\ worker' = [worker EXCEPT ![k].thread = "ended"]
    /\ UNCHANGED <<g_workers, lock, http, main, shutdown, udp, received>>

(* The main thread.                                                        *)

\* SIGTERM, once the server listens.
Terminate ==
    /\ main = "serving" /\ ~shutdown
    /\ shutdown' = TRUE
    /\ UNCHANGED <<g_workers, worker, lock, http, main, udp, received>>

\* http.stop(): no new request; those under way go on.
StopHttp ==
    /\ main = "serving" /\ shutdown
    /\ main' = "stopping"
    /\ UNCHANGED <<g_workers, worker, lock, http, shutdown, udp, received>>

LockAll ==
    /\ main = "stopping" /\ lock = Nobody
    /\ lock' = Main
    /\ main' = "clearing"
    /\ UNCHANGED <<g_workers, worker, http, shutdown, udp, received>>

\* stop() on the workers, one after the other, in the order of the map.
StopNext(k) ==
    /\ main = "clearing"
    /\ k \in Registered /\ ~worker[k].closed
    /\ \A j \in Registered : worker[j].closed => Ended(j)
    /\ worker' = Closed(k)
    /\ UNCHANGED <<g_workers, lock, http, main, shutdown, udp, received>>

Clear ==
    /\ main = "clearing"
    /\ \A k \in Registered : worker[k].closed /\ Ended(k)
    /\ worker' = Without(worker, Registered)
    /\ g_workers' = [c \in Channels |-> Nobody]
    /\ lock' = Nobody
    /\ main' = "joining"
    /\ UNCHANGED <<http, shutdown, udp, received>>

\* The UDP and HTTP threads are joined, and main returns.
Return ==
    /\ main = "joining" /\ udp = Nobody /\ http = Nothing
    /\ main' = "exited"
    /\ UNCHANGED <<g_workers, worker, lock, http, shutdown, udp, received>>

\* The map's destructor stops the workers that a late request put there, and the
\* container starts the process again.
Destroy(k) ==
    /\ main = "exited"
    /\ k \in Registered /\ ~worker[k].closed
    /\ worker' = Closed(k)
    /\ UNCHANGED <<g_workers, lock, http, main, shutdown, udp, received>>

Restart ==
    /\ main = "exited"
    /\ \A k \in DOMAIN worker : Ended(k)
    /\ g_workers' = [c \in Channels |-> Nobody]
    /\ worker' = Nothing
    /\ main' = "serving"
    /\ shutdown' = FALSE
    /\ udp' = Nobody
    /\ received' = [w \in Windows |-> 0]
    /\ UNCHANGED <<lock, http>>

----------------------------------------------------------------------------

HandlerRuns(h) ==
    PostInsert(h) \/ PostReplace(h) \/ PostJoined(h) \/ Delete(h) \/ DeleteJoined(h)

WorkerRuns(k) == Enter(k) \/ Abort(k) \/ Take(k) \/ Process(k) \/ End(k)

MainRuns ==
    \/ StopHttp \/ LockAll \/ Clear \/ Return \/ Restart
    \/ \E k \in Workers : StopNext(k) \/ Destroy(k)

Next ==
    \/ \E h \in Handlers, c \in Channels :
           \/ DeleteBegins(h, c)
           \/ \E w \in Windows, k \in Workers : PostCreate(h, c, w, k)
    \/ \E h \in Handlers : HandlerRuns(h)
    \/ \E k \in Workers : WorkerRuns(k)
    \/ Submit \/ \E w \in Windows : Recv(w)
    \/ Terminate \/ MainRuns

Spec == Init /\ [][Next]_vars

\* Every thread goes on when it can; a thread that waits for g_workers_mtx gets
\* it in the end, though others may take it in between.
Fairness ==
    /\ \A h \in Handlers : SF_vars(HandlerRuns(h))
    /\ \A k \in Workers : WF_vars(WorkerRuns(k))
    /\ SF_vars(Submit)
    /\ SF_vars(MainRuns)

FairSpec == Spec /\ Fairness

----------------------------------------------------------------------------

\* What is queued for a worker, after what it took: blocks of its window, not
\* more than the queue holds, in order and without a gap, since a full queue
\* loses its oldest block; and up to the newest one while the worker is fed.
QueuesNewest ==
    \A k \in DOMAIN worker :
        LET q == worker[k].queue
        IN  /\ Len(q) <= MaxDepth
            /\ \A i \in 1 .. Len(q) - 1 : q[i + 1] = q[i] + 1
            /\ q # <<>> => worker[k].taken < q[1]
            /\ q # <<>> /\ worker[k].active => q[Len(q)] = received[worker[k].window]

\* The steps that worker k's thread has before it once its queue is closed: each
\* queued block is taken and processed, the loop is entered and left.
Remaining(k) ==
    2 * Len(worker[k].queue) + [started |-> 2, idle |-> 1, busy |-> 2, ended |-> 0][worker[k].thread]

\* Whoever joins a worker waits for one that comes closer to its end with all that
\* happens to it: none of the threads adds a block to a closed queue or reopens it.
JoinsShrink ==
    [][\A k \in DOMAIN worker \cap DOMAIN worker' :
           worker[k].closed /\ worker'[k] # worker[k]
               => worker'[k].closed /\ Remaining(k)' < Remaining(k)]_vars

\* No worker thread outlives the reach of its object: it is in the map, or in
\* the hands of the one handler that is inserting or joining it.
ThreadsOwned ==
    \A k \in DOMAIN worker :
        \/ k \in Registered
        \/ \E h \in DOMAIN http : http[h].worker = k /\ http[h].at \in {"insert", "replace"}

\* The map holds no worker that was destroyed, nor one worker twice.
RegisteredAlive ==
    /\ Registered \subseteq DOMAIN worker
    /\ \A c, d \in Channels : c # d /\ g_workers[c] # Nobody => g_workers[c] # g_workers[d]

\* A handler comes to its answer, though it may wait for the lock, for a worker
\* to drain its queue under the lock, and for the main thread's shutdown.
HandlersAnswer == \A h \in Handlers : ~Free(h) ~> Free(h)

\* SIGTERM ends the process, with every worker thread joined, also one that a
\* request under way adds after the main thread emptied the map.
ShutdownCompletes == shutdown ~> ~shutdown
============================================================================
