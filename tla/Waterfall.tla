----------------------------- MODULE Waterfall -----------------------------
(***************************************************************************)
(* The waterfall generator (native/waterfall-service): a bounded queue of  *)
(* IQ blocks with a condition variable, the worker thread that makes a     *)
(* line of every BlocksPerLine-th block, the map of its subscribers, and   *)
(* the main thread that starts and stops it.                               *)
(*                                                                         *)
(* The service has no feeder and no subscriber yet; here they do what the  *)
(* generator's header offers: blocks are submitted, callbacks subscribed   *)
(* and unsubscribed, at any time and from other threads than the worker's. *)
(* queue_mtx is held for single operations, so these are single steps;     *)
(* sub_mtx is held by the worker while it delivers a line.  What blocks    *)
(* and lines contain is left out, and so is running, which nobody reads.   *)
(***************************************************************************)
EXTENDS Naturals, FiniteSets

CONSTANTS
    Clients,       \* threads that subscribe
    Ids,           \* subscription ids: a counter hands out one that nobody has
    MaxQueue,      \* blocks that the queue holds (8)
    BlocksPerLine, \* window_sample_rate_hz / (fft_size * update_rate_hz)
    None           \* no subscription

ASSUME SizesAssumption == MaxQueue \in Nat \ {0} /\ BlocksPerLine \in Nat
ASSUME IdsAssumption ==
    /\ None \notin Ids /\ IsFiniteSet(Clients) /\ IsFiniteSet(Ids)
    /\ Cardinality(Ids) > Cardinality(Clients)

VARIABLES
    main,        \* the main thread
    closed,      \* Impl::closed
    queue,       \* the number of blocks in iq_queue
    worker,      \* the worker thread
    counter,     \* its block_counter
    subscribers, \* the keys of the map
    left,        \* those that the line under way has not been delivered to
    client,      \* where a client is, and the id it holds
    feeding      \* blocks still come

vars == <<main, closed, queue, worker, counter, subscribers, left, client, feeding>>

TypeOK ==
    /\ main \in {"starting", "serving", "notifying", "joining"}
    /\ closed \in BOOLEAN
    /\ queue \in 0..MaxQueue
    /\ worker \in {"none", "checking", "asleep", "locking", "delivering", "ended"}
    /\ counter \in 0..BlocksPerLine
    /\ subscribers \subseteq Ids /\ left \subseteq Ids
    /\ client \in [Clients -> [at : {"out", "in", "leaving"}, id : Ids \cup {None}]]
    /\ feeding \in BOOLEAN

Away == [at |-> "out", id |-> None]

\* What notify_one and notify_all do to the only thread that waits.
Woken == IF worker = "asleep" THEN "checking" ELSE worker

----------------------------------------------------------------------------

Init ==
    /\ main = "starting"
    /\ closed = FALSE /\ queue = 0
    /\ worker = "none" /\ counter = 0
    /\ subscribers = {} /\ left = {}
    /\ client = [c \in Clients |-> Away]
    /\ feeding = TRUE

(* The main thread.                                                        *)

Start ==
    /\ main = "starting" /\ main' = "serving"
    /\ worker' = "checking"
    /\ UNCHANGED <<closed, queue, counter, subscribers, left, client, feeding>>

\* The flag of the signal handler is seen: stop() begins.
Close ==
    /\ main = "serving" /\ main' = "notifying"
    /\ closed' = TRUE
    /\ UNCHANGED <<queue, worker, counter, subscribers, left, client, feeding>>

\* Mutant of Notify: nobody is.
NotifyNobody ==
    /\ main = "notifying" /\ main' = "joining"
    /\ UNCHANGED <<closed, queue, worker, counter, subscribers, left, client, feeding>>

Notify ==
    /\ main = "notifying" /\ main' = "joining"
    /\ worker' = Woken
    /\ UNCHANGED <<closed, queue, counter, subscribers, left, client, feeding>>

\* The join returns and so does main; the container starts the process again.
\* (The destructor calls stop() once more, with nothing left to join.)
Exit ==
    /\ main = "joining" /\ worker = "ended"
    /\ main' = "starting"
    /\ closed' = FALSE /\ queue' = 0 /\ worker' = "none" /\ counter' = 0
    /\ subscribers' = {} /\ left' = {}
    /\ client' = [c \in Clients |-> Away]
    /\ feeding' = TRUE

(* The feeder.                                                             *)

\* Mutants of Submit: no block is dropped; the worker is woken for full queues only.
SubmitAll ==
    /\ feeding
    /\ queue' = queue + 1
    /\ worker' = Woken
    /\ UNCHANGED <<main, closed, counter, subscribers, left, client, feeding>>
SubmitSeldomNotifies ==
    /\ feeding
    /\ queue' = IF queue >= MaxQueue THEN queue ELSE queue + 1
    /\ worker' = IF queue + 1 >= MaxQueue THEN Woken ELSE worker
    /\ UNCHANGED <<main, closed, counter, subscribers, left, client, feeding>>

\* submit_iq_block: the oldest block of a full queue is dropped.  A queue that is
\* closed takes blocks all the same.
Submit ==
    /\ feeding
    /\ queue' = IF queue >= MaxQueue THEN queue ELSE queue + 1
    /\ worker' = Woken
    /\ UNCHANGED <<main, closed, counter, subscribers, left, client, feeding>>

FeederEnds ==
    /\ feeding /\ feeding' = FALSE
    /\ UNCHANGED <<main, closed, queue, worker, counter, subscribers, left, client>>

(* The worker.                                                             *)

\* The predicate holds and the queue has a block.  Most blocks are only counted;
\* the FFT of another may throw, when the block is too short.
Take ==
    /\ worker = "checking" /\ queue > 0
    /\ queue' = queue - 1
    /\ IF counter + 1 < BlocksPerLine
       THEN counter' = counter + 1 /\ UNCHANGED worker
       ELSE counter' = 0 /\ worker' \in {"checking", "locking"}
    /\ UNCHANGED <<main, closed, subscribers, left, client, feeding>>

Sleep ==
    /\ worker = "checking" /\ queue = 0 /\ ~closed
    /\ worker' = "asleep"
    /\ UNCHANGED <<main, closed, queue, counter, subscribers, left, client, feeding>>

\* A condition variable may wake a thread for no reason.
WakeSpuriously ==
    /\ worker = "asleep" /\ worker' = "checking"
    /\ UNCHANGED <<main, closed, queue, counter, subscribers, left, client, feeding>>

End ==
    /\ worker = "checking" /\ queue = 0 /\ closed
    /\ worker' = "ended"
    /\ UNCHANGED <<main, closed, queue, counter, subscribers, left, client, feeding>>

\* sub_mtx is taken.
Lock ==
    /\ worker = "locking" /\ worker' = "delivering"
    /\ left' = subscribers
    /\ UNCHANGED <<main, closed, queue, counter, subscribers, client, feeding>>

\* A callback is called and returns.
Deliver ==
    /\ worker = "delivering"
    /\ \E i \in left : left' = left \ {i}
    /\ UNCHANGED <<main, closed, queue, worker, counter, subscribers, client, feeding>>

Unlock ==
    /\ worker = "delivering" /\ left = {}
    /\ worker' = "checking"
    /\ UNCHANGED <<main, closed, queue, counter, subscribers, left, client, feeding>>

(* The clients.                                                            *)

Subscribe(c) ==
    /\ client[c].at = "out" /\ worker # "delivering"
    /\ \E i \in Ids \ {client[d].id : d \in Clients} :
           /\ subscribers' = subscribers \cup {i}
           /\ client' = [client EXCEPT ![c] = [at |-> "in", id |-> i]]
    /\ UNCHANGED <<main, closed, queue, worker, counter, left, feeding>>

\* unsubscribe() is called, and waits for sub_mtx.
Unsubscribe(c) ==
    /\ client[c].at = "in"
    /\ client' = [client EXCEPT ![c].at = "leaving"]
    /\ UNCHANGED <<main, closed, queue, worker, counter, subscribers, left, feeding>>

\* Mutant of Unsubscribed: the mutex is not taken.
UnsubscribedUnlocked(c) ==
    /\ client[c].at = "leaving"
    /\ subscribers' = subscribers \ {client[c].id}
    /\ client' = [client EXCEPT ![c] = Away]
    /\ UNCHANGED <<main, closed, queue, worker, counter, left, feeding>>

\* It returns: from now on the callback may be destroyed.
Unsubscribed(c) ==
    /\ client[c].at = "leaving" /\ worker # "delivering"
    /\ subscribers' = subscribers \ {client[c].id}
    /\ client' = [client EXCEPT ![c] = Away]
    /\ UNCHANGED <<main, closed, queue, worker, counter, left, feeding>>

----------------------------------------------------------------------------

MainRuns == Start \/ Notify \/ Exit
WorkerRuns == Take \/ Sleep \/ End \/ Lock \/ Deliver \/ Unlock

Next ==
    \/ MainRuns \/ Close
    \/ Submit \/ FeederEnds
    \/ WorkerRuns \/ WakeSpuriously
    \/ \E c \in Clients : Subscribe(c) \/ Unsubscribe(c) \/ Unsubscribed(c)

Spec == Init /\ [][Next]_vars

\* Main and worker run, and callbacks return.  Signals, blocks, subscriptions and
\* spurious wake-ups need not come.
Fairness == WF_vars(MainRuns) /\ WF_vars(WorkerRuns)

FairSpec == Spec /\ Fairness

----------------------------------------------------------------------------

\* No wake-up is lost, however submit() and stop() meet the worker between its
\* look at the queue and its sleep: it sleeps over an empty queue, and over a
\* closed one only until the notification that stop() is about to give.
NeverAsleepOnWork ==
    worker = "asleep" => queue = 0 /\ (closed => main = "notifying")

\* A callback is never called after its unsubscribe() has returned, though the
\* worker goes through the map while clients come and go.
CallbacksAlive == left \subseteq {client[c].id : c \in Clients}

\* stop() returns once no blocks come any more, after the worker has emptied the
\* queue.  (While they come it need not: nothing refuses them.)
StopEnds == main # "serving" /\ ~feeding ~> main = "starting"
============================================================================
