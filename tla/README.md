# A TLA+ model of OpenWebSDR (Next SDR)

Specifications, model-checking runs and machine-checked proofs for the control
plane and the native services of this repository. Paths below are relative to
the repository's root (`src/` in `PROJECT.json`).

## 1. The system

Wideband IQ samples are taken once by a receiver and shared: a *receiver window*
is a slice of spectrum, a *channel* is one demodulated frequency inside a window,
a *session* is one user's lease of a channel.

| Component | State | Operations | Talks to |
|---|---|---|---|
| `apps/scheduler` | active window, channel store, session store (all in memory) | `tune`, `closeSession`, `PUT /window` | calls channel-service (`POST /channels`), is called by control-api, session-gateway, window-engine |
| `apps/receiver-registry` | receivers with the date of the last heartbeat, a prune timer | register, heartbeat, deregister, prune, claim, release, health | called by receivers |
| `native/receiver-emulator` | registration and heartbeat threads, stream object and thread, HTTP pool | register with retries, heartbeat, deregister; start, stop, release, window | calls registry; sends UDP blocks to channel-service |
| `native/channel-service` | map of channel workers behind one mutex, one queue and thread per worker | `POST`, `DELETE /channels`, UDP intake, shutdown | fed by receivers, called by scheduler |
| `apps/window-engine` | windows and their status | create, stop; announces a window to the scheduler by a call nobody awaits | calls scheduler |
| `apps/control-api` | none | proxies tune, close and the listings | calls scheduler, registry, window-engine |
| `apps/session-gateway` | open sockets by user | accept up to a limit, forward tune, ping | calls scheduler; the browser's socket |
| `apps/web-ui` | the page's socket, whether it is connected, the session it shows | connect, reconnect after a close, tune | session-gateway by WebSocket |
| `native/waterfall-service` | queue, subscribers, worker thread | submit, subscribe, unsubscribe, start, stop | nobody yet (a skeleton) |
| `native/receiver-rtlsdr` | device, stream thread | start, stop | librtlsdr |
| `native/dsp-core` | filter and phase state | demodulate, channelise, FFT | used by channel and waterfall service |
| `packages/receiver-sdk` | the operation under way | discover, claim, release, window, start, stop inside `withRetry` with a timer per attempt | calls a receiver |
| `apps/test-harness` | the sessions it was told of | `tune`, `closeSession` | calls control-api |
| `packages/contracts`, `config`, `scenario-definitions` | - | types, defaults, test data | - |

What is hard here, and what makes each component correct:

* **Scheduler.** JavaScript runs one handler at a time, but `tune` suspends at the
  call to the channel service, having decided on counts it read before. Correct
  means: the two stores agree whatever happens during the await; a session is
  never attached to a channel that may still be removed; the limits are
  overshot by no more than the calls in flight; a caller gets the stream it asked for.
* **Registry and receivers.** Two threads of a receiver, two legs of each call and
  a timer share one entry. Correct means: a receiver that is gone is not listed for
  long, one that is up is not pruned as long as calls are on time, what was removed
  stays removed, and SIGTERM ends the process once its stream and server have stopped.
* **Channel service.** Four kinds of threads; a worker is joined while the global
  mutex is held. Correct means: no deadlock, the join ends since the queue only
  drains, queues keep order and the newest blocks, and no thread outlives its owner.
* **Emulator's stream.** An unguarded pointer and a flag, used by all threads of the
  HTTP pool and by main. Correct means: a stream that delivers can always be
  reached, requests end, and the flag says the truth. The code keeps none of the three
  whatever overlaps; the module says which overlaps break each.
* **Gateway and pages.** Each end of a socket learns late what the other did, handlers
  are suspended at two awaits, and a call that fails takes the process down. Correct
  means: the limit per user holds and never locks the user out for good, an answer finds
  the page that asked, and none is lost while its socket lives.
* **Waterfall.** A condition variable and a mutex held over callbacks. Correct means: no
  wake-up is lost, no callback comes after its unsubscription, `stop()` returns.
* **Window engine and control api.** Announcements nobody waits for overtake one another or are
  lost; each broken connection leaves a caller that does not know what became of its call.
  Correct means: the newest window is served unless an announcement was lost or overtaken;
  a session reported closed is; only broken connections leave sessions nobody can close.
* **SDK.** The timer gives up a request that the backend may still handle, after its retry or
  after later operations, and a scenario may end the stream by itself. Correct means: what an
  operation reported is so until one of these happens, and every operation settles.
* **The tune path.** Each side of a call has its own idea of the message. Correct means: what
  the scheduler admits, the channel service accepts.

`PROJECT.json` lists the hazards of the code, each at its line, with the properties
that cover it or the reason why none does.

## 2. The modules

`SessionLeases` - the abstract specification: what the scheduler promises, without
channels. A caller asks for a stream, is refused or granted exactly one session, and
the session stays that stream until it is closed or the scheduler restarts.

`Scheduler` - `apps/scheduler`. `channels` and `sessions` are the two `Map`s,
`precedes` is the insertion order that `Array.find` follows, `pending` holds the
tune calls suspended at their `await`. A handler is one step, except `tune`:
`TuneRefused`, `TuneReuse` (both without an await), `TuneBegin` up to the await,
`ProvisionOk` / `ProvisionFail` after it. `CloseSession`, `SetWindow`, `Restart`. A
*tuning* stands for frequency, mode and bandwidth, which is all that
`definitionsMatch` compares; `Serves` says which tunings lie in a window's service
band. The scheduler never removes an active channel, and neither does the model.

`ReceiverRegistry` - `apps/receiver-registry` together with the registration and
heartbeat threads of `native/receiver-emulator/src/main.cpp`. Time is explicit: a
`Tick` passes only when nothing is overdue; an entry carries its age. A call has two
legs (`sent`, `answered`), each at most `MaxDelay` long, or is `lost` and noticed
within `CallLimit` (curl's `CURLOPT_TIMEOUT`). `Prune` is the timer; `RegisterFails`
retries up to `MaxAttempts`; `Terminate`, `Leave`, `DeregisterEnds`, `StopServing`, `Exit` are
the way out, of which `StopServing` (the stream's and the server's stop and the join of the
server thread, lines 288-291) may never happen, since module `Emulator` shows that it can wait
for ever; `Crash` and `RegistryRestart` may come at any time. `Claim` and `Release` are the
routes that set an entry's `claimed` flag; receivers do not send them.

`ControlPlane` - `apps/window-engine`, `apps/control-api` and their callers around the
scheduler, of which it takes the steps of `SessionLeases` and its shutdown. `windows` is the
engine's map; `announcing` the calls of `notifyScheduler` under way, which arrive in any order
(`Announced`) or not at all (`AnnouncementLost`); `newest` and `missed` record what the
property about them needs. A call goes from its caller through the control api to the
scheduler and back (`PostTune`, `DeleteSession`, `HandleTune`, `Settle`, `HandleClose`, `Hear`);
`Relayed` is what the api makes of each status, `Failed` what its catch blocks do, `Learns`
what the harness makes of the answer. `Break` cuts a call's connection at any point,
`Shutdown`, `HandleClosing` and `SchedulerRestart` are the scheduler's end and new start; it may
be killed while it closes, with a tune still suspended, as docker does after its grace period.

`TunePath` - `Scheduler` with the other end of its one call: `Sent` are the fields that
`provisionChannel` sends, `Required` those that `POST /channels` reads with `at()`.

`ReceiverClient` - `packages/receiver-sdk` against the handlers of a receiver. Of the backend
`streaming` is the flag that the handlers test, `stream` what is being delivered; they differ
after a planned disconnect (`Disconnect`), which a scenario may have (`planned`) and after which
a start is still answered 409. The handlers run one at a time here. `stage` is how
far the current attempt of the operation under way is; `Abort` is the timer or a failing
fetch, `Headers` and `Body` the two awaits of an answer (the second without a timer), `Fail`
and `Wake` are `withRetry`. `late` counts the requests that were given up and are still under
way, `HandleLate` handles one. `applied` and `expected` are what the program was told.

`ChannelService` - `native/channel-service`. `lock` is `g_workers_mtx`, `g_workers`
the map, `worker` the objects with queue, flags and thread. The queue's own mutex is
held for single operations, so these are single steps. `PostCreate` starts the
worker, `PostInsert` or `PostReplace` puts it in the map; `DeleteBegins` is a DELETE that arrives
and waits for the mutex, for as long as the main thread has it, `Delete` its look at the map,
which may be empty by then, and `Delete` and `DeleteJoined` are the two ends of the join under the
lock; `Recv` and `Submit` are the UDP thread;
`Enter`, `Take`, `Process`, `End` the worker thread, `Abort` the exception out of the
Channeliser's constructor, which ends the process; `StopHttp`, `LockAll`, `StopNext`,
`Clear`, `Return`, `Destroy`, `Restart` the main thread.

`Emulator` - the stream routes of `native/receiver-emulator`. `emulator` is the
`unique_ptr`, `streaming` the atomic flag, `stream` the objects with `running_` and
their thread. Each read and write of the pointer, of `running_` and of the thread handle is a
step: a start allocates and reads the old pointer (`Create`), writes the new one (`Swap`), stops,
joins and frees the old object (`Halt`, `Join`, `Free`), reads the pointer again (`Read`), exchanges
`running_` (`Exchange`), starts the thread (`Launch`) and sets the flag (`Mark`); a stop reads, tests,
reads again and stops (`StopBegins`, `Check`, `Stop`, `Halt`, `Join`, `Unmark`). Other threads may come
in between any two of them. Undefined behaviour (an access to a destroyed object, two joins of one
thread) goes on with what the memory holds or ends the process (`Crash`); destroying a joinable
`std::thread` or assigning over it does end it (`Terminate`).

`SessionGateway` - `useControlSocket` of the web ui, `apps/session-gateway`, and what
they see of the scheduler. `socket` holds both ends of each WebSocket with the messages
under way: `client` is what the page thinks, `server` what the gateway thinks;
`connections` is the `ConnectionManager`'s map. A closed socket is as good as none, so
`socketRef` is then `Nobody`. `HandleMessage` is the handler up to its await, `Respond`
what follows it; in between, `Grant` and `Refuse` are the scheduler, of which only the
promise of `SessionLeases` is kept. `Break` cuts a connection without the gateway's
knowledge, `ServerCloses` is when it finds out, `UnhandledRejection` the end of the
process by a failed fetch, `Start` its container's restart. A page is left open, and
opens its next socket when its timer fires.

`Waterfall` - `native/waterfall-service`. `queue` is the length of the queue, `worker`
the place of the worker thread in its loop: before the predicate, asleep in the wait,
waiting for `sub_mtx`, delivering. `Submit`, `Close` and `Notify` are the other users of
the condition variable; `left` are the subscribers that a line under way has not reached.

The modules named `...Proofs` hold the theorems, one for each of the eight components above;
`MCScheduler` and `MCControlPlane` give TLC functions as values and symmetries (calls, channel ids
and session ids are interchangeable: the modules compare them and no more, and neither run has a
liveness property). Operators named in a comment as mutants are variants
of an action with a plausible bug; each property is checked to fail under one of them.

## 3. What the runs show

| Run | Shows | Bounds |
|---|---|---|
| `scheduler` | type, `ListenersMatchSessions`, `SessionsOnActiveChannels`, `PlaceholdersOwned`, `ChannelsBounded`, `DuplicatesBounded`; `ImplementsLeases` (refinement) | 2 calls in flight, 4 channels, 3 sessions, 2 windows, 2 tunings, limits 2, 2 and 1 |
| `scheduler_one_channel` | **violated**: `OneChannelPerTuning` | as `scheduler` |
| `tune_path` | **violated**: `AdmittedIsGranted` | 2 calls, 2 channels, 2 sessions, nothing fails |
| `control_plane` | type, `OrphansBounded`, `NewestServed`, `ClosedMeansGone` | 2 calls, 3 sessions, 2 windows, 1 tuning, 2 broken connections |
| `receiver_client` | type, `ReportsHold`, `Settles` | 2 configurations, 3 attempts, 2 requests late at a time |
| `registry` | type, `StaleListedBriefly`, `FreshWhileUp`, `NoResurrection`, `Terminates` | 1 receiver, 2 ids, 1 fault, delays up to 1, 3 attempts, timeout 9, prune every 3 |
| `registry_kept_alive` | **violated**: `KeptAlive` | 1 receiver, no fault but a restart of the registry |
| `channels` | type, `QueuesNewest`, `ThreadsOwned`, `RegisteredAlive`, `JoinsShrink`, `HandlersAnswer`, `ShutdownCompletes` | 2 handlers, 2 channels, 1 window, 2 workers, depth 2, 3 blocks |
| `emulator` | type, `StreamsReachable`, `AnsweredUnlessOvertaken` | 2 handlers and main, 2 addresses |
| `emulator_already_streaming` | **violated**: `RefusedOnlyWhileStreaming` | 2 handlers, no planned disconnect |
| `gateway` | type, `SocketsWithinLimit`, `NothingLost`, `SessionsReachTheirUser`, `Reconnects`, `CallsEnd` | 2 pages, 2 sockets, 2 calls, 2 sessions, limit 1, 1 answer awaited per page, 1 fault |
| `waterfall` | type, `NeverAsleepOnWork`, `CallbacksAlive`, `StopEnds` | 2 clients, 3 ids, queue of 3, a line every 2 blocks |

Why the bounds are enough for what they are for:

* Every invariant the runs check is also proved for all values of the constants (section 4), so
  the bounds matter most for liveness and for the runs that find a violation. A safety and a
  liveness question about one component share a run and its bounds.
* Two calls in flight are what it takes to overtake one another at the single await; with
  limits of 1 or 2 both sides of each limit are reached. With a limit of 2 channels, 3 are
  allowed by the overshoot, and one tuning could have them all: that it has 2 is not a consequence of
  `ChannelsBounded` but of the reuse of active channels, the mutant of `Reusable` shows it.
* Two calls and three sessions let a close meet a tune, and two broken connections make two
  debts at a time; with two windows one announcement overtakes the other. `MaxFaults` bounds
  only the broken connections: restarts, shutdowns and lost announcements are not bounded.
* Three attempts make a first, a middle and a last one; two late requests can be a start and a
  stop, or a window and a start, in either order. `MaxLate` bounds requests given up.
* The timing of the registry is scaled (5 s, 10 s, 15 s and the prune interval become 1, 2, 3 or
  9 and 1 or 3): the ratios decide which events can overtake which. With a timeout of 9 a fault
  leaves room in it, which is when `FreshWhileUp` keeps the prune timer away; with 3 it is as
  short as in the code. One receiver has several entries: a registration whose answer is lost,
  or one left by a crash, stays beside the next. `MaxFaults` bounds lost calls and crashes;
  registry restarts are not bounded.
* A queue of depth 2 fed with 3 blocks overflows and has a middle. Two handlers, main,
  UDP thread and workers are all the kinds of threads that contend for the mutex; with two
  channels and two workers one request inserts, deletes or replaces while the other does.
  `MaxBlocks` bounds the blocks of one life of the process.
* Two requests and the main thread are what it takes to have two starts overlap, or a start and
  a stop with the shutdown. Two addresses are the new object and the one it replaces, and are used
  again after `free`. A start comes only while an address is left for it, so the bound delays starts
  when streams have leaked or old objects are still being joined; the proof is for any number.
* A user whose limit is 1 meets it as soon as an old socket is still counted. With two calls and
  two sessions the answers of two pages are under way together and come in either order, and a
  call whose socket is closed goes on while its page tunes on the next one. `MaxAwaited` bounds
  what one page has asked and not heard of, `MaxFaults` the broken connections and ended
  gateways together; sockets, sessions and calls are names that are used again, and
  `Requests` is a bound on calls in flight that the gateway itself does not have.
* A queue of 3 fills up, overflows and runs empty; a third id lets a client come back
  under another one. The feeder is not bounded.

No run disables the deadlock check.

**Fairness.** Scheduler and control plane: none, they have no liveness property, since nobody
promises that the channel service, an announcement or an answer comes. Receiver client: the event loop runs,
timers fire, and a body that does not come is ended by Node's own limit; nothing is assumed of
network and backend. Registry: handlers and threads run, time passes;
starts, signals, losses, crashes and restarts are not assumed, nor that `StopServing` happens:
`Terminates` says that a process which got SIGTERM ends or stays there. Channel service: every
thread goes on when it can, and one that waits for the mutex gets it in the end, which is
what the operating system's scheduler gives in practice, hence strong fairness for the
steps that take it. Emulator: weak fairness for the threads of the process, and strong
fairness for a `join()`, which waits for one thread and returns once that one has ended, also if
another start has put a new thread in its place. Gateway: timers
and events are delivered, the scheduler answers (assumed: its own call of the channel service has
no timeout), the container starts the
gateway again, and a dead connection is noticed in the end since the gateway's unanswered
pings make TCP give it up; taking a message is strongly fair because only the bound
`Requests` can delay it. Waterfall: main and worker run, and callbacks return. No client
ever has to send anything.

**Disagreements found** (details under `findings` in `PROJECT.json`):

1. The scheduler sends a channel's definition without the window's centre frequency and sample
   rate, which the channel service requires: it answers 400, and no tune that needs a new
   channel is granted, where the integration test expects a session.
2. Two users who tune to one frequency at the same time get two channels, where the
   integration test expects one to be reused; neither channel ever goes away.
3. A heartbeat does not keep the registration alive once the registry has forgotten it:
   404 is ignored and no receiver registers twice.
4. Overlapping start and stop requests leave the emulator refusing every start with
   "already streaming" while nothing streams. (In one sequence of requests the same answer
   comes after a planned disconnect, until a stop is sent.)

## 4. What is proved

TLAPS checks these for all values of the constants that meet the named assumptions
(`RequestsAssumption`: finitely many calls in flight; `WindowsAssumption`,
`ServesAssumption`, `LimitsAssumption`: types; the others are named below). The runs evaluate
every assumption.

*SchedulerProofs.* `TypeOK` is inductive by itself. `PlaceholdersOwned` needs it and no
more. `SessionsOnActiveChannels` needs that an awaiting call's channel is starting, so that a
failing provision never removes a channel somebody listens to. `ListenersMatchSessions`
additionally needs the finiteness of the stores (`StoresFinite`) for its cardinalities. The
bounds rest on `PlaceholdersCounted`: there are as many placeholders as suspended calls,
so all channels are those admitted while the active ones were below the limit, plus fewer
than `Cardinality(Requests)` others. `SequentialLimit` instantiates that for one call at a time.
`SchedulerImplementsLeases` shows the refinement step by step under the same invariants;
a tuning without an available channel maps to `Ask`, its end to `Grant` or `Refuse`.
`SessionsKeptUntilClosed` is an action property: a session keeps its active channel and that
channel's window and tuning through every step of anybody but its own close and a restart.
`SequentialSharing` delimits finding 2: with one call at a time, `OneChannelPerTuning` holds.

*ReceiverRegistryProofs.* `StaleListedBriefly` is not inductive: the strengthening is that an
entry's age plus the time to the next prune never exceeds `Timeout + PruneEvery`.
`NoResurrection` is an action property that follows from the actions. For `FreshWhileUp` the
invariant is `Punctual`: by where a receiver's heartbeat thread is - asleep, its request under
way, its answer - the age of the entry and what is left of the sleep or of the call add up to
one round of the loop plus `Slack`, the delays of the faults so far; an entry whose registration
is being answered is no older than that answer. It needs to know whose calls are under way
(`CallsKnown`), so that a heartbeat of an earlier life never counts for the next one. `NothingElseUnlists` and
`ListedUnlessRestarted` delimit finding 3: as long as `FreshFor` is within the timeout, only a
restart of the registry takes a live receiver off the list.
(`TimingAssumption`; `CallsAssumption`: `Nobody` is not a call.)

*ControlPlaneProofs* (`NamesAssumption`, `ServesAssumption`, `FaultsAssumption`). `CallsSound`
says what an answer under way implies: a close is answered `closed` or `unknown` only when its
session is gone, and a call suspended in the scheduler is one that `SessionLeases` knows. With
it `ClosedMeansGone` and `NewestServed` follow action by action. `OrphansBounded` counts debts: each broken
connection made one at most, which is either an orphaned session or a deserted call that may
still become one; `DebtsCovered` bounds their sum by `faults`, and needs that the stores are finite.
Two special cases say more than the bound. Without broken connections nothing is ever orphaned
(`OrphansOnlyFromFaults`). While the scheduler does not restart, which loses leases that callers
go on holding, also these ghosts are counted: `ViewsDifferByFaults` bounds both together, and
`ViewsAgree` says that without broken connections callers and scheduler agree whenever no call is under way.
The composition is written with the actions of `SessionLeases`; `SchedulerImplementsLeases` is what
justifies that.

*ReceiverClientProofs* (`AttemptsAssumption`, `ConfigsAssumption`, `NoneAssumption`). Types need
that whoever sleeps has an attempt left. `ReportsHold` speaks of the client at rest; `WindowHolds`
and `StreamHolds` say of each stage of an operation what the backend has already done for it, so
that its report is true when it comes; of a started stream it says that it is delivered, or was
ended by the scenario while the flag stays set. `OnlyLateAndPlannedDisturb` drops the exception from
`ReportsHold` where no abandoned request arrives late. `OperationsAlwaysShrink` gives the measure behind `Settles`:
each step of an operation lowers `Remaining`, which starts below 4 * `MaxAttempts`.

*ChannelServiceProofs* (`DepthAssumption`, `ThreadsAssumption`). `Owned` is the core: what each
handler holds by the place it is at, that a handler which joins under the mutex has the mutex, and
that no two handlers hold one worker. `ThreadsOwned` and `RegisteredAlive` are parts of it. `Fed`
says of a queue that its numbers follow one another up to the last block received and come after the
one taken; it gives `QueuesNewest`. `JoinsShrink` needs from `Owned` that a closed worker is not
active any more, or the UDP thread would go on feeding it: `Remaining` counts the steps the worker
has left, and every step that touches a worker being joined lowers it. `JoinsAlwaysBounded` adds that
it is at most 2 * `MaxDepth` + 2 while a handler joins with the mutex in hand. Together they are the
safety half of `HandlersAnswer`.

*EmulatorProofs* (`ThreadsAssumption`). `StreamsReachable` holds until two starts are between reading
the pointer and starting a thread at one time (`overlapped`), which is when they may read the same
old pointer, start one object twice or leave one running that the pointer has passed by. The
invariant adds `PointerKnown`: until then one start at most is past its look at the pointer, and
what it has in hand is still the pointer, whatever stops, disconnects and the shutdown do between
its steps.
`SequentialRefusals` delimits finding 4: for one handler and without planned disconnects the flag
follows the stream (`FlagFollows`), so that every refusal is right.

*SessionGatewayProofs* (`LimitAssumption`, `BoundsAssumption`, `FiniteAssumption`,
`NobodyAssumption`). Types and `NothingLost` are one induction: that a page's count of missing
answers stays in its range needs that an answer which arrives was counted, and this in turn
needs the types. `Inv` adds to both what `Counted` says of sockets with one end closed, where
the equation need not hold any more, and `RefsHeld`, that a page never tunes on a socket of
another page or one it has given up. `LimitKept` follows from `Mapped`: every socket the
gateway has open is in its map, and the map respects the limit. `SessionsOfTheirUser` follows
from `Owned`, which says of every place an answer passes - the call, the socket, the page -
that its session, if it still lasts, is leased to the user of that place. `OneSocketPerPage` and
`RejectedOnlyForItsPast` rest on `OneAtATime` (the socket a page refers to is the only one it has not
closed, and it reconnects only without one) and on `MapExact`, the converse of `Mapped`: whom
`canAccept()` turns away is turned away for sockets it has closed itself and the gateway still
counts, never for the one in use and never for another user's.

*WaterfallProofs* (`SizesAssumption`, `IdsAssumption`). `NeverAsleepOnWork` needs that a closed
queue means a `stop()` that is not over; `CallbacksAlive` that a line is under way only with the
mutex held and that clients have distinct ids (`Subscribed`). `StopAlwaysShrinks` is the safety half
of `StopEnds`: once no blocks come, `Remaining` goes down with each step of main and worker.

*Only model-checked*: all liveness (`Terminates`, `HandlersAnswer`,
`ShutdownCompletes`, `AnsweredUnlessOvertaken`, `Reconnects`, `CallsEnd`, `StopEnds`, `Settles`),
which is beyond this prover, as are inductions over data and ENABLED. Where a measure goes down
(`JoinsShrink`, `OperationsShrink`, `StopShrinks`) that part is proved, and TLC checks that fairness
takes the steps. *Only proved*, no run checks them: `WaterfallsBounded`, `SequentialLimit`, and the
theorems above that speak of special cases or have no property in a run (`KeptUntilClosed`, `OnlyRestartsUnlist`,
`RejectedForItsPast`, `JoinsBounded`, `OperationsShrink`, `StopShrinks`).

Four theorems tell when the disagreements of section 3 cannot occur, two of them for finding 3: they are
proved under a condition on the constants (one call or one handler at a time, no disconnects) or
on the steps (no restart of the registry), which the theorem states.

## 5. Not modelled, and the plan

Not modelled, and why:

* Samples and signal processing (floating point), formats of messages, logging, metrics, listings
  and lookups that only read, descriptors and other limits of the operating system (so neither the
  UDP descriptor a failed start leaves open).
* The registry's health route, which stores what it is told; the window id of a claim and the
  status, which follow the flag that is modelled.
* The data race on the emulator's configuration between PUT window and the other handlers:
  `ReceiverClient` has PUT window, with the handlers one at a time.
* A SIGTERM before the servers listen, which depends on the HTTP library.
* The gateway's audio and waterfall sockets (they say `ready` and no more), React's second mount in
  development builds, the web ui's health poll and its other panels, which keep no state that
  anything else depends on.
* Callbacks of the waterfall that unsubscribe themselves.
* The library under the gateway's sockets. `SessionGateway` takes the first argument of the handlers
  for a WebSocket, as every use of it in `apps/session-gateway/src/index.ts` does (`send`, `close`, `ping`,
  `on('message')`, and the declared type of `handleControlMessage`). `package.json` asks for
  `@fastify/websocket` `^8.3.0`; there is no lock file, and the library is not in the repository. Its releases
  before 10 are documented to pass a stream whose `socket` property is the WebSocket; under
  such a release these calls do not work and the gateway serves no page at all. The module
  models the handlers as they are written, for a release that passes the WebSocket itself.
* `wait.ts` of the harness (a poll with a deadline), the mocks, builders and scenarios (test data).

What is left, the most important first:

1. `RtlSdr` - start and stop against the external asynchronous read of librtlsdr: a cancellation that
   comes before the read has begun. The device class has no main program yet.
2. `Emulator` with the configuration and its data race.
3. Pure algorithms: the decimation phase over blocks, the bit reversal of the FFT.
