--------------------------- MODULE SessionGateway ---------------------------
(***************************************************************************)
(* The control sockets: the pages of apps/web-ui, apps/session-gateway,    *)
(* and the tune calls it makes to the scheduler.                           *)
(*                                                                         *)
(* A page opens one socket after another, under a user id of its own.  The *)
(* two ends of a socket learn of each other's steps late: a page may have  *)
(* given a socket up that the gateway still counts, and may talk to one    *)
(* that the gateway has closed.  Of the scheduler only its promise is kept *)
(* (SessionLeases): a tune call is refused or leases one new session.      *)
(*                                                                         *)
(* Pages send well-formed tune messages only, so the handler's answers to  *)
(* other messages are left out, and so are the audio and waterfall sockets,*)
(* which say `ready' and are not counted.  A page is left open.            *)
(***************************************************************************)
EXTENDS Naturals, Sequences, FiniteSets

CONSTANTS
    Pages,                 \* browser pages, each with a user id of its own
    Sockets,               \* sockets that exist at one time
    Requests,              \* tune calls of the gateway in flight at one time
    Sessions,              \* session identifiers
    MaxConnectionsPerUser, \* config.maxConnectionsPerUser
    MaxAwaited,            \* bound: answers that one page may lack
    MaxFaults,             \* bound: connections broken and gateways stopped
    Nobody                 \* no socket, no session

ASSUME LimitAssumption == MaxConnectionsPerUser \in Nat \ {0}
ASSUME BoundsAssumption == MaxAwaited \in Nat /\ MaxFaults \in Nat
ASSUME FiniteAssumption == IsFiniteSet(Sockets) /\ IsFiniteSet(Requests)
ASSUME NobodyAssumption == Nobody \notin Sockets \cup Sessions

VARIABLES
    (* the pages *)
    socketRef,        \* the socket of each page
    connected,        \* the page shows that it is connected
    reconnecting,     \* connect() is about to be called, at first or by its timer
    lastTuneResponse, \* the session the page shows
    (* between pages and gateway *)
    socket,           \* both ends of each socket, and what is under way on it
    (* the gateway *)
    running,          \* the process is up
    connections,      \* the ConnectionManager's map: the user of each socket it counts
    calls,            \* the tune calls whose handler is suspended
    (* the scheduler, and the world *)
    lease,            \* the user of each session
    faults

pageVars == <<socketRef, connected, reconnecting, lastTuneResponse>>
gatewayVars == <<running, connections>>
vars == <<pageVars, socket, gatewayVars, calls, lease, faults>>

Nothing == [x \in {} |-> {}]
With(f, k, v) == [x \in DOMAIN f \cup {k} |-> IF x = k THEN v ELSE f[x]]
Without(f, k) == [x \in DOMAIN f \ {k} |-> f[x]]

Answer == [type : {"tune_ok"}, session : Sessions]
              \cup [type : {"tune_error"}, session : {Nobody}]

\* client and server are what each end thinks; up counts tune messages on their
\* way, down holds the answers; awaited is how many answers the page lacks.
Socket ==
    [page : Pages, client : {"connecting", "open", "closed"},
     server : {"none", "open", "closed"},
     up : 0..MaxAwaited, down : Seq(Answer), awaited : 0..MaxAwaited]

\* A call goes on without a socket when the gateway that made it has stopped.
Call ==
    [socket : Sockets \cup {Nobody}, user : Pages,
     answer : Answer \cup {[type |-> "none", session |-> Nobody]}]

TypeOK ==
    /\ socketRef \in [Pages -> Sockets \cup {Nobody}]
    /\ connected \in [Pages -> BOOLEAN] /\ reconnecting \in [Pages -> BOOLEAN]
    /\ lastTuneResponse \in [Pages -> Sessions \cup {Nobody}]
    /\ faults \in 0..MaxFaults
    /\ DOMAIN socket \subseteq Sockets /\ \A s \in DOMAIN socket : socket[s] \in Socket
    /\ running \in BOOLEAN
    /\ DOMAIN connections \subseteq Sockets
    /\ \A s \in DOMAIN connections : connections[s] \in Pages
    /\ DOMAIN calls \subseteq Requests /\ \A r \in DOMAIN calls : calls[r] \in Call
    /\ DOMAIN lease \subseteq Sessions /\ \A n \in DOMAIN lease : lease[n] \in Pages

CallsOf(s) == {r \in DOMAIN calls : calls[r].socket = s}

\* A socket's name may be used again when neither end, nor a call, holds it.
Unused(s) == s \notin DOMAIN socket /\ CallsOf(s) = {}

\* So may a session's, when it is over and nobody has it in hands.
UnusedSession(n) ==
    /\ n \notin DOMAIN lease
    /\ \A p \in Pages : lastTuneResponse[p] # n
    /\ \A r \in DOMAIN calls : calls[r].answer.session # n
    /\ \A s \in DOMAIN socket :
           \A i \in 1..Len(socket[s].down) : socket[s].down[i].session # n

\* The sockets without those that neither end has any more.
Kept(f) ==
    [s \in {x \in DOMAIN f : f[x].client # "closed" \/ f[x].server = "open"} |-> f[s]]

\* canAccept()
CanAccept(p) ==
    Cardinality({s \in DOMAIN connections : connections[s] = p}) < MaxConnectionsPerUser

----------------------------------------------------------------------------

Init ==
    /\ socketRef = [p \in Pages |-> Nobody]
    /\ connected = [p \in Pages |-> FALSE]
    /\ reconnecting = [p \in Pages |-> TRUE]
    /\ lastTuneResponse = [p \in Pages |-> Nobody]
    /\ faults = 0
    /\ socket = Nothing
    /\ running = TRUE /\ connections = Nothing
    /\ calls = Nothing /\ lease = Nothing

(* The page: useControlSocket.                                             *)

Connect(p, s) ==
    /\ reconnecting[p] /\ Unused(s)
    /\ socketRef' = [socketRef EXCEPT ![p] = s]
    /\ reconnecting' = [reconnecting EXCEPT ![p] = FALSE]
    /\ socket' = With(socket, s, [page |-> p, client |-> "connecting", server |-> "none",
                                  up |-> 0, down |-> <<>>, awaited |-> 0])
    /\ UNCHANGED <<connected, lastTuneResponse, gatewayVars, calls, lease, faults>>

\* onopen: the handshake's answer has come, whatever the gateway did since.
Open(s) ==
    /\ s \in DOMAIN socket
    /\ socket[s].client = "connecting" /\ socket[s].server # "none"
    /\ socket' = [socket EXCEPT ![s].client = "open"]
    /\ connected' = [connected EXCEPT ![socket[s].page] = TRUE]
    /\ UNCHANGED <<socketRef, reconnecting, lastTuneResponse, gatewayVars, calls,
                   lease, faults>>

\* onclose, which starts the timer.  A closed socket is none.
OnClose(s) ==
    /\ socketRef' = [socketRef EXCEPT ![socket[s].page] = Nobody]
    /\ socket' = Kept([socket EXCEPT ![s].client = "closed", ![s].down = <<>>,
                                     ![s].awaited = 0])
    /\ connected' = [connected EXCEPT ![socket[s].page] = FALSE]
    /\ reconnecting' = [reconnecting EXCEPT ![socket[s].page] = TRUE]
    /\ UNCHANGED <<lastTuneResponse, gatewayVars, calls, lease>>

\* The page learns that the gateway has closed the socket, or is not there.
ClientCloses(s) ==
    /\ s \in DOMAIN socket /\ socket[s].client # "closed"
    /\ \/ socket[s].server = "closed"
       \/ socket[s].server = "none" /\ ~running
    /\ OnClose(s)
    /\ UNCHANGED faults

\* The connection breaks; the gateway does not know.
Break(s) ==
    /\ s \in DOMAIN socket /\ socket[s].client # "closed" /\ socket[s].server = "open"
    /\ faults < MaxFaults /\ faults' = faults + 1
    /\ OnClose(s)

Tune(p) ==
    LET s == socketRef[p]
    IN  /\ s # Nobody
        /\ socket[s].client = "open" /\ socket[s].awaited < MaxAwaited
        /\ socket' = [socket EXCEPT ![s].up = @ + 1, ![s].awaited = @ + 1]
        /\ UNCHANGED <<socketRef, connected, reconnecting, lastTuneResponse, gatewayVars,
                       calls, lease, faults>>

\* Mutant of Receive: the payload is kept whatever the type says.
ReceiveAny(s) ==
    /\ s \in DOMAIN socket /\ socket[s].client = "open" /\ socket[s].down # <<>>
    /\ lastTuneResponse' = [lastTuneResponse EXCEPT ![socket[s].page] = Head(socket[s].down).type]
    /\ socket' = [socket EXCEPT ![s].down = Tail(@), ![s].awaited = @ - 1]
    /\ UNCHANGED <<socketRef, connected, reconnecting, gatewayVars, calls, lease,
                   faults>>

\* onmessage: a refusal is not shown.
Receive(s) ==
    /\ s \in DOMAIN socket /\ socket[s].client = "open" /\ socket[s].down # <<>>
    /\ LET msg == Head(socket[s].down)
       IN  IF msg.type = "tune_ok"
           THEN lastTuneResponse' =
                    [lastTuneResponse EXCEPT ![socket[s].page] = msg.session]
           ELSE UNCHANGED lastTuneResponse
    /\ socket' = [socket EXCEPT ![s].down = Tail(@), ![s].awaited = @ - 1]
    /\ UNCHANGED <<socketRef, connected, reconnecting, gatewayVars, calls, lease,
                   faults>>

(* The gateway: the handler of /ws/control.                                *)

\* Mutant of Accept: off by one.
AcceptOneMore(s) ==
    /\ running /\ s \in DOMAIN socket
    /\ socket[s].client = "connecting" /\ socket[s].server = "none"
    /\ Cardinality({x \in DOMAIN connections : connections[x] = socket[s].page})
           <= MaxConnectionsPerUser
    /\ socket' = [socket EXCEPT ![s].server = "open"]
    /\ connections' = With(connections, s, socket[s].page)
    /\ UNCHANGED <<pageVars, running, calls, lease, faults>>

Accept(s) ==
    /\ running /\ s \in DOMAIN socket
    /\ socket[s].client = "connecting" /\ socket[s].server = "none"
    /\ CanAccept(socket[s].page)
    /\ socket' = [socket EXCEPT ![s].server = "open"]
    /\ connections' = With(connections, s, socket[s].page)
    /\ UNCHANGED <<pageVars, running, calls, lease, faults>>

\* Over the limit: close(1008), after a handshake that has succeeded.
Reject(s) ==
    /\ running /\ s \in DOMAIN socket
    /\ socket[s].client = "connecting" /\ socket[s].server = "none"
    /\ ~CanAccept(socket[s].page)
    /\ socket' = [socket EXCEPT ![s].server = "closed"]
    /\ UNCHANGED <<pageVars, gatewayVars, calls, lease, faults>>

\* Mutant of ServerCloses: the connection is never taken off the map.
ServerClosesOnly(s) ==
    /\ s \in DOMAIN socket
    /\ socket[s].client = "closed" /\ socket[s].server = "open"
    /\ socket' = Without(socket, s)
    /\ UNCHANGED <<pageVars, gatewayVars, calls, lease, faults>>

\* 'close', when the page's end is known to be gone.
ServerCloses(s) ==
    /\ s \in DOMAIN socket
    /\ socket[s].client = "closed" /\ socket[s].server = "open"
    /\ socket' = Without(socket, s)
    /\ connections' = Without(connections, s)
    /\ UNCHANGED <<pageVars, running, calls, lease, faults>>

\* 'message', up to the await on the scheduler.
HandleMessage(s, r) ==
    /\ s \in DOMAIN socket /\ socket[s].server = "open" /\ socket[s].up > 0
    /\ r \in Requests \ DOMAIN calls
    /\ socket' = [socket EXCEPT ![s].up = @ - 1]
    /\ calls' = With(calls, r, [socket |-> s, user |-> socket[s].page,
                                answer |-> [type |-> "none", session |-> Nobody]])
    /\ UNCHANGED <<pageVars, gatewayVars, lease, faults>>

Answered(r) == calls[r].answer.type # "none"

\* send() on a socket that is not open any more does nothing.
Sent(s, msg) ==
    IF s \in DOMAIN socket /\ socket[s].server = "open" /\ socket[s].client # "closed"
    THEN [socket EXCEPT ![s].down = Append(@, msg)]
    ELSE socket

\* Mutant of Respond: an answer that is not ok is not passed on.
RespondOk(r) ==
    /\ r \in DOMAIN calls /\ calls[r].socket # Nobody /\ Answered(r)
    /\ socket' = IF calls[r].answer.type = "tune_ok"
                 THEN Sent(calls[r].socket, calls[r].answer) ELSE socket
    /\ calls' = Without(calls, r)
    /\ UNCHANGED <<pageVars, gatewayVars, lease, faults>>

\* Mutant of Respond: the socket is a variable that another handler has set.
RespondToAnother(r) ==
    /\ r \in DOMAIN calls /\ calls[r].socket # Nobody /\ Answered(r)
    /\ \E s \in DOMAIN connections \cup {calls[r].socket} : socket' = Sent(s, calls[r].answer)
    /\ calls' = Without(calls, r)
    /\ UNCHANGED <<pageVars, gatewayVars, lease, faults>>

\* Mutant of Respond: only what is ok ends the call.
RespondWhenGranted(r) ==
    /\ r \in DOMAIN calls /\ calls[r].socket # Nobody
    /\ calls[r].answer.type = "tune_ok"
    /\ socket' = Sent(calls[r].socket, calls[r].answer)
    /\ calls' = Without(calls, r)
    /\ UNCHANGED <<pageVars, gatewayVars, lease, faults>>

\* The awaits are over.
Respond(r) ==
    /\ r \in DOMAIN calls /\ calls[r].socket # Nobody /\ Answered(r)
    /\ socket' = Sent(calls[r].socket, calls[r].answer)
    /\ calls' = Without(calls, r)
    /\ UNCHANGED <<pageVars, gatewayVars, lease, faults>>

\* What a process takes with it: the sockets, the map, and its suspended handlers.
GatewayStops ==
    /\ running /\ running' = FALSE
    /\ faults < MaxFaults /\ faults' = faults + 1
    /\ socket' = Kept([s \in DOMAIN socket |->
                          IF socket[s].server = "open"
                          THEN [socket[s] EXCEPT !.server = "closed", !.up = 0]
                          ELSE socket[s]])
    /\ connections' = Nothing
    /\ calls' = [r \in {x \in DOMAIN calls : ~Answered(x)} |->
                    [calls[r] EXCEPT !.socket = Nobody]]
    /\ UNCHANGED <<pageVars, lease>>

\* fetch, or the reading of its body, fails for a call: nothing catches it, and an
\* unhandled rejection ends the process and everybody's sockets.
UnhandledRejection(r) ==
    /\ r \in DOMAIN calls /\ calls[r].socket # Nobody
    /\ GatewayStops

Shutdown == GatewayStops

Start ==
    /\ ~running /\ running' = TRUE
    /\ UNCHANGED <<pageVars, socket, connections, calls, lease, faults>>

(* The scheduler answers, though the caller may be gone; anybody may close *)
(* a session through apps/control-api.                                     *)

\* The call with its answer, or without it if nobody waits.
Settled(r, msg) ==
    IF calls[r].socket = Nobody
    THEN Without(calls, r)
    ELSE [calls EXCEPT ![r].answer = msg]

Grant(r, n) ==
    /\ r \in DOMAIN calls /\ ~Answered(r) /\ UnusedSession(n)
    /\ lease' = With(lease, n, calls[r].user)
    /\ calls' = Settled(r, [type |-> "tune_ok", session |-> n])
    /\ UNCHANGED <<pageVars, socket, gatewayVars, faults>>

Refuse(r) ==
    /\ r \in DOMAIN calls /\ ~Answered(r)
    /\ calls' = Settled(r, [type |-> "tune_error", session |-> Nobody])
    /\ UNCHANGED <<pageVars, socket, gatewayVars, lease, faults>>

CloseSession(n) ==
    /\ n \in DOMAIN lease
    /\ lease' = Without(lease, n)
    /\ UNCHANGED <<pageVars, socket, gatewayVars, calls, faults>>

----------------------------------------------------------------------------

PageRuns(p) == \E s \in Sockets : Connect(p, s)
SocketRuns(s) == Open(s) \/ ClientCloses(s) \/ Receive(s) \/ Accept(s) \/ Reject(s)
                     \/ ServerCloses(s)
CallRuns(r) == (\E n \in Sessions : Grant(r, n)) \/ Refuse(r) \/ Respond(r)
Handles(s) == \E r \in Requests : HandleMessage(s, r)

Next ==
    \/ \E p \in Pages : PageRuns(p) \/ Tune(p)
    \/ \E s \in Sockets : SocketRuns(s) \/ Handles(s) \/ Break(s)
    \/ \E r \in Requests : CallRuns(r) \/ UnhandledRejection(r)
    \/ \E n \in Sessions : CloseSession(n)
    \/ Shutdown \/ Start

Spec == Init /\ [][Next]_vars

\* Timers fire and events are delivered; the gateway is restarted; a dead connection
\* is noticed in the end, since unanswered pings make TCP give it up.  That the
\* scheduler answers is assumed: its own call of the channel service has no timeout.
\* Nobody has to tune or close.
Fairness ==
    /\ \A p \in Pages : WF_vars(PageRuns(p))
    /\ \A s \in Sockets : WF_vars(SocketRuns(s)) /\ SF_vars(Handles(s))
    /\ \A r \in Requests : WF_vars(CallRuns(r))
    /\ WF_vars(Start)

FairSpec == Spec /\ Fairness

----------------------------------------------------------------------------

OpenSockets(p) == {s \in DOMAIN socket : socket[s].server = "open" /\ socket[s].page = p}

\* No user holds more of the gateway's sockets than the limit, whatever order the
\* two ends of old and new sockets come and go in.
SocketsWithinLimit ==
    \A p \in Pages : Cardinality(OpenSockets(p)) <= MaxConnectionsPerUser

\* As long as both ends of a socket are open, each answer the page lacks is on
\* its way somewhere: a message not read, a call not settled, an answer not read.
NothingLost ==
    \A s \in DOMAIN socket :
        socket[s].client = "open" /\ socket[s].server = "open" =>
            socket[s].awaited =
                socket[s].up + Cardinality(CallsOf(s)) + Len(socket[s].down)

\* A session that a page shows, while it lasts, is a lease of this page's user,
\* though answers of several users come back in any order and sockets change.
SessionsReachTheirUser ==
    \A p \in Pages :
        lastTuneResponse[p] \in DOMAIN lease => lease[lastTuneResponse[p]] = p

Linked(p) == connected[p] /\ socket[socketRef[p]].server = "open"

\* A page gets a socket that the gateway serves, in spite of a limit that old
\* sockets still count towards, and of gateways that end.
Reconnects == \A p \in Pages : []<>Linked(p)

\* No tune message stays with the gateway: every call ends, whatever the answer and
\* whatever became of its socket.  With NothingLost, the page then has an answer.
CallsEnd == \A r \in Requests : r \in DOMAIN calls ~> r \notin DOMAIN calls
============================================================================
