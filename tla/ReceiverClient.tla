--------------------------- MODULE ReceiverClient ---------------------------
(***************************************************************************)
(* The receiver SDK (packages/receiver-sdk) against a receiver backend:    *)
(* a program that uses one ReceiverHttpClient, one operation at a time,    *)
(* each inside withRetry, and the handlers of the receiver emulator.       *)
(*                                                                         *)
(* An attempt is given up when its timer fires or its connection fails;    *)
(* the backend learns nothing of that and may handle it later, after other *)
(* requests.  The handlers run one at a time here (Emulator interleaves    *)
(* them), and the backend is not restarted.  In the scenario `disconnect'  *)
(* a stream also ends by itself, which the backend goes on taking for one. *)
(*                                                                         *)
(* A configuration stands for centre frequency and sample rate.  Delays    *)
(* and window ids change nothing below and are left out; whether an error  *)
(* is worth another attempt (retryIf) is the program's choice.             *)
(***************************************************************************)
EXTENDS Naturals, Functions

CONSTANTS
    Configs,     \* configurations of a receiver window
    MaxAttempts, \* RetryOptions.maxAttempts
    MaxLate,     \* bound: requests that were given up and may still arrive at a time
    None         \* no request, no stream

ASSUME AttemptsAssumption == MaxAttempts \in Nat \ {0} /\ MaxLate \in Nat
ASSUME ConfigsAssumption == Configs # {} /\ Configs \cap {None, "stopped", "unknown"} = {}

VARIABLES
    (* the backend *)
    planned,   \* the scenario is `disconnect'
    config,    \* the configuration that the next stream gets
    streaming, \* the start route's flag
    stream,    \* the configuration of the stream that delivers, or None
    (* the client *)
    request,   \* the operation under way, or None
    attempt,   \* withRetry's attempt
    stage,     \* how far the attempt is
    status,    \* the HTTP status of its answer
    late,      \* how many requests of each kind were given up and may still arrive
    (* what the program knows, and what has happened behind its back *)
    applied,   \* the configuration that the last configureWindow reported
    expected,  \* what the last startStream, stopStream or releaseReceiver reported
    disturbed  \* which of the two a late request has changed since

backendVars == <<planned, config, streaming, stream>>
clientVars == <<request, attempt, stage, status>>
vars == <<backendVars, clientVars, late, applied, expected, disturbed>>

\* The client's methods, without those that only read (discoverReceivers,
\* getCapabilities, getHealth), which are like the claim, that changes nothing.
Request == [op : {"claim", "release", "start", "stop"}, config : {None}]
               \cup [op : {"configure"}, config : Configs]

ASSUME NoneAssumption == None \notin Request

TypeOK ==
    /\ planned \in BOOLEAN /\ streaming \in BOOLEAN
    /\ config \in Configs
    /\ stream \in Configs \cup {None}
    /\ request \in Request \cup {None}
    /\ attempt \in 1 .. MaxAttempts
    /\ stage \in {"idle", "sent", "lost", "answered", "body", "asleep"}
    /\ (stage = "idle") = (request = None)
    /\ status \in {200, 409}
    /\ late \in [Request -> Nat]
    /\ applied \in Configs \cup {"unknown"}
    /\ expected \in Configs \cup {"stopped", "unknown"}
    /\ disturbed \subseteq {"config", "stream"}

----------------------------------------------------------------------------

Init ==
    /\ planned \in BOOLEAN /\ config \in Configs /\ streaming = FALSE /\ stream = None
    /\ request = None /\ attempt = 1 /\ stage = "idle" /\ status = 200
    /\ late = [q \in Request |-> 0]
    /\ applied = "unknown" /\ expected = "stopped" /\ disturbed = {}

(* The backend.                                                            *)

\* What its handler for request q does, and the status it answers.  A stream that
\* ended by itself is still there to be stopped, and to refuse the next one.
Handler(q, answer) ==
    \/ q.op = "claim" /\ answer = 200 /\ UNCHANGED backendVars
    \/ /\ q.op = "configure" /\ answer = 200
       /\ config' = q.config
       /\ UNCHANGED <<planned, streaming, stream>>
    \/ /\ q.op \in {"stop", "release"} /\ answer = 200
       /\ streaming' = FALSE /\ stream' = None
       /\ UNCHANGED <<planned, config>>
    \/ /\ q.op = "start" /\ ~streaming /\ answer = 200
       /\ streaming' = TRUE /\ stream' = config
       /\ UNCHANGED <<planned, config>>
    \/ q.op = "start" /\ streaming /\ answer = 409 /\ UNCHANGED backendVars

\* The planned disconnect: the stream's loop breaks, and leaves running_ and the
\* flag as they are.
Disconnect ==
    /\ planned /\ stream # None
    /\ stream' = None
    /\ UNCHANGED <<planned, config, streaming, clientVars, late, applied, expected, disturbed>>

\* What the program can rely on again once its own request was handled.  A stream
\* is started with whatever configuration there is.
Settled(q, answer) ==
    CASE q.op = "configure" -> disturbed \ {"config"}
      [] q.op \in {"stop", "release"} -> disturbed \ {"stream"}
      [] q.op = "start" /\ answer = 200 ->
             (disturbed \ {"stream"}) \cup (IF "config" \in disturbed THEN {"stream"} ELSE {})
      [] OTHER -> disturbed

Handle ==
    /\ stage = "sent"
    /\ \E answer \in {200, 409} : /\ Handler(request, answer)
                                  /\ status' = answer
                                  /\ disturbed' = Settled(request, answer)
    /\ stage' = "answered"
    /\ UNCHANGED <<request, attempt, late, applied, expected>>

\* A request that the client has given up arrives after all.
HandleLate(q) ==
    /\ late[q] > 0
    /\ \E answer \in {200, 409} : Handler(q, answer)
    /\ late' = [late EXCEPT ![q] = @ - 1]
    /\ disturbed' = disturbed \cup (IF config' # config THEN {"config"} ELSE {})
                              \cup (IF <<streaming, stream>>' # <<streaming, stream>> THEN {"stream"} ELSE {})
    /\ UNCHANGED <<clientVars, applied, expected>>

(* The client.                                                             *)

Begin(q) ==
    /\ stage = "idle"
    /\ request' = q /\ attempt' = 1 /\ stage' = "sent"
    /\ UNCHANGED <<backendVars, status, late, applied, expected, disturbed>>

\* Nothing more will come of the attempt: request or answer is lost.
Lose ==
    /\ stage \in {"sent", "answered"}
    /\ stage' = "lost"
    /\ UNCHANGED <<backendVars, request, attempt, status, late, applied, expected, disturbed>>

Streaming == request.op \in {"start", "stop", "release"}

\* withRetry throws: the program does not know what became of its request.
Throw ==
    /\ request' = None /\ stage' = "idle"
    /\ applied' = IF request.op = "configure" THEN "unknown" ELSE applied
    /\ expected' = IF Streaming THEN "unknown" ELSE expected
    /\ UNCHANGED attempt

\* Mutant of Fail: one attempt more.
FailOneMore ==
    \/ attempt <= MaxAttempts /\ stage' = "asleep" /\ UNCHANGED <<request, attempt, applied, expected>>
    \/ Throw

\* An attempt fails: withRetry sleeps before the next one, or throws after the
\* last, or at once where retryIf says so.
Fail ==
    \/ attempt < MaxAttempts /\ stage' = "asleep" /\ UNCHANGED <<request, attempt, applied, expected>>
    \/ Throw

\* Mutant of Wake: the attempt is not counted.
WakeUncounted ==
    /\ stage = "asleep" /\ stage' = "sent"
    /\ UNCHANGED <<backendVars, request, attempt, status, late, applied, expected, disturbed>>

\* The sleep is over.
Wake ==
    /\ stage = "asleep"
    /\ stage' = "sent" /\ attempt' = attempt + 1
    /\ UNCHANGED <<backendVars, request, status, late, applied, expected, disturbed>>

\* The timer aborts the fetch, or the fetch fails by itself, before the headers of
\* an answer are in.  A request not handled by then may still be.
Abort ==
    /\ stage \in {"sent", "lost", "answered"}
    /\ Fail
    /\ \/ UNCHANGED late
       \/ /\ stage = "sent" /\ SumFunction(late) < MaxLate
          /\ late' = [late EXCEPT ![request] = @ + 1]
    /\ UNCHANGED <<backendVars, status, disturbed>>

\* The headers are in.  A status that is not ok throws, after the text was read;
\* otherwise the promise of the body is returned, and `finally' clears the timer.
Headers ==
    /\ stage = "answered"
    /\ \/ status = 200 /\ stage' = "body" /\ UNCHANGED <<request, attempt, applied, expected>>
       \/ status # 200 /\ Fail
    /\ UNCHANGED <<backendVars, status, late, disturbed>>

\* Mutant of Succeed: a stream is taken to have the configuration applied last.
SucceedApplied ==
    /\ request' = None /\ stage' = "idle"
    /\ applied' = IF request.op = "configure" THEN request.config ELSE applied
    /\ expected' = CASE request.op \in {"stop", "release"} -> "stopped"
                     [] request.op = "start" -> applied
                     [] request.op = "configure" /\ expected \in Configs -> request.config
                     [] OTHER -> expected
    /\ UNCHANGED attempt

\* The operation returns its result.
Succeed ==
    /\ request' = None /\ stage' = "idle"
    /\ applied' = IF request.op = "configure" THEN request.config ELSE applied
    /\ expected' = CASE request.op \in {"stop", "release"} -> "stopped"
                     [] request.op = "start" -> applied
                     [] OTHER -> expected
    /\ UNCHANGED attempt

\* The body arrives, or its connection fails: there is no timer any more, only
\* the limit of Node's HTTP client.
Body ==
    /\ stage = "body"
    /\ Succeed \/ Fail
    /\ UNCHANGED <<backendVars, status, late, disturbed>>

----------------------------------------------------------------------------

ClientRuns == Wake \/ Abort \/ Headers \/ Body

Next ==
    \/ \E q \in Request : Begin(q) \/ HandleLate(q)
    \/ Handle \/ Disconnect \/ Lose
    \/ ClientRuns

Spec == Init /\ [][Next]_vars

\* Timers fire and the event loop runs; nothing is assumed of network and backend.
Fairness == WF_vars(ClientRuns)

FairSpec == Spec /\ Fairness

----------------------------------------------------------------------------

\* What the operations reported is so, whatever was lost, aborted and retried in
\* between, until a request that was given up arrives late: nothing streams and the
\* next start is accepted, or the stream is there with the configuration reported
\* before its start, and delivers unless a planned disconnect ended it.  An
\* operation that threw reports nothing, and one under way not yet.
ReportsHold ==
    stage = "idle" =>
        /\ "config" \notin disturbed /\ applied # "unknown" => config = applied
        /\ "stream" \notin disturbed =>
               /\ expected = "stopped" => ~streaming /\ stream = None
               /\ expected \in Configs => /\ streaming
                                          /\ stream = expected \/ (planned /\ stream = None)

\* An operation returns or throws, although requests and answers get lost.
Settles == stage # "idle" ~> stage = "idle"
============================================================================
