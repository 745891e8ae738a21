------------------------ MODULE SessionGatewayProofs ------------------------
(***************************************************************************)
(* Proofs about the control sockets, for any number of pages, sockets and  *)
(* calls, any limit per user and any number of faults.                     *)
(***************************************************************************)
EXTENDS SessionGateway, FiniteSetTheorems, TLAPS

USE BoundsAssumption, NobodyAssumption

(* The strengthening.                                                      *)

\* What a page tunes on is a socket of its own, which it has not closed.
RefsHeld ==
    \A p \in Pages :
        socketRef[p] # Nobody =>
            /\ socketRef[p] \in DOMAIN socket
            /\ socket[socketRef[p]].page = p /\ socket[socketRef[p]].client # "closed"

\* Nothing is under way on a socket before it is open.
Silent(s) ==
    /\ socket[s].up = 0 /\ socket[s].down = <<>> /\ socket[s].awaited = 0
    /\ CallsOf(s) = {}

\* The count behind NothingLost, with what holds when one end is closed: there
\* the page may lack more answers than will come.
Counted(s) ==
    /\ socket[s].client = "connecting" => Silent(s)
    /\ socket[s].client = "closed" => socket[s].server = "open"
    /\ socket[s].server = "none" => socket[s].client = "connecting"
    /\ socket[s].server = "open" /\ socket[s].client # "closed" =>
           socket[s].awaited =
               socket[s].up + Cardinality(CallsOf(s)) + Len(socket[s].down)
    /\ socket[s].server = "closed" =>
           /\ CallsOf(s) = {}
           /\ socket[s].up + Len(socket[s].down) <= socket[s].awaited

Inv == TypeOK /\ RefsHeld /\ \A s \in DOMAIN socket : Counted(s)

\* There are finitely many calls of a socket, and a count of them is a number.
LEMMA CallsFinite ==
    ASSUME TypeOK, NEW s
    PROVE  IsFiniteSet(CallsOf(s)) /\ Cardinality(CallsOf(s)) \in Nat
<1>1. CallsOf(s) \in SUBSET Requests
  BY DEF CallsOf, TypeOK
<1> QED
  BY <1>1, FiniteAssumption, FS_Subset, FS_CardinalityType

\* No message on its way is uncounted, so their number has the page's bound.
LEMMA UpBounded ==
    ASSUME Inv, NEW s \in DOMAIN socket, socket[s].client = "open"
    PROVE  /\ socket[s].up + Len(socket[s].down) <= socket[s].awaited
           /\ socket[s].up \in Nat /\ Len(socket[s].down) \in Nat
<1>1. socket[s] \in Socket /\ s \in Sockets
  BY DEF Inv, TypeOK
<1>2. Len(socket[s].down) \in Nat
  BY <1>1 DEF Socket
<1> QED
  BY <1>1, <1>2, CallsFinite DEF Inv, Counted, Socket

----------------------------------------------------------------------------
(* Type correctness.                                                       *)

\* What the steps do to a socket leaves it a socket.
LEMMA UpTyped ==
    ASSUME NEW k \in Socket, NEW u \in 0..MaxAwaited
    PROVE  /\ [k EXCEPT !.up = u] \in Socket
           /\ [k EXCEPT !.server = "closed", !.up = u] \in Socket
BY DEF Socket

LEMMA TuneTyped ==
    ASSUME NEW k \in Socket, NEW u \in 0..MaxAwaited, NEW a \in 0..MaxAwaited
    PROVE  [k EXCEPT !.up = u, !.awaited = a] \in Socket
BY DEF Socket

LEMMA DownTyped ==
    ASSUME NEW k \in Socket, NEW d \in Seq(Answer)
    PROVE  [k EXCEPT !.down = d] \in Socket
BY DEF Socket

LEMMA CloseTyped ==
    ASSUME NEW k \in Socket
    PROVE  [k EXCEPT !.client = "closed", !.down = <<>>, !.awaited = 0] \in Socket
<1>1. \A d \in Seq(Answer), a \in 0..MaxAwaited :
          [k EXCEPT !.client = "closed", !.down = d, !.awaited = a] \in Socket
  BY DEF Socket
<1>2. <<>> \in Seq(Answer) /\ 0 \in 0..MaxAwaited
  OBVIOUS
<1> QED
  BY <1>1, <1>2

LEMMA TypeInit == Init => TypeOK
BY DEF Init, TypeOK, Nothing

LEMMA TypeNext == Inv /\ [Next]_vars => TypeOK'
<1> SUFFICES ASSUME Inv, [Next]_vars PROVE TypeOK'
  OBVIOUS
<1> USE DEF pageVars, gatewayVars
<1>t. TypeOK
  BY DEF Inv
<1>c. ASSUME NEW p \in Pages, NEW s \in Sockets, Connect(p, s) PROVE TypeOK'
  BY <1>c, <1>t DEF Connect, With, TypeOK, Socket
<1>tune. ASSUME NEW p \in Pages, Tune(p) PROVE TypeOK'
  <2> DEFINE s == socketRef[p]
  <2>1. s \in DOMAIN socket /\ socket[s].client = "open"
    BY <1>tune DEF Tune, Inv, RefsHeld
  <2>2. socket[s].up + 1 \in 0..MaxAwaited /\ socket[s].awaited + 1 \in 0..MaxAwaited
    BY <2>1, <1>t, <1>tune, UpBounded DEF Tune, TypeOK, Socket
  <2>3. socket' = [socket EXCEPT ![s].up = @ + 1, ![s].awaited = @ + 1]
    BY <1>tune DEF Tune
  <2> DEFINE rec == [socket[s] EXCEPT !.up = @ + 1, !.awaited = @ + 1]
  <2>4. rec \in Socket
    <3>1. socket[s] \in Socket
      BY <2>1, <1>t DEF TypeOK
    <3> QED
      BY <3>1, <2>2, TuneTyped
  <2>5. socket' = [socket EXCEPT ![s] = rec]
    BY <2>1, <2>3
  <2>6. DOMAIN socket' = DOMAIN socket /\ \A x \in DOMAIN socket' : socket'[x] \in Socket
    BY <2>1, <2>4, <2>5, <1>t DEF TypeOK
  <2> QED
    BY <2>6, <1>t, <1>tune DEF Tune, TypeOK
<1>open. ASSUME NEW s \in Sockets, Open(s) PROVE TypeOK'
  BY <1>open, <1>t, ZenonT(60) DEF Open, TypeOK, Socket
<1>close. ASSUME NEW s \in DOMAIN socket, OnClose(s), faults' \in 0..MaxFaults PROVE TypeOK'
  <2> DEFINE rec == [socket[s] EXCEPT !.client = "closed", !.down = <<>>, !.awaited = 0]
             closed == [socket EXCEPT ![s] = rec]
  <2>1. socket[s] \in Socket /\ rec \in Socket
    <3>1. socket[s] \in Socket
      BY <1>t DEF TypeOK
    <3> QED
      BY <3>1, CloseTyped
  <2>2. socket' = Kept(closed)
    BY <1>close DEF OnClose
  <2>3. /\ DOMAIN socket' \subseteq DOMAIN socket
        /\ \A x \in DOMAIN socket' : socket'[x] \in Socket
    BY <2>1, <2>2, <1>t DEF Kept, TypeOK
  <2> QED
    BY <2>1, <2>3, <1>close, <1>t DEF OnClose, TypeOK, Socket
<1>cc. ASSUME NEW s \in Sockets, ClientCloses(s) PROVE TypeOK'
  BY <1>cc, <1>close, <1>t DEF ClientCloses, TypeOK
<1>break. ASSUME NEW s \in Sockets, Break(s) PROVE TypeOK'
  BY <1>break, <1>close, <1>t DEF Break, TypeOK
<1>recv. ASSUME NEW s \in Sockets, Receive(s) PROVE TypeOK'
  <2>1. s \in DOMAIN socket /\ socket[s].client = "open" /\ socket[s].down # <<>>
    BY <1>recv DEF Receive
  <2>2. socket[s] \in Socket /\ socket[s].down \in Seq(Answer)
    BY <2>1, <1>t DEF TypeOK, Socket
  <2>3. /\ Head(socket[s].down) \in Answer /\ Tail(socket[s].down) \in Seq(Answer)
        /\ Len(socket[s].down) >= 1
    BY <2>1, <2>2
  <2>4. socket[s].awaited - 1 \in 0..MaxAwaited
    BY <2>1, <2>2, <2>3, UpBounded DEF Socket
  <2>5. socket' = [socket EXCEPT ![s].down = Tail(@), ![s].awaited = @ - 1]
    BY <1>recv DEF Receive
  <2>6. \A x \in DOMAIN socket' : socket'[x] \in Socket
    BY <2>1, <2>2, <2>3, <2>4, <2>5, <1>t DEF TypeOK, Socket
  <2>7. lastTuneResponse' \in [Pages -> Sessions \cup {Nobody}]
    BY <2>2, <2>3, <1>recv, <1>t DEF Receive, TypeOK, Answer, Socket
  <2> QED
    BY <2>5, <2>6, <2>7, <1>recv, <1>t DEF Receive, TypeOK
<1>acc. ASSUME NEW s \in Sockets, Accept(s) PROVE TypeOK'
  BY <1>acc, <1>t, ZenonT(60) DEF Accept, With, TypeOK, Socket
<1>rej. ASSUME NEW s \in Sockets, Reject(s) PROVE TypeOK'
  BY <1>rej, <1>t, ZenonT(60) DEF Reject, TypeOK, Socket
<1>sc. ASSUME NEW s \in Sockets, ServerCloses(s) PROVE TypeOK'
  BY <1>sc, <1>t DEF ServerCloses, Without, TypeOK
<1>hm. ASSUME NEW s \in Sockets, NEW r \in Requests, HandleMessage(s, r) PROVE TypeOK'
  <2> DEFINE call == [socket |-> s, user |-> socket[s].page,
                      answer |-> [type |-> "none", session |-> Nobody]]
  <2>1. socket[s] \in Socket /\ [socket[s] EXCEPT !.up = @ - 1] \in Socket /\ call \in Call
    <3>1. socket[s] \in Socket
      BY <1>hm, <1>t DEF HandleMessage, TypeOK
    <3>2. socket[s].up - 1 \in 0..MaxAwaited /\ socket[s].page \in Pages
      BY <3>1, <1>hm DEF HandleMessage, Socket
    <3>3. call \in Call
      BY <3>2 DEF Call
    <3> QED
      BY <3>1, <3>2, <3>3, UpTyped
  <2>2. socket' = [socket EXCEPT ![s] = [socket[s] EXCEPT !.up = @ - 1]]
    BY <1>hm DEF HandleMessage
  <2>3. DOMAIN socket' = DOMAIN socket /\ \A x \in DOMAIN socket' : socket'[x] \in Socket
    BY <2>1, <2>2, <1>t DEF TypeOK
  <2>4. calls' = With(calls, r, call)
    BY <1>hm DEF HandleMessage
  <2>5. DOMAIN calls' \subseteq Requests /\ \A x \in DOMAIN calls' : calls'[x] \in Call
    BY <2>1, <2>4, <1>t DEF With, TypeOK
  <2> QED
    BY <2>3, <2>5, <1>hm, <1>t DEF HandleMessage, TypeOK
<1>resp. ASSUME NEW r \in Requests, Respond(r) PROVE TypeOK'
  <2> DEFINE s == calls[r].socket
             msg == calls[r].answer
  <2>1. r \in DOMAIN calls /\ msg \in Answer
    BY <1>resp, <1>t DEF Respond, Answered, TypeOK, Call, Answer
  <2>2. \A x \in DOMAIN socket' : socket'[x] \in Socket
    <3>1. CASE s \in DOMAIN socket /\ socket[s].server = "open" /\ socket[s].client # "closed"
      <4>1. socket' = [socket EXCEPT ![s].down = Append(@, msg)]
        BY <3>1, <1>resp DEF Respond, Sent
      <4>2. Append(socket[s].down, msg) \in Seq(Answer)
        BY <3>1, <2>1, <1>t DEF TypeOK, Socket
      <4>3. [socket[s] EXCEPT !.down = Append(@, msg)] \in Socket
        <5>1. socket[s] \in Socket
          BY <3>1, <1>t DEF TypeOK
        <5> QED
          BY <5>1, <4>2, DownTyped
      <4>4. socket' = [socket EXCEPT ![s] = [socket[s] EXCEPT !.down = Append(@, msg)]]
        BY <4>1
      <4> QED
        BY <3>1, <4>3, <4>4, <1>t DEF TypeOK
    <3>2. CASE ~(s \in DOMAIN socket /\ socket[s].server = "open" /\ socket[s].client # "closed")
      BY <3>2, <1>resp, <1>t DEF Respond, Sent, TypeOK
    <3> QED
      BY <3>1, <3>2
  <2>3. DOMAIN socket' = DOMAIN socket
    BY <1>resp DEF Respond, Sent
  <2> QED
    BY <2>2, <2>3, <1>resp, <1>t DEF Respond, Without, TypeOK
<1>stop. CASE GatewayStops
  <2>1. /\ DOMAIN socket' \subseteq DOMAIN socket
        /\ \A x \in DOMAIN socket' :
               socket'[x] = IF socket[x].server = "open"
                            THEN [socket[x] EXCEPT !.server = "closed", !.up = 0]
                            ELSE socket[x]
    BY <1>stop DEF GatewayStops, Kept
  <2>2. \A x \in DOMAIN socket : [socket[x] EXCEPT !.server = "closed", !.up = 0] \in Socket
    <3>1. 0 \in 0..MaxAwaited
      OBVIOUS
    <3>2. \A x \in DOMAIN socket : socket[x] \in Socket
      BY <1>t DEF TypeOK
    <3> QED
      BY <3>1, <3>2, UpTyped
  <2>3. \A x \in DOMAIN socket' : socket'[x] \in Socket
    <3>1. \A x \in DOMAIN socket : socket[x] \in Socket
      BY <1>t DEF TypeOK
    <3> QED
      BY <2>1, <2>2, <3>1, Zenon
  <2>4. DOMAIN calls' \subseteq DOMAIN calls
        /\ \A x \in DOMAIN calls' : calls'[x] = [calls[x] EXCEPT !.socket = Nobody]
    BY <1>stop DEF GatewayStops
  <2>5. \A x \in DOMAIN calls' : calls'[x] \in Call
    BY <2>4, <1>t DEF TypeOK, Call
  <2> QED
    <3>1. /\ connections' = Nothing /\ running' = FALSE /\ faults' = faults + 1
          /\ faults < MaxFaults /\ UNCHANGED <<pageVars, lease>>
      BY <1>stop DEF GatewayStops
    <3>2. DOMAIN socket' \subseteq Sockets /\ DOMAIN calls' \subseteq Requests
      BY <2>1, <2>4, <1>t DEF TypeOK
    <3>3. faults' \in 0..MaxFaults
      BY <3>1, <1>t, SMTT(30) DEF TypeOK
    <3> QED
      BY <2>3, <2>5, <3>1, <3>2, <3>3, <1>t DEF Nothing, TypeOK
<1>start. CASE Start
  BY <1>start, <1>t DEF Start, TypeOK
<1>grant. ASSUME NEW r \in Requests, NEW n \in Sessions, Grant(r, n) PROVE TypeOK'
  BY <1>grant, <1>t DEF Grant, Settled, With, Without, TypeOK, Call, Answer
<1>refuse. ASSUME NEW r \in Requests, Refuse(r) PROVE TypeOK'
  BY <1>refuse, <1>t DEF Refuse, Settled, Without, TypeOK, Call, Answer
<1>cs. ASSUME NEW n \in Sessions, CloseSession(n) PROVE TypeOK'
  BY <1>cs, <1>t DEF CloseSession, Without, TypeOK
<1>u. CASE UNCHANGED vars
  BY <1>u, <1>t DEF vars, TypeOK
<1> QED
  BY <1>c, <1>tune, <1>open, <1>cc, <1>break, <1>recv, <1>acc, <1>rej, <1>sc, <1>hm,
     <1>resp, <1>stop, <1>start, <1>grant, <1>refuse, <1>cs, <1>u
  DEF Next, PageRuns, SocketRuns, CallRuns, Handles, UnhandledRejection, Shutdown

----------------------------------------------------------------------------
(* The pages' references.                                                  *)

LEMMA RefsNext == Inv /\ [Next]_vars => RefsHeld'
<1> SUFFICES ASSUME Inv, [Next]_vars, NEW p \in Pages, socketRef'[p] # Nobody
             PROVE  /\ socketRef'[p] \in DOMAIN socket'
                    /\ socket'[socketRef'[p]].page = p
                    /\ socket'[socketRef'[p]].client # "closed"
  BY DEF RefsHeld
<1> USE DEF pageVars, gatewayVars
<1>t. TypeOK /\ RefsHeld
  BY DEF Inv
<1>c. ASSUME NEW q \in Pages, NEW s \in Sockets, Connect(q, s)
      PROVE  RefsHeld'
  BY <1>c, <1>t DEF Connect, Unused, With, TypeOK, RefsHeld
<1>tune. ASSUME NEW q \in Pages, Tune(q) PROVE RefsHeld'
  BY <1>tune, <1>t DEF Tune, TypeOK, RefsHeld
<1>open. ASSUME NEW s \in Sockets, Open(s) PROVE RefsHeld'
  BY <1>open, <1>t DEF Open, TypeOK, RefsHeld
<1>close. ASSUME NEW s \in DOMAIN socket, OnClose(s) PROVE RefsHeld'
  BY <1>close, <1>t DEF OnClose, Kept, TypeOK, RefsHeld, Socket
<1>recv. ASSUME NEW s \in Sockets, Receive(s) PROVE RefsHeld'
  BY <1>recv, <1>t DEF Receive, TypeOK, RefsHeld
<1>acc. ASSUME NEW s \in Sockets, Accept(s) \/ Reject(s) PROVE RefsHeld'
  <2>1. /\ s \in DOMAIN socket /\ socketRef' = socketRef
        /\ \E e \in {"open", "closed"} : socket' = [socket EXCEPT ![s].server = e]
    BY <1>acc DEF Accept, Reject
  <2>2. /\ DOMAIN socket' = DOMAIN socket
        /\ \A x \in DOMAIN socket : /\ socket'[x].page = socket[x].page
                                   /\ socket'[x].client = socket[x].client
    BY <2>1, <1>t DEF TypeOK, Socket
  <2> QED
    BY <2>1, <2>2, <1>t DEF RefsHeld
<1>sc. ASSUME NEW s \in Sockets, ServerCloses(s) PROVE RefsHeld'
  BY <1>sc, <1>t DEF ServerCloses, Without, TypeOK, RefsHeld
<1>hm. ASSUME NEW s \in Sockets, NEW r \in Requests, HandleMessage(s, r) PROVE RefsHeld'
  BY <1>hm, <1>t DEF HandleMessage, TypeOK, RefsHeld
<1>resp. ASSUME NEW r \in Requests, Respond(r) PROVE RefsHeld'
  BY <1>resp, <1>t DEF Respond, Sent, TypeOK, RefsHeld
<1>stop. ASSUME GatewayStops PROVE RefsHeld'
  <2>1. /\ socketRef' = socketRef
        /\ \A x \in DOMAIN socket' :
               /\ x \in DOMAIN socket
               /\ socket'[x] = IF socket[x].server = "open"
                               THEN [socket[x] EXCEPT !.server = "closed", !.up = 0]
                               ELSE socket[x]
        /\ \A x \in DOMAIN socket : socket[x].client # "closed" => x \in DOMAIN socket'
    <3>1. \A x \in DOMAIN socket :
              [socket[x] EXCEPT !.server = "closed", !.up = 0].client = socket[x].client
      BY <1>t DEF TypeOK, Socket
    <3> QED
      BY <1>stop, <3>1 DEF GatewayStops, Kept
  <2>2. \A x \in DOMAIN socket' : /\ socket'[x].page = socket[x].page
                                 /\ socket'[x].client = socket[x].client
    BY <2>1, <1>t DEF TypeOK, Socket
  <2> QED
    BY <2>1, <2>2, <1>t DEF RefsHeld
<1>rest. ASSUME UNCHANGED <<socketRef, socket>> PROVE RefsHeld'
  BY <1>rest, <1>t DEF RefsHeld
<1>closes. ASSUME NEW s \in Sockets, ClientCloses(s) \/ Break(s) PROVE RefsHeld'
  BY <1>closes, <1>close DEF ClientCloses, Break
<1>answer. ASSUME NEW r \in Requests, (\E n \in Sessions : Grant(r, n)) \/ Refuse(r)
           PROVE  RefsHeld'
  BY <1>answer, <1>rest DEF Grant, Refuse
<1>other. ASSUME Start \/ (\E n \in Sessions : CloseSession(n)) \/ UNCHANGED vars
          PROVE  RefsHeld'
  BY <1>other, <1>rest DEF Start, CloseSession, vars
<1>n. RefsHeld'
  BY <1>c, <1>tune, <1>open, <1>closes, <1>recv, <1>acc, <1>sc, <1>hm, <1>resp, <1>stop,
     <1>answer, <1>other
  DEF Next, PageRuns, SocketRuns, CallRuns, Handles, UnhandledRejection, Shutdown
<1> QED
  BY <1>n DEF RefsHeld

----------------------------------------------------------------------------
(* Nothing is lost.                                                        *)

\* A step that leaves a socket and its calls alone leaves its count alone.
LEMMA CountedKept ==
    ASSUME NEW x, Counted(x), socket'[x] = socket[x], CallsOf(x)' = CallsOf(x)
    PROVE  Counted(x)'
BY DEF Counted, Silent

\* A tune message and its answer are counted once in every place they come to.
Sums(a, u, c, l) == a \in Nat /\ u \in Nat /\ c \in Nat /\ l \in Nat /\ a = u + c + l

LEMMA SumMoves ==
    ASSUME NEW a, NEW u, NEW c, NEW l, Sums(a, u, c, l)
    PROVE  /\ Sums(a + 1, u + 1, c, l)
           /\ u > 0 => Sums(a, u - 1, c + 1, l)
           /\ c > 0 => Sums(a, u, c - 1, l + 1)
           /\ l > 0 => Sums(a - 1, u, c, l - 1)
BY DEF Sums

\* What the count comes to when the page's end is open.
LEMMA CountedOpen ==
    ASSUME NEW s, socket'[s].client = "open",
           \/ /\ socket'[s].server = "open"
              /\ Sums(socket'[s].awaited, socket'[s].up, Cardinality(CallsOf(s)'),
                      Len(socket'[s].down))
           \/ /\ socket'[s].server = "closed" /\ CallsOf(s)' = {}
              /\ socket'[s].up + Len(socket'[s].down) <= socket'[s].awaited
    PROVE  Counted(s)'
BY DEF Counted, Sums

LEMMA CountsNext == Inv /\ [Next]_vars => \A x \in DOMAIN socket' : Counted(x)'
<1> SUFFICES ASSUME Inv, [Next]_vars, NEW x \in DOMAIN socket' PROVE Counted(x)'
  OBVIOUS
<1> USE DEF pageVars, gatewayVars
<1>t. TypeOK /\ RefsHeld /\ \A y \in DOMAIN socket : Counted(y)
  BY DEF Inv
<1>0. Cardinality({}) = 0
  BY FS_EmptySet
<1>c. ASSUME NEW p \in Pages, NEW s \in Sockets, Connect(p, s) PROVE Counted(x)'
  <2>1. CallsOf(x)' = CallsOf(x)
    BY <1>c DEF Connect, CallsOf
  <2>2. CASE x = s
    BY <2>1, <2>2, <1>c DEF Connect, Unused, With, Counted, Silent
  <2>3. CASE x # s
    <3>1. x \in DOMAIN socket /\ socket'[x] = socket[x]
      BY <2>3, <1>c DEF Connect, With
    <3> QED
      BY <3>1, <2>1, <1>t, CountedKept
  <2> QED
    BY <2>2, <2>3
<1>same. ASSUME UNCHANGED <<socket, calls>> PROVE Counted(x)'
  BY <1>same, <1>t, CountedKept DEF CallsOf
<1>tune. ASSUME NEW p \in Pages, Tune(p) PROVE Counted(x)'
  <2> PICK s : s = socketRef[p]
    OBVIOUS
  <2>1. CallsOf(x)' = CallsOf(x) /\ s \in DOMAIN socket /\ socket[s].client = "open"
    BY <1>tune, <1>t DEF Tune, CallsOf, RefsHeld
  <2>2. socket' = [socket EXCEPT ![s].up = @ + 1, ![s].awaited = @ + 1]
    BY <1>tune DEF Tune
  <2>3. CASE x = s
    <3>1. socket[s] \in Socket /\ Counted(s) /\ Cardinality(CallsOf(s)) \in Nat
      BY <2>1, <1>t, CallsFinite DEF TypeOK
    <3>2. /\ socket'[s].up = socket[s].up + 1 /\ socket'[s].awaited = socket[s].awaited + 1
          /\ socket'[s].down = socket[s].down /\ socket'[s].client = "open"
          /\ socket'[s].server = socket[s].server
      BY <2>1, <2>2, <3>1 DEF Socket
    <3>3. Len(socket[s].down) \in Nat /\ socket[s].up \in Nat /\ socket[s].awaited \in Nat
      BY <3>1 DEF Socket
    <3>4. CallsOf(s)' = CallsOf(s)
      BY <2>1, <2>3
    <3>5. \/ /\ socket[s].server = "open"
             /\ socket[s].awaited =
                    socket[s].up + Cardinality(CallsOf(s)) + Len(socket[s].down)
          \/ /\ socket[s].server = "closed" /\ CallsOf(s) = {}
             /\ socket[s].up + Len(socket[s].down) <= socket[s].awaited
      BY <2>1, <3>1 DEF Counted, Socket
    <3>6. CASE socket[s].server = "open"
      <4>1. Sums(socket'[s].awaited, socket'[s].up, Cardinality(CallsOf(s)'),
                 Len(socket'[s].down))
        <5>1. Sums(socket[s].awaited, socket[s].up, Cardinality(CallsOf(s)),
                   Len(socket[s].down))
          BY <3>1, <3>3, <3>5, <3>6 DEF Sums
        <5>2. Sums(socket[s].awaited + 1, socket[s].up + 1, Cardinality(CallsOf(s)),
                   Len(socket[s].down))
          BY <5>1, SumMoves
        <5> QED
          BY <5>2, <3>2, <3>4
      <4> QED
        BY <2>3, <3>2, <3>6, <4>1, CountedOpen
    <3>7. CASE socket[s].server = "closed"
      <4>1. socket'[s].up + Len(socket'[s].down) <= socket'[s].awaited
        BY <3>2, <3>3, <3>5, <3>7
      <4> QED
        BY <2>3, <3>2, <3>4, <3>5, <3>7, <4>1, CountedOpen
    <3> QED
      BY <3>5, <3>6, <3>7
  <2>4. CASE x # s
    BY <2>1, <2>2, <2>4, <1>t, CountedKept
  <2> QED
    BY <2>3, <2>4
<1>open. ASSUME NEW s \in Sockets, Open(s) PROVE Counted(x)'
  <2>1. /\ CallsOf(x)' = CallsOf(x) /\ s \in DOMAIN socket /\ Silent(s) /\ Counted(s)
        /\ socket[s].server # "none"
    BY <1>open, <1>t DEF Open, CallsOf, Counted
  <2>2. socket' = [socket EXCEPT ![s].client = "open"] /\ socket[s] \in Socket
    BY <2>1, <1>open, <1>t DEF Open, TypeOK
  <2>3. CASE x = s
    BY <2>1, <2>2, <2>3, <1>open DEF Open, Counted, Socket
  <2>4. CASE x # s
    BY <2>1, <2>2, <2>4, <1>t, CountedKept
  <2> QED
    BY <2>3, <2>4
<1>close. ASSUME NEW s \in DOMAIN socket, OnClose(s) PROVE Counted(x)'
  <2>1. CallsOf(x)' = CallsOf(x) /\ x \in DOMAIN socket /\ socket[s] \in Socket
    BY <1>close, <1>t DEF OnClose, Kept, CallsOf, TypeOK
  <2>2. CASE x = s
    <3>1. socket'[s].client = "closed" /\ socket'[s].server = "open"
      BY <2>1, <2>2, <1>close DEF OnClose, Kept, Socket
    <3> QED
      BY <3>1, <2>2 DEF Counted
  <2>3. CASE x # s
    <3>1. socket'[x] = socket[x]
      BY <2>1, <2>3, <1>close DEF OnClose, Kept
    <3> QED
      BY <3>1, <2>1, <1>t, CountedKept
  <2> QED
    BY <2>2, <2>3
<1>recv. ASSUME NEW s \in Sockets, Receive(s) PROVE Counted(x)'
  <2>1. /\ CallsOf(x)' = CallsOf(x) /\ s \in DOMAIN socket /\ Counted(s)
        /\ socket[s] \in Socket /\ socket[s].client = "open" /\ socket[s].down # <<>>
        /\ socket' = [socket EXCEPT ![s].down = Tail(@), ![s].awaited = @ - 1]
    BY <1>recv, <1>t DEF Receive, CallsOf, TypeOK
  <2>2. CASE x = s
    <3>1. /\ socket'[s].down = Tail(socket[s].down) /\ socket'[s].awaited = socket[s].awaited - 1
          /\ socket'[s].up = socket[s].up /\ socket'[s].client = "open"
          /\ socket'[s].server = socket[s].server
      BY <2>1 DEF Socket
    <3>2. socket[s].down \in Seq(Answer) /\ socket[s].up \in Nat /\ socket[s].awaited \in Nat
      BY <2>1 DEF Socket
    <3>3. /\ Len(Tail(socket[s].down)) = Len(socket[s].down) - 1
          /\ Len(socket[s].down) \in Nat
      BY <3>2, <2>1
    <3>l. Len(socket[s].down) > 0
      BY <3>2, <2>1
    <3>4. Cardinality(CallsOf(s)) \in Nat
      BY <1>t, CallsFinite
    <3>5. CallsOf(s)' = CallsOf(s)
      BY <2>1, <2>2
    <3>6. \/ /\ socket[s].server = "open"
             /\ socket[s].awaited =
                    socket[s].up + Cardinality(CallsOf(s)) + Len(socket[s].down)
          \/ /\ socket[s].server = "closed" /\ CallsOf(s) = {}
             /\ socket[s].up + Len(socket[s].down) <= socket[s].awaited
      BY <2>1 DEF Counted, Socket
    <3>7. CASE socket[s].server = "open"
      <4>1. Sums(socket'[s].awaited, socket'[s].up, Cardinality(CallsOf(s)'),
                 Len(socket'[s].down))
        <5>1. Sums(socket[s].awaited, socket[s].up, Cardinality(CallsOf(s)),
                   Len(socket[s].down))
          BY <3>2, <3>3, <3>4, <3>6, <3>7 DEF Sums
        <5>2. Sums(socket[s].awaited - 1, socket[s].up, Cardinality(CallsOf(s)),
                   Len(socket[s].down) - 1)
          BY <5>1, SumMoves, <3>3, <3>l
        <5> QED
          BY <5>2, <3>1, <3>3, <3>5
      <4> QED
        BY <2>2, <3>1, <3>7, <4>1, CountedOpen
    <3>8. CASE socket[s].server = "closed"
      <4>1. socket[s].up + Len(socket[s].down) <= socket[s].awaited
        BY <3>6, <3>8
      <4>2. socket[s].up + (Len(socket[s].down) - 1) <= socket[s].awaited - 1
        BY <4>1, <3>2, <3>3
      <4>3. socket'[s].up + Len(socket'[s].down) <= socket'[s].awaited
        BY <4>2, <3>1, <3>3
      <4> QED
        BY <2>2, <3>1, <3>5, <3>6, <3>8, <4>3, CountedOpen
    <3> QED
      BY <3>6, <3>7, <3>8
  <2>3. CASE x # s
    BY <2>1, <2>3, <1>t, CountedKept
  <2> QED
    BY <2>2, <2>3
<1>acc. ASSUME NEW s \in Sockets, Accept(s) \/ Reject(s) PROVE Counted(x)'
  <2>a. /\ CallsOf(x)' = CallsOf(x) /\ s \in DOMAIN socket
        /\ socket[s].client = "connecting"
        /\ \E e \in {"open", "closed"} : socket' = [socket EXCEPT ![s].server = e]
    BY <1>acc DEF Accept, Reject, CallsOf
  <2>b. socket[s] \in Socket /\ Silent(s)
    BY <2>a, <1>t DEF TypeOK, Counted
  <2>1. /\ CallsOf(x)' = CallsOf(x) /\ s \in DOMAIN socket /\ Silent(s)
        /\ socket[s] \in Socket /\ socket[s].client = "connecting"
        /\ \E e \in {"open", "closed"} : socket' = [socket EXCEPT ![s].server = e]
    BY <2>a, <2>b
  <2>2. CASE x = s
    <3>1. /\ socket'[s].up = 0 /\ socket'[s].down = <<>> /\ socket'[s].awaited = 0
          /\ CallsOf(s)' = {} /\ socket'[s].client = "connecting"
          /\ socket'[s].server \in {"open", "closed"}
      BY <2>1, <2>2 DEF Silent, Socket
    <3> QED
      BY <2>2, <3>1, <1>0 DEF Counted, Silent
  <2>3. CASE x # s
    BY <2>1, <2>3, <1>t, CountedKept
  <2> QED
    BY <2>2, <2>3
<1>sc. ASSUME NEW s \in Sockets, ServerCloses(s) PROVE Counted(x)'
  <2>1. CallsOf(x)' = CallsOf(x) /\ x \in DOMAIN socket /\ socket'[x] = socket[x]
    BY <1>sc DEF ServerCloses, Without, CallsOf
  <2> QED
    BY <2>1, <1>t, CountedKept
<1>hm. ASSUME NEW s \in Sockets, NEW r \in Requests, HandleMessage(s, r) PROVE Counted(x)'
  <2>1. /\ s \in DOMAIN socket /\ socket[s].server = "open" /\ socket[s].up > 0
        /\ Counted(s) /\ socket[s] \in Socket /\ r \notin DOMAIN calls
        /\ socket' = [socket EXCEPT ![s].up = @ - 1]
    BY <1>hm, <1>t DEF HandleMessage, TypeOK
  <2>2. /\ DOMAIN calls' = DOMAIN calls \cup {r} /\ calls'[r].socket = s
        /\ \A q \in DOMAIN calls : calls'[q] = calls[q]
    BY <2>1, <1>hm DEF HandleMessage, With
  <2>3. CASE x = s
    <3>1. CallsOf(s)' = CallsOf(s) \cup {r} /\ r \notin CallsOf(s)
      BY <2>1, <2>2 DEF CallsOf
    <3>2. Cardinality(CallsOf(s)') = Cardinality(CallsOf(s)) + 1
      <4>1. IsFiniteSet(CallsOf(s))
        BY <1>t, CallsFinite
      <4>2. Cardinality(CallsOf(s) \cup {r}) = Cardinality(CallsOf(s)) + 1
        BY <3>1, <4>1, FS_AddElement
      <4> QED
        BY <3>1, <4>2, Zenon
    <3>3. /\ socket'[s].up = socket[s].up - 1 /\ socket'[s].awaited = socket[s].awaited
          /\ socket'[s].down = socket[s].down /\ socket'[s].client = socket[s].client
          /\ socket'[s].server = "open"
      BY <2>1 DEF Socket
    <3>4. Len(socket[s].down) \in Nat /\ socket[s].up \in Nat /\ socket[s].awaited \in Nat
      BY <2>1 DEF Socket
    <3>5. Cardinality(CallsOf(s)) \in Nat
      BY <1>t, CallsFinite
    <3>6. socket[s].client \in {"open", "closed"}
      BY <2>1, <3>4 DEF Counted, Silent, Socket
    <3>7. CASE socket[s].client = "closed"
      BY <2>3, <3>3, <3>7 DEF Counted
    <3>8. CASE socket[s].client = "open"
      <4>1. socket[s].awaited =
                socket[s].up + Cardinality(CallsOf(s)) + Len(socket[s].down)
        BY <2>1, <3>8 DEF Counted
      <4>2. Sums(socket'[s].awaited, socket'[s].up, Cardinality(CallsOf(s)'),
                 Len(socket'[s].down))
        <5>1. Sums(socket[s].awaited, socket[s].up, Cardinality(CallsOf(s)),
                   Len(socket[s].down))
          BY <3>4, <3>5, <4>1 DEF Sums
        <5>2. Sums(socket[s].awaited, socket[s].up - 1, Cardinality(CallsOf(s)) + 1,
                   Len(socket[s].down))
          BY <5>1, SumMoves, <2>1
        <5> QED
          BY <5>2, <3>2, <3>3
      <4> QED
        BY <2>3, <3>3, <3>8, <4>2, CountedOpen
    <3> QED
      BY <3>6, <3>7, <3>8
  <2>4. CASE x # s
    <3>1. CallsOf(x)' = CallsOf(x) /\ socket'[x] = socket[x] /\ x \in DOMAIN socket
      BY <2>1, <2>2, <2>4 DEF CallsOf
    <3> QED
      BY <3>1, <1>t, CountedKept
  <2> QED
    BY <2>3, <2>4
<1>resp. ASSUME NEW r \in Requests, Respond(r) PROVE Counted(x)'
  <2> PICK s, msg : s = calls[r].socket /\ msg = calls[r].answer
    OBVIOUS
  <2>1. /\ r \in DOMAIN calls /\ r \in CallsOf(s) /\ msg \in Answer /\ x \in DOMAIN socket
        /\ socket' = Sent(s, msg)
    BY <1>resp, <1>t DEF Respond, Answered, Sent, CallsOf, TypeOK, Call, Answer
  <2>2. /\ DOMAIN calls' = DOMAIN calls \ {r}
        /\ \A q \in DOMAIN calls' : calls'[q] = calls[q]
    BY <1>resp DEF Respond, Without
  <2>3. CASE x = s
    <3>1. CallsOf(s)' = CallsOf(s) \ {r}
      BY <2>1, <2>2 DEF CallsOf
    <3>2. Cardinality(CallsOf(s)') = Cardinality(CallsOf(s)) - 1
      <4>1. IsFiniteSet(CallsOf(s))
        BY <1>t, CallsFinite
      <4>2. Cardinality(CallsOf(s) \ {r}) = Cardinality(CallsOf(s)) - 1
        BY <2>1, <4>1, FS_RemoveElement
      <4> QED
        BY <3>1, <4>2, Zenon
    <3>3. Counted(s) /\ socket[s] \in Socket
      BY <2>1, <2>3, <1>t DEF TypeOK
    <3>4. socket[s].server = "open" /\ socket[s].client # "connecting"
      BY <2>1, <3>3 DEF Counted, Silent, Socket
    <3>5. CASE socket[s].client = "closed"
      <4>1. socket'[s] = socket[s]
        BY <3>5, <2>1 DEF Sent
      <4> QED
        BY <2>3, <3>4, <3>5, <4>1 DEF Counted
    <3>6. CASE socket[s].client = "open"
      <4>1. socket' = [socket EXCEPT ![s].down = Append(@, msg)]
        BY <2>1, <2>3, <3>4, <3>6 DEF Sent
      <4>2. socket[s].down \in Seq(Answer) /\ socket[s].up \in Nat /\ socket[s].awaited \in Nat
        BY <3>3 DEF Socket
      <4>3. /\ socket'[s].down = Append(socket[s].down, msg) /\ socket'[s].up = socket[s].up
            /\ socket'[s].awaited = socket[s].awaited /\ socket'[s].client = "open"
            /\ socket'[s].server = "open"
        BY <2>1, <2>3, <3>3, <3>4, <3>6, <4>1 DEF Socket
      <4>4. /\ Len(Append(socket[s].down, msg)) = Len(socket[s].down) + 1
            /\ Len(socket[s].down) \in Nat
        BY <2>1, <4>2
      <4>5. Cardinality(CallsOf(s)) \in Nat
        BY <1>t, CallsFinite
      <4>c. Cardinality(CallsOf(s)) > 0
        <5>1. IsFiniteSet(CallsOf(s)) /\ CallsOf(s) # {}
          BY <2>1, <1>t, CallsFinite
        <5> QED
          BY <5>1, <4>5, FS_EmptySet
      <4>6. socket[s].awaited =
                socket[s].up + Cardinality(CallsOf(s)) + Len(socket[s].down)
        BY <3>3, <3>4, <3>6 DEF Counted
      <4>7. Sums(socket'[s].awaited, socket'[s].up, Cardinality(CallsOf(s)'),
                 Len(socket'[s].down))
        <5>1. Sums(socket[s].awaited, socket[s].up, Cardinality(CallsOf(s)),
                   Len(socket[s].down))
          BY <4>2, <4>4, <4>5, <4>6 DEF Sums
        <5>2. Sums(socket[s].awaited, socket[s].up, Cardinality(CallsOf(s)) - 1,
                   Len(socket[s].down) + 1)
          BY <5>1, SumMoves, <4>c
        <5> QED
          BY <5>2, <3>2, <4>3, <4>4
      <4> QED
        BY <2>3, <4>3, <4>7, CountedOpen
    <3> QED
      BY <3>3, <3>4, <3>5, <3>6 DEF Socket
  <2>4. CASE x # s
    <3>1. CallsOf(x)' = CallsOf(x) /\ socket'[x] = socket[x]
      BY <2>1, <2>2, <2>4 DEF CallsOf, Sent
    <3> QED
      BY <3>1, <2>1, <1>t, CountedKept
  <2> QED
    BY <2>3, <2>4
<1>stop. CASE GatewayStops
  <2>1. /\ x \in DOMAIN socket /\ x # Nobody /\ socket[x] \in Socket /\ Counted(x)
        /\ socket'[x] = IF socket[x].server = "open"
                        THEN [socket[x] EXCEPT !.server = "closed", !.up = 0]
                        ELSE socket[x]
        /\ (socket'[x].client # "closed" \/ socket'[x].server = "open")
    BY <1>stop, <1>t DEF GatewayStops, Kept, TypeOK
  <2>2. CallsOf(x)' = {}
    <3>1. \A r \in DOMAIN calls' : calls'[r].socket = Nobody
      BY <1>stop, <1>t DEF GatewayStops, TypeOK, Call
    <3> QED
      BY <2>1, <3>1 DEF CallsOf
  <2>3. socket'[x].server # "open" /\ socket'[x].client # "closed"
        /\ socket'[x].client = socket[x].client /\ socket'[x].down = socket[x].down
        /\ socket'[x].awaited = socket[x].awaited
    BY <2>1 DEF Socket
  <2>4. /\ Len(socket[x].down) \in Nat /\ socket[x].up \in Nat /\ socket[x].awaited \in Nat
        /\ Cardinality(CallsOf(x)) \in Nat
    BY <2>1, <1>t, CallsFinite DEF Socket
  <2>5. CASE socket[x].server = "open"
    <3>1. socket'[x].server = "closed" /\ socket'[x].up = 0
      BY <2>1, <2>5 DEF Socket
    <3>2. Len(socket[x].down) <= socket[x].awaited
      BY <2>1, <2>3, <2>4, <2>5 DEF Counted
    <3>3. socket[x].client = "connecting" => Silent(x)'
      BY <2>1, <2>2, <2>3, <3>1 DEF Counted, Silent
    <3> QED
      BY <2>2, <2>3, <2>4, <3>1, <3>2, <3>3 DEF Counted
  <2>6. CASE socket[x].server # "open"
    <3>1. socket'[x] = socket[x]
      BY <2>1, <2>6
    <3> QED
      BY <2>1, <2>2, <2>6, <3>1 DEF Counted, Silent
  <2> QED
    BY <2>5, <2>6
<1>answer. ASSUME NEW r \in Requests, NEW msg \in Answer, r \in DOMAIN calls,
                  calls' = Settled(r, msg), UNCHANGED socket
           PROVE  Counted(x)'
  <2>1. x # Nobody /\ x \in DOMAIN socket
    BY <1>answer, <1>t DEF TypeOK
  <2>2. CallsOf(x)' = CallsOf(x)
    <3>1. CASE calls[r].socket = Nobody
      BY <2>1, <3>1, <1>answer DEF Settled, Without, CallsOf
    <3>2. CASE calls[r].socket # Nobody
      BY <2>1, <3>2, <1>answer, <1>t DEF Settled, CallsOf, TypeOK, Call
    <3> QED
      BY <3>1, <3>2
  <2> QED
    BY <2>1, <2>2, <1>answer, <1>t, CountedKept
<1>grant. ASSUME NEW r \in Requests, NEW n \in Sessions, Grant(r, n) PROVE Counted(x)'
  BY <1>grant, <1>answer DEF Grant, Answer
<1>refuse. ASSUME NEW r \in Requests, Refuse(r) PROVE Counted(x)'
  BY <1>refuse, <1>answer DEF Refuse, Answer
<1> QED
  BY <1>c, <1>tune, <1>open, <1>close, <1>recv, <1>acc, <1>sc, <1>hm, <1>resp, <1>stop,
     <1>grant, <1>refuse, <1>same
  DEF Next, PageRuns, SocketRuns, CallRuns, Handles, UnhandledRejection, Shutdown, vars,
      ClientCloses, Break, Start, CloseSession

LEMMA InvInit == Init => Inv
BY TypeInit DEF Init, Inv, RefsHeld, Nothing

THEOREM Invariance == Spec => []Inv
<1>1. Inv /\ [Next]_vars => Inv'
  BY TypeNext, RefsNext, CountsNext DEF Inv
<1> QED
  BY InvInit, <1>1, PTL DEF Spec

\* Pages, sockets, gateway and calls keep their types, whatever breaks.
THEOREM TypeCorrect == Spec => []TypeOK
BY Invariance, PTL DEF Inv

\* While both ends of a socket are open, no tune message on it and no answer to
\* one is ever dropped.
THEOREM NothingEverLost == Spec => []NothingLost
<1>1. Inv => NothingLost
  BY DEF Inv, Counted, NothingLost
<1> QED
  BY <1>1, Invariance, PTL

----------------------------------------------------------------------------
(* The limit of a user's sockets.                                          *)

CountedFor(p) == {s \in DOMAIN connections : connections[s] = p}

\* The map holds every socket that the gateway has open, and no user too often.
Mapped ==
    /\ \A s \in DOMAIN socket :
           socket[s].server = "open" =>
               s \in DOMAIN connections /\ connections[s] = socket[s].page
    /\ \A p \in Pages : Cardinality(CountedFor(p)) <= MaxConnectionsPerUser

LEMMA CountedFinite ==
    ASSUME TypeOK, NEW p
    PROVE  IsFiniteSet(CountedFor(p)) /\ Cardinality(CountedFor(p)) \in Nat
<1>1. CountedFor(p) \in SUBSET Sockets
  BY DEF CountedFor, TypeOK
<1> QED
  BY <1>1, FiniteAssumption, FS_Subset, FS_CardinalityType

\* A step after which the map holds no more than before keeps the limit.
LEMMA FewerCounted ==
    ASSUME TypeOK, TypeOK', Mapped, NEW p \in Pages, CountedFor(p)' \subseteq CountedFor(p)
    PROVE  Cardinality(CountedFor(p)') <= MaxConnectionsPerUser
<1>1. IsFiniteSet(CountedFor(p)) /\ Cardinality(CountedFor(p)) \in Nat
  BY CountedFinite
<1>2. /\ Cardinality(CountedFor(p)') \in Nat
      /\ Cardinality(CountedFor(p)') <= Cardinality(CountedFor(p))
  BY <1>1, FS_Subset, FS_CardinalityType
<1>3. Cardinality(CountedFor(p)) <= MaxConnectionsPerUser
  BY DEF Mapped
<1> QED
  BY <1>1, <1>2, <1>3, LimitAssumption

LEMMA MappedInit == Init => Mapped
<1> SUFFICES ASSUME Init PROVE Mapped
  OBVIOUS
<1>1. \A p \in Pages : CountedFor(p) = {}
  BY DEF Init, Nothing, CountedFor
<1>2. \A p \in Pages : Cardinality(CountedFor(p)) = 0
  BY <1>1, FS_EmptySet, Zenon
<1>3. DOMAIN socket = {}
  BY DEF Init, Nothing
<1> QED
  BY <1>2, <1>3, LimitAssumption DEF Mapped

LEMMA MappedNext == TypeOK /\ TypeOK' /\ Mapped /\ [Next]_vars => Mapped'
<1> SUFFICES ASSUME TypeOK, TypeOK', Mapped, [Next]_vars PROVE Mapped'
  OBVIOUS
<1> USE DEF pageVars, gatewayVars
\* What leaves the map alone, and opens no socket at the gateway.
<1>same. ASSUME UNCHANGED connections,
                \A x \in DOMAIN socket' :
                    socket'[x].server = "open" =>
                        /\ x \in DOMAIN socket /\ socket[x].server = "open"
                        /\ socket'[x].page = socket[x].page
         PROVE  Mapped'
  <2>1. \A p \in Pages : CountedFor(p)' = CountedFor(p)
    BY <1>same DEF CountedFor
  <2> QED
    BY <2>1, <1>same DEF Mapped
<1>c. ASSUME NEW p \in Pages, NEW s \in Sockets, Connect(p, s) PROVE Mapped'
  BY <1>c, <1>same DEF Connect, With
<1>tune. ASSUME NEW p \in Pages, Tune(p) PROVE Mapped'
  BY <1>tune, <1>same DEF Tune, TypeOK, Socket
<1>open. ASSUME NEW s \in Sockets, Open(s) PROVE Mapped'
  BY <1>open, <1>same DEF Open, TypeOK, Socket
<1>close. ASSUME NEW s \in DOMAIN socket, OnClose(s) PROVE Mapped'
  BY <1>close, <1>same DEF OnClose, Kept, TypeOK, Socket
<1>recv. ASSUME NEW s \in Sockets, Receive(s) PROVE Mapped'
  BY <1>recv, <1>same DEF Receive, TypeOK, Socket
<1>acc. ASSUME NEW s \in Sockets, Accept(s) PROVE Mapped'
  <2> PICK u : u = socket[s].page
    OBVIOUS
  <2>1. /\ s \in DOMAIN socket /\ CanAccept(u) /\ u \in Pages
        /\ socket' = [socket EXCEPT ![s].server = "open"]
        /\ connections' = With(connections, s, u) /\ socket[s] \in Socket
    BY <1>acc DEF Accept, TypeOK, Socket
  <2>2. \A x \in DOMAIN socket' :
            socket'[x].server = "open" =>
                x \in DOMAIN connections' /\ connections'[x] = socket'[x].page
    BY <2>1 DEF With, Mapped, Socket
  <2>3. Cardinality(CountedFor(u)') <= MaxConnectionsPerUser
    <3>1. CountedFor(u)' = CountedFor(u) \cup {s}
      BY <2>1 DEF With, CountedFor
    <3>2. IsFiniteSet(CountedFor(u)) /\ Cardinality(CountedFor(u)) \in Nat
      BY CountedFinite
    <3>3. Cardinality(CountedFor(u)) < MaxConnectionsPerUser
      BY <2>1 DEF CanAccept, CountedFor
    <3>4. \/ Cardinality(CountedFor(u)') = Cardinality(CountedFor(u)) + 1
          \/ Cardinality(CountedFor(u)') = Cardinality(CountedFor(u))
      <4>1. Cardinality(CountedFor(u) \cup {s}) =
                IF s \in CountedFor(u) THEN Cardinality(CountedFor(u))
                ELSE Cardinality(CountedFor(u)) + 1
        BY <3>2, FS_AddElement
      <4> QED
        BY <3>1, <4>1, Zenon
    <3> QED
      BY <3>2, <3>3, <3>4, LimitAssumption
  <2>4. ASSUME NEW p \in Pages \ {u}
        PROVE  Cardinality(CountedFor(p)') <= MaxConnectionsPerUser
    <3>1. CountedFor(p)' \subseteq CountedFor(p)
      BY <2>1, <2>4 DEF With, CountedFor
    <3> QED
      BY <3>1, FewerCounted
  <2> QED
    BY <2>2, <2>3, <2>4 DEF Mapped
<1>rej. ASSUME NEW s \in Sockets, Reject(s) PROVE Mapped'
  BY <1>rej, <1>same DEF Reject, TypeOK, Socket
<1>sc. ASSUME NEW s \in Sockets, ServerCloses(s) PROVE Mapped'
  <2>1. \A p \in Pages : CountedFor(p)' \subseteq CountedFor(p)
    BY <1>sc DEF ServerCloses, Without, CountedFor
  <2>2. \A p \in Pages : Cardinality(CountedFor(p)') <= MaxConnectionsPerUser
    BY <2>1, FewerCounted
  <2> QED
    BY <2>2, <1>sc DEF ServerCloses, Without, Mapped
<1>hm. ASSUME NEW s \in Sockets, NEW r \in Requests, HandleMessage(s, r) PROVE Mapped'
  BY <1>hm, <1>same DEF HandleMessage, TypeOK, Socket
<1>resp. ASSUME NEW r \in Requests, Respond(r) PROVE Mapped'
  BY <1>resp, <1>same DEF Respond, Sent, TypeOK, Socket
<1>stop. ASSUME GatewayStops PROVE Mapped'
  <2>1. \A x \in DOMAIN socket' :
            /\ x \in DOMAIN socket /\ socket[x] \in Socket
            /\ socket'[x] = IF socket[x].server = "open"
                            THEN [socket[x] EXCEPT !.server = "closed", !.up = 0]
                            ELSE socket[x]
    BY <1>stop DEF GatewayStops, Kept, TypeOK
  <2>2. \A x \in DOMAIN socket' : socket'[x].server # "open"
    BY <2>1 DEF Socket
  <2>3. \A p \in Pages : CountedFor(p)' = {}
    BY <1>stop DEF GatewayStops, Nothing, CountedFor
  <2> QED
    BY <2>2, <2>3, FS_EmptySet, LimitAssumption DEF Mapped
<1>alone. ASSUME UNCHANGED <<socket, connections>> PROVE Mapped'
  BY <1>alone, <1>same
<1> QED
  BY <1>c, <1>tune, <1>open, <1>close, <1>recv, <1>acc, <1>rej, <1>sc, <1>hm, <1>resp,
     <1>stop, <1>alone
  DEF Next, PageRuns, SocketRuns, CallRuns, Handles, UnhandledRejection, Shutdown, vars,
      ClientCloses, Break, Start, CloseSession, Grant, Refuse

\* No user ever holds more of the gateway's sockets than the limit.
THEOREM LimitKept == Spec => []SocketsWithinLimit
<1>1. TypeOK /\ Mapped => SocketsWithinLimit
  <2> SUFFICES ASSUME TypeOK, Mapped, NEW p \in Pages
               PROVE  Cardinality(OpenSockets(p)) <= MaxConnectionsPerUser
    BY DEF SocketsWithinLimit
  <2>1. OpenSockets(p) \subseteq CountedFor(p)
    BY DEF OpenSockets, CountedFor, Mapped
  <2>2. IsFiniteSet(CountedFor(p)) /\ Cardinality(CountedFor(p)) \in Nat
    BY CountedFinite
  <2>3. /\ Cardinality(OpenSockets(p)) \in Nat
        /\ Cardinality(OpenSockets(p)) <= Cardinality(CountedFor(p))
    BY <2>1, <2>2, FS_Subset, FS_CardinalityType
  <2>4. Cardinality(CountedFor(p)) <= MaxConnectionsPerUser
    BY DEF Mapped
  <2> QED
    BY <2>2, <2>3, <2>4, LimitAssumption
<1> QED
  BY <1>1, TypeCorrect, MappedInit, MappedNext, PTL DEF Spec

----------------------------------------------------------------------------
(* Whose the sessions are.                                                 *)

\* A session, wherever it is on its way from the scheduler to a page, is leased
\* to the user it was asked for; and a call's socket is its user's.
Owned ==
    /\ \A r \in DOMAIN calls :
           /\ calls[r].socket \in DOMAIN socket =>
                  socket[calls[r].socket].page = calls[r].user
           /\ calls[r].answer.session \in DOMAIN lease =>
                  lease[calls[r].answer.session] = calls[r].user
    /\ \A s \in DOMAIN socket : \A i \in 1..Len(socket[s].down) :
           socket[s].down[i].session \in DOMAIN lease =>
               lease[socket[s].down[i].session] = socket[s].page
    /\ SessionsReachTheirUser

\* What is left of a sequence was in it.
LEMMA TailIndices ==
    ASSUME NEW T, NEW d \in Seq(T), d # <<>>, NEW i \in 1..Len(Tail(d))
    PROVE  i + 1 \in 1..Len(d) /\ Tail(d)[i] = d[i + 1]
OBVIOUS

LEMMA OwnedInit == Init => Owned
BY DEF Init, Nothing, Owned, SessionsReachTheirUser

LEMMA OwnedNext == TypeOK /\ Owned /\ [Next]_vars => Owned'
<1> SUFFICES ASSUME TypeOK, Owned, [Next]_vars PROVE Owned'
  OBVIOUS
<1> USE DEF pageVars, gatewayVars
\* What adds no answer, no call and no lease, and keeps each socket's page.
<1>same. ASSUME UNCHANGED lastTuneResponse,
                \A x \in DOMAIN socket' :
                    \/ /\ x \in DOMAIN socket /\ socket'[x].page = socket[x].page
                       /\ socket'[x].down = socket[x].down \/ socket'[x].down = <<>>
                    \/ socket'[x].down = <<>> /\ CallsOf(x) = {},
                \A r \in DOMAIN calls' :
                    /\ r \in DOMAIN calls /\ calls'[r].user = calls[r].user
                    /\ calls'[r].answer = calls[r].answer
                    /\ calls'[r].socket = calls[r].socket \/ calls'[r].socket = Nobody,
                \A n \in DOMAIN lease' : n \in DOMAIN lease /\ lease'[n] = lease[n],
                Nobody \notin DOMAIN socket'
         PROVE  Owned'
  <2>1. \A r \in DOMAIN calls' :
            /\ calls'[r].socket \in DOMAIN socket' =>
                   socket'[calls'[r].socket].page = calls'[r].user
            /\ calls'[r].answer.session \in DOMAIN lease' =>
                   lease'[calls'[r].answer.session] = calls'[r].user
    BY <1>same DEF Owned, CallsOf
  <2>2. \A s \in DOMAIN socket' : \A i \in 1..Len(socket'[s].down) :
            socket'[s].down[i].session \in DOMAIN lease' =>
                lease'[socket'[s].down[i].session] = socket'[s].page
    BY <1>same DEF Owned
  <2>3. SessionsReachTheirUser'
    BY <1>same DEF Owned, SessionsReachTheirUser
  <2> QED
    BY <2>1, <2>2, <2>3 DEF Owned
<1>n. Nobody \notin DOMAIN socket /\ Nobody \notin DOMAIN lease
  BY DEF TypeOK
<1>c. ASSUME NEW p \in Pages, NEW s \in Sockets, Connect(p, s) PROVE Owned'
  BY <1>c, <1>same, <1>n DEF Connect, With, Unused
<1>tune. ASSUME NEW p \in Pages, Tune(p) PROVE Owned'
  BY <1>tune, <1>same, <1>n DEF Tune, TypeOK, Socket
<1>open. ASSUME NEW s \in Sockets, Open(s) PROVE Owned'
  BY <1>open, <1>same, <1>n DEF Open, TypeOK, Socket
<1>close. ASSUME NEW s \in DOMAIN socket, OnClose(s) PROVE Owned'
  BY <1>close, <1>same, <1>n DEF OnClose, Kept, TypeOK, Socket
<1>recv. ASSUME NEW s \in Sockets, Receive(s) PROVE Owned'
  <2>1. /\ s \in DOMAIN socket /\ socket[s].down # <<>> /\ socket[s] \in Socket
        /\ socket[s].down \in Seq(Answer) /\ UNCHANGED <<calls, lease>>
        /\ socket' = [socket EXCEPT ![s].down = Tail(@), ![s].awaited = @ - 1]
    BY <1>recv DEF Receive, TypeOK, Socket
  <2>2. /\ DOMAIN socket' = DOMAIN socket
        /\ \A x \in DOMAIN socket : /\ socket'[x].page = socket[x].page
                                    /\ x # s => socket'[x].down = socket[x].down
        /\ socket'[s].down = Tail(socket[s].down)
    BY <2>1 DEF TypeOK, Socket
  <2>3. \A i \in 1..Len(socket'[s].down) :
            i + 1 \in 1..Len(socket[s].down) /\ socket'[s].down[i] = socket[s].down[i + 1]
    <3>1. \A d \in Seq(Answer) : d # <<>> =>
              \A i \in 1..Len(Tail(d)) : i + 1 \in 1..Len(d) /\ Tail(d)[i] = d[i + 1]
      BY TailIndices
    <3>2. \A i \in 1..Len(Tail(socket[s].down)) :
              i + 1 \in 1..Len(socket[s].down)
              /\ Tail(socket[s].down)[i] = socket[s].down[i + 1]
      BY <2>1, <3>1, Zenon
    <3> QED
      BY <2>2, <3>2, Zenon
  <2>4. ASSUME NEW x \in DOMAIN socket', NEW i \in 1..Len(socket'[x].down),
               socket'[x].down[i].session \in DOMAIN lease'
        PROVE  lease'[socket'[x].down[i].session] = socket'[x].page
    <3>1. CASE x # s
      BY <3>1, <2>1, <2>2, <2>4 DEF Owned
    <3>2. CASE x = s
      <4>1. /\ i + 1 \in 1..Len(socket[s].down)
            /\ socket'[s].down[i] = socket[s].down[i + 1]
        BY <3>2, <2>3, <2>4
      <4>2. socket[s].down[i + 1].session \in DOMAIN lease =>
                lease[socket[s].down[i + 1].session] = socket[s].page
        BY <2>1, <4>1 DEF Owned
      <4> QED
        BY <3>2, <2>1, <2>2, <2>4, <4>1, <4>2, Zenon
    <3> QED
      BY <3>1, <3>2
  <2>5. SessionsReachTheirUser'
    <3>1. /\ Head(socket[s].down) = socket[s].down[1] /\ 1 \in 1..Len(socket[s].down)
          /\ socket[s].page \in Pages
      BY <2>1 DEF Socket
    <3>2. Head(socket[s].down).session \in DOMAIN lease =>
              lease[Head(socket[s].down).session] = socket[s].page
      BY <2>1, <3>1 DEF Owned
    <3>3. \/ lastTuneResponse' = lastTuneResponse
          \/ lastTuneResponse' =
                 [lastTuneResponse EXCEPT ![socket[s].page] = Head(socket[s].down).session]
      BY <1>recv DEF Receive
    <3> QED
      BY <2>1, <3>1, <3>2, <3>3 DEF Owned, SessionsReachTheirUser, TypeOK
  <2> QED
    BY <2>1, <2>2, <2>4, <2>5 DEF Owned
<1>acc. ASSUME NEW s \in Sockets, Accept(s) \/ Reject(s) PROVE Owned'
  <2>1. /\ s \in DOMAIN socket /\ UNCHANGED <<lastTuneResponse, calls, lease>>
        /\ \E e \in {"open", "closed"} : socket' = [socket EXCEPT ![s].server = e]
    BY <1>acc DEF Accept, Reject
  <2>2. /\ DOMAIN socket' = DOMAIN socket
        /\ \A x \in DOMAIN socket : /\ socket'[x].page = socket[x].page
                                    /\ socket'[x].down = socket[x].down
    BY <2>1 DEF TypeOK, Socket
  <2> QED
    BY <2>1, <2>2, <1>same, <1>n
<1>sc. ASSUME NEW s \in Sockets, ServerCloses(s) PROVE Owned'
  BY <1>sc, <1>same, <1>n DEF ServerCloses, Without
<1>hm. ASSUME NEW s \in Sockets, NEW r \in Requests, HandleMessage(s, r) PROVE Owned'
  <2>1. /\ s \in DOMAIN socket /\ socket[s] \in Socket /\ UNCHANGED <<lastTuneResponse, lease>>
        /\ socket' = [socket EXCEPT ![s].up = @ - 1]
        /\ calls' = With(calls, r, [socket |-> s, user |-> socket[s].page,
                                    answer |-> [type |-> "none", session |-> Nobody]])
    BY <1>hm DEF HandleMessage, TypeOK
  <2>2. /\ DOMAIN socket' = DOMAIN socket
        /\ \A x \in DOMAIN socket : /\ socket'[x].page = socket[x].page
                                    /\ socket'[x].down = socket[x].down
    BY <2>1 DEF TypeOK, Socket
  <2>3. \A q \in DOMAIN calls' :
            \/ q \in DOMAIN calls /\ calls'[q] = calls[q]
            \/ /\ calls'[q].socket = s /\ calls'[q].user = socket[s].page
               /\ calls'[q].answer.session = Nobody
    BY <2>1 DEF With
  <2> QED
    BY <2>1, <2>2, <2>3, <1>n DEF Owned, SessionsReachTheirUser
<1>resp. ASSUME NEW r \in Requests, Respond(r) PROVE Owned'
  <2> PICK s, msg : s = calls[r].socket /\ msg = calls[r].answer
    OBVIOUS
  <2>1. /\ r \in DOMAIN calls /\ msg \in Answer /\ socket' = Sent(s, msg)
        /\ UNCHANGED <<lastTuneResponse, lease>> /\ calls' = Without(calls, r)
    BY <1>resp DEF Respond, Answered, TypeOK, Call, Answer
  <2>2. /\ DOMAIN socket' = DOMAIN socket
        /\ \A x \in DOMAIN socket :
               /\ socket'[x].page = socket[x].page
               /\ \/ socket'[x].down = socket[x].down
                  \/ x = s /\ socket'[x].down = Append(socket[x].down, msg)
    BY <2>1 DEF Sent, TypeOK, Socket
  <2>3. \A x \in DOMAIN socket' : \A i \in 1..Len(socket'[x].down) :
            \/ i \in 1..Len(socket[x].down) /\ socket'[x].down[i] = socket[x].down[i]
            \/ x = s /\ socket'[x].down[i] = msg
    BY <2>1, <2>2 DEF TypeOK, Socket
  <2>4. \A x \in DOMAIN socket' : \A i \in 1..Len(socket'[x].down) :
            socket'[x].down[i].session \in DOMAIN lease' =>
                lease'[socket'[x].down[i].session] = socket'[x].page
    BY <2>1, <2>2, <2>3 DEF Owned
  <2> QED
    BY <2>1, <2>2, <2>4 DEF Without, Owned, SessionsReachTheirUser
<1>stop. ASSUME GatewayStops PROVE Owned'
  <2>1. \A x \in DOMAIN socket' :
            /\ x \in DOMAIN socket /\ socket[x] \in Socket
            /\ socket'[x] = IF socket[x].server = "open"
                            THEN [socket[x] EXCEPT !.server = "closed", !.up = 0]
                            ELSE socket[x]
    BY <1>stop DEF GatewayStops, Kept, TypeOK
  <2>2. \A x \in DOMAIN socket' :
            /\ x \in DOMAIN socket /\ socket'[x].page = socket[x].page
            /\ socket'[x].down = socket[x].down
    BY <2>1 DEF Socket
  <2>3. \A q \in DOMAIN calls' :
            /\ q \in DOMAIN calls /\ calls'[q].user = calls[q].user
            /\ calls'[q].answer = calls[q].answer /\ calls'[q].socket = Nobody
    BY <1>stop DEF GatewayStops, TypeOK, Call
  <2>4. UNCHANGED <<lastTuneResponse, lease>>
    BY <1>stop DEF GatewayStops
  <2> QED
    BY <2>2, <2>3, <2>4, <1>same, <1>n
<1>grant. ASSUME NEW r \in Requests, NEW n \in Sessions, Grant(r, n) PROVE Owned'
  <2>1. /\ r \in DOMAIN calls /\ n # Nobody /\ UnusedSession(n)
        /\ UNCHANGED <<lastTuneResponse, socket>>
        /\ DOMAIN lease' = DOMAIN lease \cup {n} /\ lease'[n] = calls[r].user
        /\ \A m \in DOMAIN lease : lease'[m] = lease[m]
    BY <1>grant DEF Grant, UnusedSession, With
  <2>2. \A q \in DOMAIN calls' :
            /\ q \in DOMAIN calls /\ calls'[q].user = calls[q].user
            /\ calls'[q].socket = calls[q].socket
            /\ \/ calls'[q].answer = calls[q].answer
               \/ q = r /\ calls'[q].answer.session = n
    BY <1>grant DEF Grant, Settled, Without, TypeOK, Call
  <2>3. \A q \in DOMAIN calls' :
            calls'[q].answer.session \in DOMAIN lease' =>
                lease'[calls'[q].answer.session] = calls'[q].user
    BY <2>1, <2>2 DEF Owned, UnusedSession
  <2>4. \A s \in DOMAIN socket : \A i \in 1..Len(socket[s].down) :
            socket[s].down[i].session \in DOMAIN lease' =>
                lease'[socket[s].down[i].session] = socket[s].page
    BY <2>1 DEF Owned, UnusedSession
  <2>5. SessionsReachTheirUser'
    BY <2>1 DEF Owned, UnusedSession, SessionsReachTheirUser
  <2> QED
    BY <2>1, <2>2, <2>3, <2>4, <2>5 DEF Owned
<1>refuse. ASSUME NEW r \in Requests, Refuse(r) PROVE Owned'
  <2>1. \A q \in DOMAIN calls' :
            /\ q \in DOMAIN calls /\ calls'[q].user = calls[q].user
            /\ calls'[q].socket = calls[q].socket
            /\ \/ calls'[q].answer = calls[q].answer
               \/ calls'[q].answer.session = Nobody
    BY <1>refuse DEF Refuse, Settled, Without, TypeOK, Call
  <2>2. UNCHANGED <<lastTuneResponse, socket, lease>>
    BY <1>refuse DEF Refuse
  <2> QED
    BY <2>1, <2>2, <1>n DEF Owned, SessionsReachTheirUser
<1>cs. ASSUME NEW n \in Sessions, CloseSession(n) PROVE Owned'
  BY <1>cs, <1>same, <1>n DEF CloseSession, Without
<1>alone. ASSUME UNCHANGED <<socket, calls, lease, lastTuneResponse>> PROVE Owned'
  BY <1>alone, <1>same, <1>n
<1> QED
  BY <1>c, <1>tune, <1>open, <1>close, <1>recv, <1>acc, <1>sc, <1>hm, <1>resp, <1>stop,
     <1>grant, <1>refuse, <1>cs, <1>alone
  DEF Next, PageRuns, SocketRuns, CallRuns, Handles, UnhandledRejection, Shutdown, vars,
      ClientCloses, Break, Start

\* A session that a page shows is its own user's, for as long as it lasts.
THEOREM SessionsOfTheirUser == Spec => []SessionsReachTheirUser
<1>1. Owned => SessionsReachTheirUser
  BY DEF Owned
<1> QED
  BY <1>1, TypeCorrect, OwnedInit, OwnedNext, PTL DEF Spec

----------------------------------------------------------------------------
(* Whom the limit turns away.                                              *)

\* A page has one socket at a time that it has not closed, the one it refers to;
\* without one it is about to connect, and it shows what its end of the socket is.
OneAtATime ==
    /\ \A p \in Pages :
           /\ reconnecting[p] <=> socketRef[p] = Nobody
           /\ connected[p] <=>
                  socketRef[p] # Nobody /\ socket[socketRef[p]].client = "open"
    /\ \A s \in DOMAIN socket :
           socket[s].client # "closed" => socketRef[socket[s].page] = s

\* The map holds no socket that the gateway does not have open.
MapExact ==
    \A s \in DOMAIN connections :
        /\ s \in DOMAIN socket /\ socket[s].server = "open"
        /\ connections[s] = socket[s].page

\* What a step of the gateway or the scheduler leaves of the pages' view.
LEMMA ViewKept ==
    ASSUME OneAtATime, RefsHeld, UNCHANGED <<socketRef, connected, reconnecting>>,
           \A s \in DOMAIN socket' :
               /\ s \in DOMAIN socket
               /\ socket'[s].page = socket[s].page /\ socket'[s].client = socket[s].client,
           \A s \in DOMAIN socket : socket[s].client # "closed" => s \in DOMAIN socket'
    PROVE  OneAtATime'
<1>1. ASSUME NEW p \in Pages
      PROVE  /\ reconnecting'[p] <=> socketRef'[p] = Nobody
             /\ connected'[p] <=>
                    socketRef'[p] # Nobody /\ socket'[socketRef'[p]].client = "open"
  <2>1. socketRef[p] # Nobody =>
            /\ socketRef[p] \in DOMAIN socket'
            /\ socket'[socketRef[p]].client = socket[socketRef[p]].client
    BY <1>1 DEF RefsHeld
  <2> QED
    BY <1>1, <2>1 DEF OneAtATime
<1>2. ASSUME NEW s \in DOMAIN socket', socket'[s].client # "closed"
      PROVE  socketRef'[socket'[s].page] = s
  BY <1>2 DEF OneAtATime
<1> QED
  BY <1>1, <1>2 DEF OneAtATime

\* One socket gets another record, of the same page and with the same client end.
LEMMA OneRecord ==
    ASSUME TypeOK, OneAtATime, RefsHeld, UNCHANGED <<socketRef, connected, reconnecting>>,
           NEW s \in DOMAIN socket, NEW k,
           k.page = socket[s].page, k.client = socket[s].client,
           socket' = [socket EXCEPT ![s] = k]
    PROVE  OneAtATime'
<1>1. /\ DOMAIN socket' = DOMAIN socket
      /\ \A x \in DOMAIN socket : /\ socket'[x].page = socket[x].page
                                  /\ socket'[x].client = socket[x].client
  OBVIOUS
<1> QED
  BY <1>1, ViewKept

LEMMA OneAtATimeInit == Init => OneAtATime /\ MapExact
BY DEF Init, Nothing, OneAtATime, MapExact

LEMMA OneAtATimeNext == TypeOK /\ RefsHeld /\ OneAtATime /\ [Next]_vars => OneAtATime'
<1> SUFFICES ASSUME TypeOK, RefsHeld, OneAtATime, [Next]_vars PROVE OneAtATime'
  OBVIOUS
<1> USE DEF pageVars, gatewayVars
<1>k. \A s \in DOMAIN socket : socket[s] \in Socket /\ socket[s].page \in Pages
  BY DEF TypeOK, Socket
<1>c. ASSUME NEW p \in Pages, NEW s \in Sockets, Connect(p, s) PROVE OneAtATime'
  <2>1. /\ reconnecting[p] /\ socketRef[p] = Nobody /\ s \notin DOMAIN socket
        /\ socketRef' = [socketRef EXCEPT ![p] = s] /\ s # Nobody
        /\ reconnecting' = [reconnecting EXCEPT ![p] = FALSE] /\ connected' = connected
    BY <1>c DEF Connect, Unused, OneAtATime
  <2>2. /\ DOMAIN socket' = DOMAIN socket \cup {s}
        /\ socket'[s].page = p /\ socket'[s].client = "connecting"
        /\ \A x \in DOMAIN socket : socket'[x] = socket[x]
    BY <1>c, <2>1 DEF Connect, With
  <2>3. ASSUME NEW q \in Pages
        PROVE  /\ reconnecting'[q] <=> socketRef'[q] = Nobody
               /\ connected'[q] <=>
                      socketRef'[q] # Nobody /\ socket'[socketRef'[q]].client = "open"
    <3>1. CASE q = p
      BY <2>1, <2>2, <3>1 DEF OneAtATime, TypeOK
    <3>2. CASE q # p
      BY <2>1, <2>2, <3>2 DEF OneAtATime, RefsHeld, TypeOK
    <3> QED
      BY <3>1, <3>2
  <2>4. ASSUME NEW x \in DOMAIN socket', socket'[x].client # "closed"
        PROVE  socketRef'[socket'[x].page] = x
    <3>1. CASE x = s
      BY <2>1, <2>2, <3>1 DEF TypeOK
    <3>2. CASE x # s
      <4>1. x \in DOMAIN socket /\ socketRef[socket[x].page] = x /\ x # Nobody
        BY <2>2, <2>4, <3>2 DEF OneAtATime, TypeOK
      <4> QED
        BY <2>1, <2>2, <4>1, <1>k DEF TypeOK
    <3> QED
      BY <3>1, <3>2
  <2> QED
    BY <2>3, <2>4 DEF OneAtATime
<1>open. ASSUME NEW s \in Sockets, Open(s) PROVE OneAtATime'
  <2> PICK p : p = socket[s].page
    OBVIOUS
  <2>1. /\ s \in DOMAIN socket /\ p \in Pages /\ socketRef[p] = s /\ s # Nobody
        /\ socket' = [socket EXCEPT ![s].client = "open"]
        /\ connected' = [connected EXCEPT ![p] = TRUE]
        /\ UNCHANGED <<socketRef, reconnecting>>
    BY <1>open, <1>k DEF Open, OneAtATime, TypeOK
  <2>2. /\ DOMAIN socket' = DOMAIN socket /\ socket'[s].client = "open"
        /\ socket'[s].page = p
        /\ \A x \in DOMAIN socket : x # s => socket'[x] = socket[x]
    BY <2>1, <1>k DEF Socket
  <2>3. \A q \in Pages :
            /\ reconnecting'[q] <=> socketRef'[q] = Nobody
            /\ connected'[q] <=>
                   socketRef'[q] # Nobody /\ socket'[socketRef'[q]].client = "open"
    BY <2>1, <2>2 DEF OneAtATime, RefsHeld, TypeOK
  <2>4. \A x \in DOMAIN socket' :
            socket'[x].client # "closed" => socketRef'[socket'[x].page] = x
    BY <2>1, <2>2 DEF OneAtATime
  <2> QED
    BY <2>3, <2>4 DEF OneAtATime
<1>close. ASSUME NEW s \in DOMAIN socket, socket[s].client # "closed", OnClose(s)
          PROVE  OneAtATime'
  <2> PICK p : p = socket[s].page
    OBVIOUS
  <2>1. /\ p \in Pages /\ socketRef[p] = s /\ s # Nobody
        /\ socketRef' = [socketRef EXCEPT ![p] = Nobody]
        /\ connected' = [connected EXCEPT ![p] = FALSE]
        /\ reconnecting' = [reconnecting EXCEPT ![p] = TRUE]
    BY <1>close, <1>k DEF OnClose, OneAtATime, TypeOK
  <2>2. /\ \A x \in DOMAIN socket' : x \in DOMAIN socket
        /\ s \in DOMAIN socket' => socket'[s].client = "closed"
        /\ \A x \in DOMAIN socket : x # s /\ socket[x].client # "closed" =>
               x \in DOMAIN socket' /\ socket'[x] = socket[x]
        /\ \A x \in DOMAIN socket' : x # s => socket'[x] = socket[x]
    BY <1>close, <1>k DEF OnClose, Kept, Socket
  <2>3. ASSUME NEW q \in Pages
        PROVE  /\ reconnecting'[q] <=> socketRef'[q] = Nobody
               /\ connected'[q] <=>
                      socketRef'[q] # Nobody /\ socket'[socketRef'[q]].client = "open"
    <3>1. CASE q = p
      BY <2>1, <3>1 DEF TypeOK
    <3>2. CASE q # p
      <4>1. socketRef'[q] = socketRef[q] /\ socketRef[q] # s
        BY <2>1, <3>2 DEF TypeOK, RefsHeld
      <4>2. socketRef[q] # Nobody => socket'[socketRef[q]] = socket[socketRef[q]]
        BY <2>2, <4>1 DEF RefsHeld
      <4> QED
        BY <2>1, <3>2, <4>1, <4>2 DEF OneAtATime, TypeOK
    <3> QED
      BY <3>1, <3>2
  <2>4. ASSUME NEW x \in DOMAIN socket', socket'[x].client # "closed"
        PROVE  socketRef'[socket'[x].page] = x
    <3>1. x # s /\ x \in DOMAIN socket /\ socket'[x] = socket[x]
      BY <2>2, <2>4
    <3>2. socketRef[socket[x].page] = x /\ socket[x].page \in Pages
      BY <2>4, <3>1, <1>k DEF OneAtATime
    <3> QED
      BY <2>1, <3>1, <3>2 DEF TypeOK
  <2> QED
    BY <2>3, <2>4 DEF OneAtATime
<1>tune. ASSUME NEW p \in Pages, Tune(p) PROVE OneAtATime'
  <2> PICK s : s = socketRef[p]
    OBVIOUS
  <2>1. /\ s \in DOMAIN socket /\ socket[s] \in Socket
        /\ UNCHANGED <<socketRef, connected, reconnecting>>
        /\ socket' = [socket EXCEPT ![s].up = @ + 1, ![s].awaited = @ + 1]
    BY <1>tune, <1>k DEF Tune, RefsHeld
  <2>2. /\ DOMAIN socket' = DOMAIN socket
        /\ \A x \in DOMAIN socket : /\ socket'[x].page = socket[x].page
                                    /\ socket'[x].client = socket[x].client
    BY <2>1 DEF Socket
  <2> QED
    BY <2>1, <2>2, ViewKept
<1>recv. ASSUME NEW s \in Sockets, Receive(s) PROVE OneAtATime'
  <2>1. /\ s \in DOMAIN socket /\ socket[s] \in Socket
        /\ UNCHANGED <<socketRef, connected, reconnecting>>
        /\ socket' = [socket EXCEPT ![s].down = Tail(@), ![s].awaited = @ - 1]
    BY <1>recv, <1>k DEF Receive
  <2> PICK k : k = [socket[s] EXCEPT !.down = Tail(@), !.awaited = @ - 1]
    OBVIOUS
  <2>2. k.page = socket[s].page /\ k.client = socket[s].client
        /\ socket' = [socket EXCEPT ![s] = k]
    BY <2>1 DEF Socket
  <2> QED
    BY <2>1, <2>2, OneRecord
<1>acc. ASSUME NEW s \in Sockets, Accept(s) \/ Reject(s) PROVE OneAtATime'
  <2>1. /\ s \in DOMAIN socket /\ socket[s] \in Socket
        /\ UNCHANGED <<socketRef, connected, reconnecting>>
        /\ \E e \in {"open", "closed"} : socket' = [socket EXCEPT ![s].server = e]
    BY <1>acc, <1>k DEF Accept, Reject
  <2>2. PICK e \in {"open", "closed"} : socket' = [socket EXCEPT ![s].server = e]
    BY <2>1
  <2> PICK k : k = [socket[s] EXCEPT !.server = e]
    OBVIOUS
  <2>3. k.page = socket[s].page /\ k.client = socket[s].client
        /\ socket' = [socket EXCEPT ![s] = k]
    BY <2>1, <2>2 DEF Socket
  <2> QED
    BY <2>1, <2>3, OneRecord
<1>sc. ASSUME NEW s \in Sockets, ServerCloses(s) PROVE OneAtATime'
  <2>1. /\ UNCHANGED <<socketRef, connected, reconnecting>>
        /\ \A x \in DOMAIN socket' : x \in DOMAIN socket /\ socket'[x] = socket[x]
        /\ \A x \in DOMAIN socket : socket[x].client # "closed" => x \in DOMAIN socket'
    BY <1>sc DEF ServerCloses, Without
  <2> QED
    BY <2>1, ViewKept
<1>hm. ASSUME NEW s \in Sockets, NEW r \in Requests, HandleMessage(s, r) PROVE OneAtATime'
  <2>1. /\ s \in DOMAIN socket /\ socket[s] \in Socket
        /\ UNCHANGED <<socketRef, connected, reconnecting>>
        /\ socket' = [socket EXCEPT ![s].up = @ - 1]
    BY <1>hm, <1>k DEF HandleMessage
  <2> PICK k : k = [socket[s] EXCEPT !.up = @ - 1]
    OBVIOUS
  <2>2. k.page = socket[s].page /\ k.client = socket[s].client
        /\ socket' = [socket EXCEPT ![s] = k]
    BY <2>1 DEF Socket
  <2> QED
    BY <2>1, <2>2, OneRecord
<1>resp. ASSUME NEW r \in Requests, Respond(r) PROVE OneAtATime'
  <2>1. /\ UNCHANGED <<socketRef, connected, reconnecting>>
        /\ DOMAIN socket' = DOMAIN socket
        /\ \A x \in DOMAIN socket : /\ socket'[x].page = socket[x].page
                                    /\ socket'[x].client = socket[x].client
    BY <1>resp, <1>k DEF Respond, Sent, Socket
  <2> QED
    BY <2>1, ViewKept
<1>stop. ASSUME GatewayStops PROVE OneAtATime'
  <2>1. \A x \in DOMAIN socket :
            /\ [socket[x] EXCEPT !.server = "closed", !.up = 0].client = socket[x].client
            /\ [socket[x] EXCEPT !.server = "closed", !.up = 0].page = socket[x].page
    BY <1>k DEF Socket
  <2>2. /\ UNCHANGED <<socketRef, connected, reconnecting>>
        /\ \A x \in DOMAIN socket' :
               /\ x \in DOMAIN socket
               /\ socket'[x].page = socket[x].page /\ socket'[x].client = socket[x].client
        /\ \A x \in DOMAIN socket : socket[x].client # "closed" => x \in DOMAIN socket'
    BY <1>stop, <2>1 DEF GatewayStops, Kept
  <2> QED
    BY <2>2, ViewKept
<1>alone. ASSUME UNCHANGED <<socketRef, connected, reconnecting, socket>> PROVE OneAtATime'
  BY <1>alone DEF OneAtATime
<1> QED
  BY <1>c, <1>tune, <1>open, <1>close, <1>recv, <1>acc, <1>sc, <1>hm, <1>resp, <1>stop,
     <1>alone
  DEF Next, PageRuns, SocketRuns, CallRuns, Handles, UnhandledRejection, Shutdown, vars,
      ClientCloses, Break, Start, CloseSession, Grant, Refuse

LEMMA MapExactNext == TypeOK /\ MapExact /\ [Next]_vars => MapExact'
<1> SUFFICES ASSUME TypeOK, MapExact, [Next]_vars PROVE MapExact'
  OBVIOUS
<1> USE DEF pageVars, gatewayVars
\* What keeps the map, and the gateway's end of its sockets.
<1>same. ASSUME UNCHANGED connections,
                \A x \in DOMAIN socket : socket[x].server = "open" =>
                    /\ x \in DOMAIN socket' /\ socket'[x].server = "open"
                    /\ socket'[x].page = socket[x].page
         PROVE  MapExact'
  BY <1>same DEF MapExact
<1>c. ASSUME NEW p \in Pages, NEW s \in Sockets, Connect(p, s) PROVE MapExact'
  BY <1>c, <1>same DEF Connect, With, Unused
<1>tune. ASSUME NEW p \in Pages, Tune(p) PROVE MapExact'
  BY <1>tune, <1>same DEF Tune, TypeOK, Socket
<1>open. ASSUME NEW s \in Sockets, Open(s) PROVE MapExact'
  BY <1>open, <1>same DEF Open, TypeOK, Socket
<1>close. ASSUME NEW s \in DOMAIN socket, OnClose(s) PROVE MapExact'
  BY <1>close, <1>same DEF OnClose, Kept, TypeOK, Socket
<1>recv. ASSUME NEW s \in Sockets, Receive(s) PROVE MapExact'
  BY <1>recv, <1>same DEF Receive, TypeOK, Socket
<1>acc. ASSUME NEW s \in Sockets, Accept(s) PROVE MapExact'
  <2>1. /\ s \in DOMAIN socket /\ socket[s] \in Socket
        /\ socket' = [socket EXCEPT ![s].server = "open"]
        /\ connections' = With(connections, s, socket[s].page)
    BY <1>acc DEF Accept, TypeOK
  <2>2. /\ DOMAIN socket' = DOMAIN socket /\ socket'[s].server = "open"
        /\ socket'[s].page = socket[s].page
        /\ \A x \in DOMAIN socket : x # s => socket'[x] = socket[x]
    BY <2>1 DEF Socket
  <2> QED
    BY <2>1, <2>2 DEF With, MapExact
<1>rej. ASSUME NEW s \in Sockets, Reject(s) PROVE MapExact'
  <2>1. /\ s \in DOMAIN socket /\ socket[s].server = "none" /\ connections' = connections
        /\ socket' = [socket EXCEPT ![s].server = "closed"]
    BY <1>rej DEF Reject
  <2> QED
    BY <2>1, <1>same
<1>sc. ASSUME NEW s \in Sockets, ServerCloses(s) PROVE MapExact'
  BY <1>sc DEF ServerCloses, Without, MapExact
<1>hm. ASSUME NEW s \in Sockets, NEW r \in Requests, HandleMessage(s, r) PROVE MapExact'
  BY <1>hm, <1>same DEF HandleMessage, TypeOK, Socket
<1>resp. ASSUME NEW r \in Requests, Respond(r) PROVE MapExact'
  BY <1>resp, <1>same DEF Respond, Sent, TypeOK, Socket
<1>stop. ASSUME GatewayStops PROVE MapExact'
  BY <1>stop DEF GatewayStops, Nothing, MapExact
<1>alone. ASSUME UNCHANGED <<socket, connections>> PROVE MapExact'
  BY <1>alone, <1>same
<1> QED
  BY <1>c, <1>tune, <1>open, <1>close, <1>recv, <1>acc, <1>rej, <1>sc, <1>hm, <1>resp,
     <1>stop, <1>alone
  DEF Next, PageRuns, SocketRuns, CallRuns, Handles, UnhandledRejection, Shutdown, vars,
      ClientCloses, Break, Start, CloseSession, Grant, Refuse

\* A page never has two sockets open at its end: whatever breaks and in whatever order
\* its sockets open and close, it reconnects only after it has let go of the last.
THEOREM OneSocketPerPage ==
    Spec => [](\A s, t \in DOMAIN socket :
                   /\ socket[s].client # "closed" /\ socket[t].client # "closed"
                   /\ socket[s].page = socket[t].page
                   => s = t)
<1>1. OneAtATime => \A s, t \in DOMAIN socket :
                        /\ socket[s].client # "closed" /\ socket[t].client # "closed"
                        /\ socket[s].page = socket[t].page
                        => s = t
  BY DEF OneAtATime
<1>2. Inv => TypeOK /\ RefsHeld
  BY DEF Inv
<1> QED
  BY <1>1, <1>2, Invariance, OneAtATimeInit, OneAtATimeNext, PTL DEF Spec

\* canAccept() turns a page away only for sockets of the page itself, each of which the
\* page has closed already and the gateway has not heard of: never for another user,
\* and never for the socket that the page is using.
RejectedForItsPast ==
    \A s \in Sockets : Reject(s) =>
        \A x \in CountedFor(socket[s].page) :
            /\ x \in DOMAIN socket /\ socket[x].page = socket[s].page
            /\ socket[x].client = "closed" /\ socket[x].server = "open"

THEOREM RejectedOnlyForItsPast == Spec => [][RejectedForItsPast]_vars
<1>1. TypeOK /\ OneAtATime /\ MapExact => RejectedForItsPast
  <2> SUFFICES ASSUME TypeOK, OneAtATime, MapExact, NEW s \in Sockets, Reject(s),
                      NEW x \in CountedFor(socket[s].page)
               PROVE  /\ x \in DOMAIN socket /\ socket[x].page = socket[s].page
                      /\ socket[x].client = "closed" /\ socket[x].server = "open"
    BY DEF RejectedForItsPast
  <2>1. /\ s \in DOMAIN socket /\ socket[s].client = "connecting"
        /\ socket[s].server = "none"
    BY DEF Reject
  <2>2. /\ x \in DOMAIN socket /\ socket[x].page = socket[s].page
        /\ socket[x].server = "open"
    BY DEF CountedFor, MapExact
  <2>3. socket[x].client # "closed" => x = s
    BY <2>1, <2>2 DEF OneAtATime
  <2> QED
    BY <2>1, <2>2, <2>3
<1>2. Inv => TypeOK /\ RefsHeld
  BY DEF Inv
<1> QED
  BY <1>1, <1>2, Invariance, OneAtATimeInit, OneAtATimeNext, MapExactNext, PTL DEF Spec
============================================================================
