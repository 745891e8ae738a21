--------------------------- MODULE SessionLeases ---------------------------
(***************************************************************************)
(* What the scheduler promises its callers, without channels.              *)
(*                                                                         *)
(* A caller asks for a stream: a tuning inside the receiver window that is *)
(* current when it asks.  It is refused, or it is granted exactly one      *)
(* session, at once or some time later, and that session is a lease of     *)
(* precisely the stream asked for: no later step of anybody else moves it  *)
(* to another stream, and only closing it (or a restart of the scheduler,  *)
(* which forgets everything) ends it.                                      *)
(***************************************************************************)
CONSTANTS
    Requests,   \* callers' tune calls that may be in flight at one time
    SessionIds, \* session identifiers
    Windows,    \* receiver windows
    Tunings,    \* what can be tuned to
    Serves,     \* Serves[w]: the tunings inside the service band of window w
    NoWindow    \* no receiver window has been announced yet

VARIABLES
    window,     \* the window the callers' requests are judged against
    asked,      \* the streams being waited for, by request
    lease,      \* the streams leased, by session
    reply       \* the last answer each request slot got

vars == <<window, asked, lease, reply>>

Streams == {st \in [windowId : Windows, tuning : Tunings] :
                st.tuning \in Serves[st.windowId]}

Answers == {"none", "granted", "refused"}

\* f with key k added or overwritten.
With(f, k, v) == [x \in DOMAIN f \cup {k} |-> IF x = k THEN v ELSE f[x]]

\* f without key k.
Without(f, k) == [x \in DOMAIN f \ {k} |-> f[x]]

Nothing == [x \in {} |-> {}]

----------------------------------------------------------------------------

Init ==
    /\ window = NoWindow
    /\ asked = Nothing
    /\ lease = Nothing
    /\ reply = [r \in Requests |-> "none"]

Announce(w) ==
    /\ window' = w
    /\ UNCHANGED <<asked, lease, reply>>

\* The caller starts to wait.
Ask(r, st) ==
    /\ r \notin DOMAIN asked
    /\ st \in Streams
    /\ st.windowId = window
    /\ asked' = With(asked, r, st)
    /\ reply' = [reply EXCEPT ![r] = "none"]
    /\ UNCHANGED <<window, lease>>

\* The stream is there already: the answer is immediate.
GrantAtOnce(r, st, s) ==
    /\ r \notin DOMAIN asked
    /\ st \in Streams
    /\ st.windowId = window
    /\ s \notin DOMAIN lease
    /\ lease' = With(lease, s, st)
    /\ reply' = [reply EXCEPT ![r] = "granted"]
    /\ UNCHANGED <<window, asked>>

\* The answer to a caller that waited: a lease of what it asked for.
Grant(r, s) ==
    /\ r \in DOMAIN asked
    /\ s \notin DOMAIN lease
    /\ lease' = With(lease, s, asked[r])
    /\ asked' = Without(asked, r)
    /\ reply' = [reply EXCEPT ![r] = "granted"]
    /\ UNCHANGED window

\* A refusal leases nothing, whether or not the caller had to wait for it.
Refuse(r) ==
    /\ asked' = Without(asked, r)
    /\ reply' = [reply EXCEPT ![r] = "refused"]
    /\ UNCHANGED <<window, lease>>

End(s) ==
    /\ s \in DOMAIN lease
    /\ lease' = Without(lease, s)
    /\ UNCHANGED <<window, asked, reply>>

Forget == 
    /\ window' = NoWindow
    /\ asked' = Nothing
    /\ lease' = Nothing
    /\ reply' = [r \in Requests |-> "none"]

Next ==
    \/ \E w \in Windows : Announce(w)
    \/ \E r \in Requests, st \in Streams : Ask(r, st)
    \/ \E r \in Requests, st \in Streams, s \in SessionIds : GrantAtOnce(r, st, s)
    \/ \E r \in Requests, s \in SessionIds : Grant(r, s)
    \/ \E r \in Requests : Refuse(r)
    \/ \E s \in SessionIds : End(s)
    \/ Forget

Spec == Init /\ [][Next]_vars
============================================================================
