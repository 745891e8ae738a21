------------------------------ MODULE TunePath ------------------------------
(***************************************************************************)
(* The scheduler with the channel service it provisions channels at: what  *)
(* provisionChannel (apps/scheduler) sends, and what POST /channels        *)
(* (native/channel-service) makes of it.  Nothing fails here, so the answer*)
(* follows from the fields of the message.                                 *)
(***************************************************************************)
EXTENDS MCScheduler

\* The definition that tune() builds and provisionChannel sends.
Sent == {"frequencyHz", "mode", "bandwidthHz", "squelch",
         "waterfallRequested", "audioRequested"}

\* What the handler reads with at(), which throws; mode and the rest have defaults.
Required == {"windowCentreHz", "windowSampleRateHz", "frequencyHz", "bandwidthHz"}

\* The catch block answers 400.
Status == IF Required \subseteq Sent THEN 201 ELSE 400

\* res.ok, or provisionChannel throws.
Provisioned(r) ==
    \/ Status = 201 /\ \E s \in SessionIds : ProvisionOk(r, s)
    \/ Status = 400 /\ ProvisionFail(r)

PathNext ==
    \/ \E w \in Windows : SetWindow(w)
    \/ \E r \in Requests, d \in Definition : Tune(r, d)
    \/ \E r \in Requests : Provisioned(r)
    \/ \E s \in SessionIds : CloseSession(s)

PathSpec == Init /\ [][PathNext]_vars

\* The integration test expects a tune inside the service band, which the policy
\* admits, to create a session and a channel.  It is refused, each time.
AdmittedIsGranted ==
    [][\A r \in Requests :
           r \in DOMAIN pending /\ r \notin DOMAIN pending' => reply'[r] = "granted"]_vars
============================================================================
