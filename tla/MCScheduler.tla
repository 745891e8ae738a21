---------------------------- MODULE MCScheduler ----------------------------
(* Scheduler for TLC: the windows and what lies in their service bands.    *)
EXTENDS Scheduler, TLC

CONSTANTS w1, w2, t1, t2

\* Window w1 serves both tunings; w2, which may replace it, only one of them.
MCServes == w1 :> {t1, t2} @@ w2 :> {t1}

\* Ids are compared and nothing else, and the properties of the run are safety.
Symmetry == Permutations(Requests) \cup Permutations(ChannelIds) \cup Permutations(SessionIds)
============================================================================
