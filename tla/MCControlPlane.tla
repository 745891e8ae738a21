--------------------------- MODULE MCControlPlane ---------------------------
(* ControlPlane for TLC: small sets of model values, and their symmetries. *)
EXTENDS ControlPlane, TLC

CONSTANTS w1, w2

\* The second window serves nothing: the tunes that meet it are refused.
MCServes == w1 :> Tunings @@ w2 :> {}

Interchangeable == Permutations(Calls) \cup Permutations(SessionIds)
============================================================================
