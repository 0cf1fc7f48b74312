------------------------------ MODULE MCViewer ------------------------------
(***************************************************************************)
(* Instances of CapabilityFill and TileWarming for TLC: what the viewer is *)
(* served after a preflight.  The two share nothing, so a behaviour shows  *)
(* one of them and leaves the other in its initial state: part says which. *)
(***************************************************************************)
EXTENDS CapabilityFill, TileWarming

CONSTANTS c1, c2, k1, k2, w1, w2, j1, j2

VARIABLE part

\* A POST asks for one capability, a view of an imported job for all of them.
MCAsks == {{c1}, {c1, c2}}

ViewerInit == Init /\ TileInit /\ part \in {"fill", "warm"}

ViewerNext == \/ part = "fill" /\ Next /\ UNCHANGED <<tileVars, part>>
              \/ part = "warm" /\ TileNext /\ UNCHANGED <<vars, part>>

ViewerSpec == /\ ViewerInit /\ [][ViewerNext]_<<vars, tileVars, part>>
              /\ Fairness /\ WarmFairness
=============================================================================
