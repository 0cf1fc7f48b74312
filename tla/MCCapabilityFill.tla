-------------------------- MODULE MCCapabilityFill --------------------------
(* One view and no faults, for TLC. *)
EXTENDS CapabilityFill

CONSTANTS c1, c2, k1, k2, w1, w2

\* A POST asks for one capability, a view of an imported job for all of them.
MCAsks == {{c1}, {c1, c2}}
=============================================================================
