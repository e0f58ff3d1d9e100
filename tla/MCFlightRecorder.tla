-------------------------- MODULE MCFlightRecorder --------------------------
(* Instances of FlightRecorder for TLC: one file in the watched directory   *)
(* and one in a subdirectory that does not exist at first.                  *)
EXTENDS FlightRecorder, TLC

CONSTANTS f, g, top, sub, x

MCDirOf == (f :> top) @@ (g :> sub)

(* What f holds before its first event is never read: one content stands    *)
(* for all of them.                                                         *)
MCInit == FRInit /\ fs[f] \in {x, Nil}

MCFairSpec == MCInit /\ [][FRNext]_allVars /\ FRFairness
=============================================================================
