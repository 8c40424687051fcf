------------------------------ MODULE MCProbe ------------------------------
(* Instances of Probe: one file, which is replaced or removed and back.    *)
EXTENDS Probe
CONSTANTS p1
=============================================================================
