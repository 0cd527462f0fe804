------------------------------ MODULE MCResources ------------------------------
(* Instances of Resources; the runs check liveness, so none uses symmetry.      *)
EXTENDS Resources, TLC
=============================================================================
