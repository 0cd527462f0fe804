------------------------------- MODULE MCPromise -------------------------------
(* Instances of Promise; all of its runs check liveness, so none uses symmetry. *)
EXTENDS Promise, TLC
=============================================================================
