---------------------------- MODULE MCSessionRefs ----------------------------
(* SessionRefs on a small instance.  Slots of Stub are interchangeable.        *)
EXTENDS SessionRefs, TLC

StubSymmetry == Permutations(Stub)
=============================================================================
