--------------------------- MODULE MCShadowChain ---------------------------
(* Five objects; o1 is the master.  The others are interchangeable. *)
EXTENDS ShadowChain, TLC

CONSTANTS o1, o2, o3, o4, o5

MCObjects  == {o1, o2, o3, o4, o5}
MCSymmetry == Permutations({o2, o3, o4, o5})
=============================================================================
