----------------------------- MODULE MCSockets -----------------------------
(* Two interchangeable objects. *)
EXTENDS Sockets, TLC

CONSTANTS a, b

MCObjects  == {a, b}
MCSymmetry == Permutations(MCObjects)
=============================================================================
