----------------------------- MODULE MCSessions -----------------------------
(* Three interchangeable objects. *)
EXTENDS Sessions, TLC

CONSTANTS a, b, o

MCObjects  == {a, b, o}
NoShadows  == [x \in MCObjects |-> {}]
MCSymmetry == Permutations(MCObjects)
=============================================================================
