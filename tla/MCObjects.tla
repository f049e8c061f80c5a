----------------------------- MODULE MCObjects -----------------------------
(* Three objects and two paths. *)
EXTENDS Objects, TLC

CONSTANTS o1, o2, o3, f1, f2

MCObj  == {o1, o2, o3}
MCFile == {f1, f2}
MCLoose == {o1}
MCEditable == {f1}
MCSymmetry == Permutations(MCObj \ MCLoose)
=============================================================================
