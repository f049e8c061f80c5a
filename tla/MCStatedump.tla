----------------------------- MODULE MCStatedump -----------------------------
(* Instances of Statedump for TLC. *)
EXTENDS Statedump

MCSlots == 1..4
MCFiles == {"master", "room", "thing"}
=============================================================================
