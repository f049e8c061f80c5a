---------------------------- MODULE MCDriverCalls ----------------------------
(* Instances of DriverCalls for TLC: a player and a thing in a room. *)
EXTENDS DriverCalls

CONSTANTS player, room, thing

MCObjects == {player, room, thing}
MCRegistry == <<room, thing, player>>
MCHome == [o \in MCObjects |-> IF o = room THEN None ELSE room]
MCGiven == [o \in MCObjects |->
    IF o # player THEN <<>>
    ELSE <<[verb |-> <<"g">>, flag |-> 0, owner |-> thing, stamp |-> 2],
           [verb |-> <<>>, flag |-> 1, owner |-> room, stamp |-> 1]>>]
MCTyped == {<<"g">>}
MCArgs == {<<<<"g">>, 0>>, <<<<>>, 1>>}
=============================================================================
