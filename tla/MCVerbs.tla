------------------------------- MODULE MCVerbs -------------------------------
(* Instances of Verbs for TLC: two balls, one in the player's hands, a closed *)
(* box with a coin in it and another player in the room, a third far away.    *)
EXTENDS Verbs

Info(nouns, plurals, adjs, living, visible, open) ==
    [nouns |-> nouns, plurals |-> plurals, adjs |-> adjs, living |-> living,
     visible |-> visible, open |-> open]

Room    == Info({}, {}, {}, FALSE, TRUE, TRUE)
Player  == Info({}, {}, {}, TRUE, TRUE, TRUE)
RedBall == Info({"ball"}, {"balls"}, {"red"}, FALSE, FALSE, FALSE)
Ball    == Info({"ball"}, {"balls"}, {"blue"}, FALSE, FALSE, FALSE)
Bob     == Info({"bob"}, {}, {}, TRUE, FALSE, FALSE)
Box     == Info({"box"}, {}, {"red"}, FALSE, TRUE, FALSE)
Coin    == Info({"coin"}, {}, {}, FALSE, FALSE, FALSE)
Ann     == Info({"ann"}, {}, {}, TRUE, FALSE, FALSE)

MCInfo == [room |-> Room, me |-> Player, red |-> RedBall, blue |-> Ball, bob |-> Bob,
           box |-> Box, coin |-> Coin, ann |-> Ann]
MCWords == {"ball", "balls", "red", "blue", "bob", "box", "coin", "ann", "me", "my", "all",
            "of", "the", "second", "a", "to", "at", "about", "in", "v", "hi"}
MCWorld ==
    [player |-> "me", room |-> "room", users |-> <<"bob", "ann">>, info |-> MCInfo,
     words |-> MCWords,
     kids |-> [o \in DOMAIN MCInfo |->
                 CASE o = "room" -> <<"red", "me", "bob", "box">>
                   [] o = "me" -> <<"blue">>
                   [] o = "box" -> <<"coin">>
                   [] OTHER -> <<>>]]

MCVerbNames == {<<"v">>, <<"v", "at">>, <<"t">>}
MCLiterals == <<"to", "at", "about", "in">>

Lit(w) == Word(w, {})
OBJ == Word("OBJ", {})
LIV == Word("LIV", {})
OBS == Word("OBS", {})
STR == Word("STR", {})
WRD == Word("WRD", {})

MCRules ==
    {<<<<"v">>, <<OBJ>>>>, <<<<"v">>, <<OBS>>>>, <<<<"v">>, <<Word("OBJ", {"v", "c"})>>>>,
     <<<<"v">>, <<STR>>>>, <<<<"v">>, <<OBJ, Lit("to"), LIV>>>>, <<<<"v">>, <<OBS, Lit("to"), LIV>>>>,
     <<<<"v">>, <<LIV, Lit("about"), STR>>>>, <<<<"v">>, <<WRD, STR>>>>, <<<<"v">>, <<STR, Lit("to"), LIV>>>>,
     <<<<"v">>, <<Lit("at"), OBJ>>>>, <<<<"v", "at">>, <<OBJ>>>>, <<<<"v">>, <<OBJ, OBJ>>>>}

MCSynonyms == {<<<<"t">>, <<"v">>, <<>>>>, <<<<"t">>, <<"v">>, <<OBJ>>>>}

MCSentences ==
    {<<"v", "ball">>, <<"v", "red", "ball">>, <<"v", "my", "ball">>, <<"v", "second", "ball">>,
     <<"v", "the", "balls">>, <<"v", "all">>, <<"v", "all", "of", "the", "balls">>, <<"v", "coin">>,
     <<"v", "me">>, <<"v", "at", "a", "red", "ball">>, <<"v", "blue", "ball", "to", "bob">>,
     <<"v", "ball", "to", "bob">>, <<"v", "balls", "to", "me">>, <<"v", "bob", "about", "ball">>,
     <<"v", "ball", "to", "ann">>, <<"t", "ball">>, <<"v", "hi", "to", "bob", "to", "bob">>,
     <<"v">>}

Mind(can, red, blue, bob, apart) ==
    [can |-> can, handler |-> "yes",
     direct |-> [o \in DOMAIN MCInfo |->
                   CASE o = "red" -> red [] o = "blue" -> blue [] OTHER -> "undef"],
     indirect |-> [o \in DOMAIN MCInfo |-> IF o = "bob" THEN bob ELSE "undef"],
     apart |-> apart, remote |-> {"h"}]

MCOnly == {None, "h"}

MCMinds ==
    {Mind("undef", r, b, "yes", {}) :
       <<r, b>> \in {<<"yes", "yes">>, <<"yes", "no">>, <<"no", "hash">>, <<"text", "undef">>,
                    <<"yes", "text">>}}
    \cup {Mind("undef", "yes", "yes", bob, {}) : bob \in {"no", "text", "hash"}}
    \cup {Mind("undef", "yes", "yes", "yes", a) : a \in {{<<2, 5>>}, {<<4, 5>>}}}
    \cup {Mind("text", "yes", "no", "yes", {})}
=============================================================================
