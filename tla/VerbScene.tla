------------------------------ MODULE VerbScene ------------------------------
(* The objects a sentence may speak of, with the words that name them, as     *)
(* loadObjects() finds them around the player (ParserPackage.cpp).            *)
EXTENDS VerbRules

CONSTANT World      \* what is where, and what it is called

\* World: player, room (the player's environment), kids (what is in what, a
\* sequence), users (the master's parse_command_users()) and info: what the
\* parse_command functions of each object answered, the objects that called
\* parse_init().  Objects are loaded in the order they are met; an object whose
\* inventory is not visible hides it, one that is closed puts it out of reach.
Known(ob) == ob \in DOMAIN World.info

RECURSIVE recAddObject(_, _, _)
recAddObject(ob, reach, mine) ==
    LET Kids(r, m) == FlattenSeq([i \in DOMAIN World.kids[ob] |->
                          recAddObject(World.kids[ob][i], r, m)])
        info == World.info[ob]
    IN  IF ~Known(ob) THEN Kids(reach, mine)
        ELSE <<[ob |-> ob, reach |-> reach, mine |-> mine, remote |-> FALSE]>>
             \o (IF info.visible
                 THEN Kids(reach /\ info.open, mine \/ ob = World.player) ELSE <<>>)

EnvOf(ob) ==
    IF \E e \in DOMAIN World.kids : ob \in Range(World.kids[e])
    THEN CHOOSE e \in DOMAIN World.kids : ob \in Range(World.kids[e]) ELSE None

\* A user whose way up to the player's room is visible has been loaded with it.
RECURSIVE InRoom(_)
InRoom(ob) ==
    \/ ob = World.room
    \/ LET env == EnvOf(ob)
       IN  env # None /\ (Known(env) => World.info[env].visible) /\ InRoom(env)

People == SelectSeq(World.users, LAMBDA ob : Known(ob) /\ ~InRoom(ob))

loadObjects ==
    recAddObject(World.room, TRUE, FALSE)
    \o [i \in DOMAIN People |->
          [ob |-> People[i], reach |-> TRUE, mine |-> FALSE, remote |-> TRUE]]

\* The loaded objects, by their index, and the hash table of their words.
Scene ==
    LET objs == loadObjects
        all  == DOMAIN objs
        Info(i) == World.info[objs[i].ob]
    IN  [objs |-> objs, all |-> all,
         near |-> {i \in all : ~objs[i].remote},
         me |-> {i \in all : objs[i].ob = World.player /\ ~objs[i].remote},
         living |-> {i \in all : Info(i).living},
         reach |-> {i \in all : objs[i].reach},
         noun   |-> [w \in World.words |-> {i \in all : w \in Info(i).nouns}],
         plural |-> [w \in World.words |-> {i \in all : w \in Info(i).plurals}],
         adj    |-> [w \in World.words |-> {i \in all : \/ w \in Info(i).adjs
                                                        \/ w = "my" /\ objs[i].mine}],
         \* "my" is an adjective whoever owns something.
         isAdj  |-> {w \in World.words : w = "my" \/ \E i \in all : w \in Info(i).adjs}]

\* Nouns are looked up as special words first.  Longer ordinals are left out.
Ordinals == [a |-> 1, an |-> 1, any |-> 1, first |-> 1, second |-> 2, other |-> 2, third |-> 3]

checkSpecialWord(w) ==
    CASE w = "the" -> "Article"
      [] w \in {"me", "myself"} -> "Self"
      [] w = "all" -> "All"
      [] w = "of" -> "Of"
      [] w \in DOMAIN Ordinals -> "Ordinal"
      [] OTHER -> "None"

=============================================================================
