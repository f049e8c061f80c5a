-------------------------------- MODULE Verbs --------------------------------
(* Sentences are parsed by the rules there are (parse_sentence() and          *)
(* parse_my_rules()) while handlers change the table (VerbHandlers).          *)
(*                                                                            *)
(* What parse_sentence() ought to find is stated without a search: a reading  *)
(* of a sentence by a rule hands every word to one of its tokens, each of     *)
(* which takes what is handed to it; it is clean if the objects it speaks of  *)
(* agree.                                                                     *)
EXTENDS VerbParser, VerbHandlers

CONSTANTS
    Sentences,      \* the sentences parsed, as words
    Only,           \* who calls parse_my_rules(), None for parse_sentence()
    Minds           \* what the functions of the objects answer

VARIABLE outcome    \* the parse that has just returned

vars == <<table, dead, outcome, ops>>

NoParse == [done |-> FALSE]

----------------------------------------------------------------------------
(* What a sentence may mean *)

Adjectives(scene, objs, ws) ==
    {i \in objs : \A k \in DOMAIN ws : i \in scene.adj[ws[k]]}

AreAdjectives(scene, ws) == \A k \in DOMAIN ws : ws[k] \in scene.isAdj

Fit(scene, tok, objs) ==
    {i \in objs : (tok.liv => i \in scene.living) /\ (tok.vis \/ i \in scene.reach)}

\* What a phrase may stand for: objects, of which the ord-th, the only one
\* (ord = 0) or all are meant.
Thing(objs, ord, pl) == [objs |-> objs, ord |-> ord, pl |-> pl, words |-> <<>>]
Text(first, last) == [Thing({}, 0, FALSE) EXCEPT !.words = <<first, last>>]

Phrases(scene, tok, all, ws) ==
    LET c == SelectSeq(ws, LAMBDA w : w # "the")
        ord == IF c # <<>> /\ c[1] \in DOMAIN Ordinals THEN Ordinals[c[1]] ELSE 0
        body == IF ord = 0 THEN c ELSE Tail(c)
        many == IF IsPrefix(<<"all", "of">>, c) THEN SubSeq(c, 3, Len(c)) ELSE c
        One(objs) == Fit(scene, tok, Adjectives(scene, objs \cap scene.noun[Last(body)],
                                                Front(body)))
        Many(objs) == Fit(scene, tok, Adjectives(scene, objs \cap scene.plural[Last(many)],
                                                 Front(many)))
        things ==
            (IF Len(c) = 1 /\ c[1] \in {"me", "myself"}
             THEN {Thing(scene.me, 0, tok.pl)} ELSE {})
            \cup (IF c = <<"all">> /\ tok.pl THEN {Thing(all, 0, TRUE)} ELSE {})
            \cup (IF body # <<>> /\ AreAdjectives(scene, Front(body))
                  THEN {Thing(One(all), ord, FALSE)} ELSE {})
            \cup (IF many # <<>> /\ tok.pl /\ AreAdjectives(scene, Front(many))
                  THEN {Thing(Many(all), 0, TRUE)} ELSE {})
    IN  IF Last(ws) = "the" THEN {} ELSE {t \in things : t.objs # {}}

\* What a token may take the words first..last for.
Takes(scene, tok, all, words, first, last) ==
    CASE tok.t = "lit" -> IF first = last /\ words[first] = tok.lit THEN {Text(first, last)} ELSE {}
      [] tok.t = "wrd" -> IF first = last THEN {Text(first, last)} ELSE {}
      [] tok.t = "str" -> {Text(first, last)}
      [] tok.t = "obj" -> Phrases(scene, tok, all, SubSeq(words, first, last))

\* All readings of the words (but the verb) by the rule, a sequence of what its
\* tokens take.  cuts are the first words of all tokens but the first.
Readings(scene, node, all, words) ==
    LET k == Len(node.tokens)
        n == Len(words)
        By(cuts) ==
            LET starts == <<2>> \o InOrder(cuts)
                Of(i) == Takes(scene, node.tokens[i], all, words, starts[i],
                               IF i = k THEN n ELSE starts[i + 1] - 1)
            IN  {f \in [1..k -> UNION {Of(i) : i \in 1..k}] : \A i \in 1..k : f[i] \in Of(i)}
    IN  IF n = 1 THEN IF k = 0 THEN {<<>>} ELSE {}
        ELSE IF k = 0 THEN {}
        ELSE UNION {By(cuts) : cuts \in {c \in SUBSET (3..n) : Cardinality(c) = k - 1}}

\* The object one phrase comes to once the objects have been asked: a set.
Alone1(s, thing, ch) ==
    LET Says(i) == Answer(s, 1, <<>>, i)
        willing == InOrder({i \in thing.objs : Says(i) \in {"yes", "text"}})
        at == IF thing.ord # 0 THEN thing.ord ELSE 1
    IN  IF thing.pl THEN {i \in thing.objs : Says(i) = "yes"}
        ELSE IF Len(willing) < at \/ (thing.ord = 0 /\ ~ch /\ Len(willing) > 1) THEN {}
        ELSE {i \in {willing[at]} : Says(i) = "yes"}

\* The objects two phrases come to: those of the pairs that agree, which must
\* be one where one is meant.
Together(s, d, i) ==
    LET pairs == {p \in d.objs \X i.objs :
                    /\ Answer(s, 1, <<>>, p[1]) = "yes" /\ Answer(s, 2, <<>>, p[2]) = "yes"
                    /\ p \notin s.lpc.apart}
        ds == {p[1] : p \in pairs}
        is == {p[2] : p \in pairs}
    IN  IF \/ ~d.pl /\ Cardinality(ds) > 1
           \/ ~i.pl /\ Cardinality(is) > 1
        THEN <<{}, {}>> ELSE <<ds, is>>

\* The arguments of the reading if it is clean: a set of at most one sequence.
CleanArgs(s, node, reading) ==
    LET objs == SelectSeq([i \in DOMAIN reading |-> i], LAMBDA i : node.tokens[i].t = "obj")
        two == Together(s, reading[objs[1]], reading[objs[2]])
        Sets == CASE Len(objs) = 0 -> <<>>
                  [] Len(objs) = 1 ->
                       <<Alone1(s, reading[objs[1]], node.tokens[objs[1]].ch)>>
                  [] OTHER -> two
        Arg(i) == IF node.tokens[i].t # "obj" THEN reading[i].words
                  ELSE Sets[CHOOSE j \in DOMAIN objs : objs[j] = i]
        kept == SelectSeq([i \in DOMAIN reading |-> i], LAMBDA i : node.tokens[i].t # "lit")
    IN  IF Heard(s, s.lpc.can) # "yes" \/ \E j \in DOMAIN Sets : Sets[j] = {} THEN {}
        ELSE {[x \in DOMAIN kept |-> Arg(kept[x])]}

\* Every clean reading of a sentence by the rules of the table.
CleanReadings(s, sentence, only) ==
    LET Nodes(n) == UNION {Range(TargetOf(table, table[SubSeq(sentence, 1, n)][e])[1].nodes) :
                             e \in {x \in DOMAIN table[SubSeq(sentence, 1, n)] :
                                      TargetOf(table, table[SubSeq(sentence, 1, n)][x]) # <<>>}}
        Clean(n, node) ==
            LET words == <<"verb">> \o SubSeq(sentence, n + 1, Len(sentence))
            IN  UNION {CleanArgs(s, node, r) :
                         r \in Readings(s.scene, node, AllObjects([s EXCEPT !.node = node]), words)}
    IN  UNION {UNION {{[node |-> node, verb |-> SubSeq(sentence, 1, n), args |-> a] :
                         a \in Clean(n, node)} :
                 node \in {x \in Nodes(n) : only \in {None, x.handler}}} :
          n \in {x \in DOMAIN sentence : SubSeq(sentence, 1, x) \in Verbs}}

----------------------------------------------------------------------------
(* The efuns *)

\* parse_sentence() with only = None, parse_my_rules() called by only.
Parse(sentence, lpc, only) ==
    /\ ~outcome.done /\ only \notin dead
    /\ LET Outcome(s) == [done |-> TRUE, sentence |-> sentence, lpc |-> lpc, only |-> only,
                          weight |-> s.bestWeight, result |-> s.result,
                          clean |-> CleanReadings(NewSession(Scene, lpc), sentence, only)]
       IN  outcome' = Outcome(runParseMatch(table, sentence, Scene, lpc, only))
    /\ UNCHANGED <<table, dead, ops>>

Returned ==
    /\ outcome.done
    /\ outcome' = NoParse
    /\ UNCHANGED <<table, dead, ops>>

Init == TableInit /\ outcome = NoParse

Next ==
    \/ ~outcome.done /\ TableNext /\ UNCHANGED outcome
    \/ \E w \in Sentences, m \in Minds, only \in Only : Parse(w, m, only)
    \/ Returned

Spec == Init /\ [][Next]_vars

----------------------------------------------------------------------------
(* Properties *)

\* The objects of a plural phrase have only answered with strings: the handler
\* is called with these in their place.
OnlyReservations(result) ==
    LET kept == SelectSeq(result.node.tokens, LAMBDA tok : tok.t # "lit")
    IN  \E i \in DOMAIN kept : kept[i].pl /\ result.args[i] = {}

\* What a handler's do_ function is called with is a clean reading of the
\* sentence by its rule: backtracking has left no match, object or error of
\* another reading behind.
CallsCleanReading ==
    outcome.done /\ outcome.weight # 0 =>
        outcome.result \in outcome.clean \/ OnlyReservations(outcome.result)

\* A sentence with a clean reading is understood, by a rule no lighter than any
\* that reads it cleanly: neither the first literals of a rule nor the errors of
\* other readings have kept the search from it.
HeaviestCalled ==
    outcome.done => \A c \in outcome.clean : outcome.weight >= c.node.weight

=============================================================================
