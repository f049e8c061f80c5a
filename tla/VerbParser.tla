------------------------------ MODULE VerbParser ------------------------------
(* The search for a reading of a sentence: the words handed to the tokens of  *)
(* a rule with backtracking (parseRule(), parseObj()), the objects asked      *)
(* whether they agree (weAreFinished()), and the best reading, or else the    *)
(* best error, kept (ParserPackage.cpp).                                      *)
(*                                                                            *)
(* s is the SentenceSession all calls share, with the matches and errors they *)
(* overwrite; st is the MatchState each alternative copies.  What the LPC     *)
(* functions can_, direct_ and indirect_ answer is a parameter: undef (not    *)
(* defined), yes (a true number), no (0), text (a string) or hash (a string   *)
(* that begins with #).  They are taken to change nothing the search reads.   *)
(* Of an error its kind is kept, of the functions' names nothing.             *)
EXTENDS VerbScene

----------------------------------------------------------------------------
(* Matches and errors *)

NewState == [tok |-> 1, word |-> 2, nm |-> 0, ne |-> 0, no |-> 0]

\* number: the object chosen, by its index; 0 when there is none.
SentenceMatch(tok, first, last, obs, ord) ==
    [tok |-> tok, first |-> first, last |-> last, obs |-> obs, ord |-> ord, number |-> 0]

\* The match takes the slot after those of its own alternative.
addMatch(s, st, m) == [s EXCEPT !.matches = Append(SubSeq(@, 1, st.nm), m)]
Matched(st)  == [st EXCEPT !.nm = @ + 1, !.no = @ + 1]
Passed(st)   == [st EXCEPT !.nm = @ + 1]
Mistaken(st) == [st EXCEPT !.nm = @ + 1, !.ne = @ + 1]

\* state.numErrors++, the error being kept if it is the first.
Erring(r, err) == [r EXCEPT !.ne = @ + 1, !.s.cur = IF r.ne = 0 THEN err ELSE @]

exploreErrors(s, st) == s.bestWeight = 0 /\ st.ne < s.bestErrors

----------------------------------------------------------------------------
(* Asking the objects *)

\* A function the asked object does not define is looked for in the handler.
Heard(s, answer) == IF answer = "undef" THEN s.lpc.handler ELSE answer

\* can_: the result is [ok, s, ne]; ok is FALSE when this reading has as many
\* errors as the best one already.
checkFunctions(s, ne) ==
    LET r == [ok |-> TRUE, s |-> s, ne |-> ne] IN
    IF Heard(s, s.lpc.can) = "yes" THEN r
    ELSE IF ne = s.bestErrors THEN [r EXCEPT !.ok = FALSE]
    ELSE Erring(r, "Allocated")

\* direct_ and indirect_ of one object (which = 1, 2), or of one in a given
\* pair (4, 5).
Answer(s, which, pair, i) ==
    LET ob == s.scene.objs[i].ob IN
    IF which >= 4 /\ pair \in s.lpc.apart THEN "no"
    ELSE Heard(s, IF which \in {1, 4} THEN s.lpc.direct[ob] ELSE s.lpc.indirect[ob])

\* The result is [ok, s]; the error it leaves is in s.par.
parallelCheckFunctions(s, ne, which, pair, i) ==
    LET a == Answer(s, which, pair, i) IN
    [ok |-> a \in {"yes", "text"},
     s  |-> [s EXCEPT !.par = IF a \in {"text", "hash"} \/ (a # "yes" /\ ne = 0)
                              THEN "Allocated" ELSE None]]

\* The object alone is asked.
Alone(s, ne, which, i) == parallelCheckFunctions(s, ne, which, <<>>, i)

useLastParallelError(r) ==
    IF r.s.par = None THEN r
    ELSE LET e == Erring(r, r.s.par)
         IN  [e EXCEPT !.s.par = IF r.ne = 0 THEN None ELSE @]

InOrder(set) == SelectSeq([i \in 1..Max({0} \cup set) |-> i], LAMBDA i : i \in set)

\* The n-th of those that agree; r is [s, ne, m, left, passed, done].
OrdinalAnswer(r, a, i) ==
    LET q == [r EXCEPT !.s = a.s, !.passed = @ - 1]
        u == useLastParallelError(q)
    IN  IF ~a.ok
        THEN [q EXCEPT !.m.obs = @ \ {i},
                       !.s.second = IF q.passed = 0 THEN a.s.par ELSE @,
                       !.s.par = IF q.passed = 0 THEN None ELSE @]
        ELSE IF r.left > 1 THEN [q EXCEPT !.left = @ - 1]
        ELSE IF u.ne > q.ne THEN [u EXCEPT !.m.tok = ErrorToken, !.done = TRUE]
        ELSE [q EXCEPT !.m.number = i, !.done = TRUE]

OrdinalCheck(r, which, i) ==
    IF r.done THEN r ELSE OrdinalAnswer(r, Alone(r.s, r.ne, which, i), i)

\* The only one that agrees; agreed counts them.
OnlyAnswer(r, a, i) ==
    LET q == [r EXCEPT !.s = a.s]
        u == useLastParallelError([q EXCEPT !.agreed = 1])
    IN  IF ~a.ok THEN [q EXCEPT !.m.obs = @ \ {i}]
        ELSE IF r.agreed > 0 THEN [q EXCEPT !.agreed = @ + 1, !.match = 0]
        ELSE IF u.ne > q.ne THEN [u EXCEPT !.m.tok = ErrorToken, !.wrong = TRUE]
        ELSE IF r.m.tok.ch THEN [u EXCEPT !.m.number = i, !.done = TRUE]
        ELSE [u EXCEPT !.match = i]

OnlyCheck(r, which, i) ==
    IF r.done THEN r ELSE OnlyAnswer(r, Alone(r.s, r.ne, which, i), i)

\* None of them was the n-th.
NoSuchOrdinal(r) ==
    LET e == Erring([r EXCEPT !.m.tok = ErrorToken],
                    IF r.passed <= 0 THEN r.s.second ELSE "Ordinal")
    IN  [e EXCEPT !.s.second = IF r.ne = 0 /\ r.passed <= 0 THEN None ELSE @]

\* None, or too many, have agreed: the error of the first that did is undone.
NotOne(undo, agreed) ==
    LET late == useLastParallelError(undo)
    IN  IF agreed = 0 /\ late.ne > undo.ne THEN late ELSE Erring(undo, "Ambig")

OnlyOne(r) ==
    IF r.done THEN r
    ELSE IF r.agreed = 1 THEN [r EXCEPT !.m.number = r.match]
    ELSE NotOne([r EXCEPT !.ne = IF r.wrong THEN @ - 1 ELSE @, !.m.tok = ErrorToken], r.agreed)

OrdinalOne(r) == IF r.done THEN r ELSE NoSuchOrdinal(r)

singularCheckFunctions(s, ne, which, m) ==
    LET start == [s |-> s, ne |-> ne, m |-> m, done |-> FALSE] IN
    IF m.ord # 0
    THEN OrdinalOne(FoldLeft(LAMBDA r, i : OrdinalCheck(r, which, i),
                             start @@ [left |-> m.ord, passed |-> m.ord], InOrder(m.obs)))
    ELSE OnlyOne(FoldLeft(LAMBDA r, i : OnlyCheck(r, which, i),
                          start @@ [agreed |-> 0, match |-> 0, wrong |-> FALSE], InOrder(m.obs)))

\* Those that agree with no reservation; the errors of the others are kept for
\* the handler.
\* Nothing was found: u is the result with the error taken over, if any.
OrError(r, u) ==
    IF r.found THEN r ELSE [u EXCEPT !.m.tok = IF u.ne > r.ne THEN ErrorToken ELSE @]

PluralResult(r) == OrError(r, useLastParallelError(r))

pluralCheckFunctions(s, ne, which, m) ==
    LET Check(r, a, i) ==
            LET saved == a.ok /\ a.s.par # None
            IN  [r EXCEPT !.s = IF saved THEN [a.s EXCEPT !.par = None] ELSE a.s,
                          !.m.obs = IF a.ok /\ ~saved THEN @ ELSE @ \ {i},
                          !.found = @ \/ (a.ok /\ ~saved)]
    IN  PluralResult(FoldLeft(LAMBDA r, i : Check(r, Alone(r.s, r.ne, which, i), i),
                              [s |-> s, ne |-> ne, m |-> m, found |-> FALSE], InOrder(m.obs)))

useCachedParallelError(r, err) == IF err = None THEN r ELSE Erring(r, err)

DependentResult(r) ==
    OrError(r, IF r.err # None THEN useCachedParallelError(r, r.err) ELSE useLastParallelError(r))

\* One of two objects: the first that agrees, until the pairs are looked at.
dependentCheckFunctions(s, ne, which, m) ==
    LET Check(r, a, i) ==
            LET cached == a.ok /\ a.s.par # None
            IN  IF a.ok /\ ~cached
                THEN [r EXCEPT !.s = a.s, !.found = TRUE,
                               !.m.number = IF r.found THEN @ ELSE i]
                ELSE [r EXCEPT !.m.obs = @ \ {i},
                               !.err = IF cached THEN a.s.par ELSE @,
                               !.s = IF cached THEN [a.s EXCEPT !.par = None] ELSE a.s]
    IN  DependentResult(FoldLeft(LAMBDA r, i : Check(r, Alone(r.s, r.ne, which, i), i),
                                 [s |-> s, ne |-> ne, m |-> m, found |-> FALSE, err |-> None],
                                 InOrder(m.obs)))

----------------------------------------------------------------------------
(* Two objects *)

\* One pair, the direct object asked first or not.  The error of the first
\* answer no longer counts once the second object has agreed.
BothAnswers(a, b) ==
    LET err == IF a.s.par # None THEN a.s.par ELSE IF b.ok THEN b.s.par ELSE None IN
    IF ~a.ok THEN [s |-> a.s, complete |-> FALSE, error |-> TRUE, err |-> None]
    ELSE [s |-> IF b.ok /\ a.s.par = None THEN [b.s EXCEPT !.par = None] ELSE b.s,
          complete |-> b.ok,
          error |-> ~b.ok \/ (a.s.par = None /\ b.s.par # None),
          err |-> err]

checkOneRelation(s, ne, directFirst, d, i) ==
    LET First  == parallelCheckFunctions(s, ne, IF directFirst THEN 4 ELSE 5, <<d, i>>,
                                         IF directFirst THEN d ELSE i)
        Then(a) == BothAnswers(a, parallelCheckFunctions([a.s EXCEPT !.par = None], ne,
                                         IF directFirst THEN 5 ELSE 4, <<d, i>>,
                                         IF directFirst THEN i ELSE d))
    IN  Then(First)

\* One pair of the search; r is [s, ne, err, ord, dir, ind, dirs, inds, fail, stop].
PairAnswer(r, c, shape, d, i) ==
    LET q == [r EXCEPT !.s = c.s, !.err = IF c.err # None THEN c.err ELSE @]
        ord == IF r.ord > 0 THEN r.ord - 1 ELSE r.ord
    IN  IF ~c.complete THEN q
        ELSE IF shape.oneIndirect /\ r.ind \notin {0, i} THEN [q EXCEPT !.fail = "indirect"]
        ELSE IF ord <= 0 /\ shape.oneDirect /\ r.dir \notin {0, d}
             THEN [q EXCEPT !.ord = ord, !.fail = "direct"]
        ELSE [q EXCEPT !.ord = ord, !.ind = i,
                       !.dir = IF ord <= 0 THEN d ELSE @,
                       !.dirs = IF ~c.error /\ ord <= 0 THEN @ \cup {d} ELSE @,
                       !.inds = IF ~c.error THEN @ \cup {i} ELSE @]

Pair(r, shape, d, i) ==
    IF r.fail # None THEN r
    ELSE PairAnswer(r, checkOneRelation(r.s, r.ne, shape.oneIndirect, d, i), shape, d, i)

\* The search ends early for an ordinal that is used up or for a choice,
\* unless the direct object found is the first of all (index 0 in the code).
RowEnd(r, shape) ==
    [r EXCEPT !.stop = r.dir # 1 /\ (r.ord = 0 \/ (shape.oneDirect /\ shape.choose))]

Row(r, shape, d, inds) ==
    IF r.fail # None \/ r.stop THEN r
    ELSE RowEnd(FoldLeft(LAMBDA x, i : Pair(x, shape, d, i), r, inds), shape)

\* The objects of the pairs found, kept in matches k and l.
Related(r, k, l, shape) ==
    [s |-> [r.s EXCEPT !.matches[k].obs = r.dirs, !.matches[l].obs = r.inds,
                       !.matches[k].number = IF shape.oneDirect THEN r.dir ELSE 1,
                       !.matches[l].number = IF shape.oneIndirect THEN r.ind ELSE 1],
     ne |-> r.ne]

\* No pair was found; u is the result with the error taken over, if any.
Unrelated(r, u, k, l) ==
    [u EXCEPT !.s.matches[IF r.dir = 0 THEN k ELSE l].tok = IF u.ne > r.ne THEN ErrorToken ELSE @]

\* The set an ordinal has been applied to is kept even on failure.
RelationsEnd(r, k, l, shape, chosen, narrowed) ==
    LET done == Related(r, k, l, shape)
        kept == IF narrowed THEN [r.s EXCEPT !.matches[l].obs = Range(chosen)] ELSE r.s
    IN  IF r.fail # None
        THEN Erring([s |-> [kept EXCEPT !.matches[l].tok = ErrorToken], ne |-> r.ne], "Ambig")
        ELSE IF r.dir # 0 /\ r.ind # 0 THEN done
        ELSE Unrelated(r, IF r.err # None THEN useCachedParallelError(done, r.err)
                          ELSE useLastParallelError(done), k, l)

Relations(s, ne, k, l, inds) ==
    LET direct == s.matches[k]
        indirect == s.matches[l]
        chosen == IF indirect.ord = 0 THEN inds ELSE <<inds[indirect.ord]>>
        shape == [oneDirect |-> ~direct.tok.pl, oneIndirect |-> ~indirect.tok.pl,
                  choose |-> direct.tok.ch]
        start == [s |-> s, ne |-> ne, err |-> None,
                  ord |-> IF direct.ord = 0 THEN -1 ELSE direct.ord,
                  dir |-> 0, ind |-> 0, dirs |-> {}, inds |-> {}, fail |-> None, stop |-> FALSE]
    IN  IF indirect.ord > Len(inds)
        THEN Erring([s |-> [s EXCEPT !.matches[l].tok = ErrorToken], ne |-> ne], "Ordinal")
        ELSE RelationsEnd(FoldLeft(LAMBDA x, d : Row(x, shape, d, chosen), start,
                                   InOrder(direct.obs)),
                          k, l, shape, chosen, indirect.ord # 0)

checkObjectRelations(s, st, ne) ==
    LET objs == InOrder({k \in 1..st.nm : s.matches[k].tok.t = "obj"})
    IN  IF Len(objs) < 2 \/ \E x \in 1..st.nm : s.matches[x].tok = ErrorToken
        THEN [s |-> s, ne |-> ne]
        ELSE Relations(s, ne, objs[1], Last(objs), InOrder(s.matches[Last(objs)].obs))

----------------------------------------------------------------------------
(* The end of a reading *)

\* The object matches are checked in turn; which counts the object tokens.
CheckMatch(st, r, k) ==
    LET m == r.s.matches[k]
        Kept(q) == [s |-> [q.s EXCEPT !.matches[k] = q.m], ne |-> q.ne, which |-> r.which + 1]
    IN  IF r.which >= 3 \/ m.tok.t \in {"str", "wrd"} THEN r
        ELSE IF m.tok = ErrorToken THEN [r EXCEPT !.which = @ + 1]
        ELSE Kept(IF m.tok.pl THEN pluralCheckFunctions(r.s, r.ne, r.which, m)
                  ELSE IF st.no = 2 THEN dependentCheckFunctions(r.s, r.ne, r.which, m)
                  ELSE singularCheckFunctions(r.s, r.ne, r.which, m))

\* What do_ is called with: of each token but the literals the words, the
\* object or the objects; 0 for an object that was not found.
Argument(m) ==
    CASE m.tok.t \in {"str", "wrd"} -> <<m.first, m.last>>
      [] m.tok = ErrorToken -> {}
      [] m.tok.t = "obj" /\ m.tok.pl -> m.obs
      [] OTHER -> {m.number} \ {0}

makeFunction(s, nm) == [k \in 1..nm |-> Argument(s.matches[k])]

BetterError(s, ne, weight) == ~(ne = s.bestErrors /\ weight <= s.errorWeight)

Outweighed(s) == s.bestWeight >= s.node.weight

\* All have been asked: z is [s, ne].
Finished(z, nm) ==
    LET s == z.s
        weight == IF s.cur = "ThereIsNo" THEN 1 ELSE s.node.weight
    IN  IF z.ne = 0
        THEN [s EXCEPT !.bestWeight = s.node.weight,
                       !.result = [node |-> s.node, verb |-> s.verb,
                                   args |-> makeFunction(s, nm)]]
        ELSE IF ~BetterError(s, z.ne, weight) THEN s
        ELSE [s EXCEPT !.best = s.cur, !.cur = None, !.bestErrors = z.ne,
                       !.errorWeight = weight]

AskPairs(r, st) == IF st.no = 2 /\ r.ne = 0 THEN checkObjectRelations(r.s, st, r.ne) ELSE r

\* c is the answer of can_.
AskObjects(c, st) ==
    IF ~c.ok THEN c.s
    ELSE Finished(AskPairs(FoldLeft(LAMBDA x, k : CheckMatch(st, x, k),
                                    [s |-> c.s, ne |-> c.ne, which |-> 1],
                                    [k \in 1..st.nm |-> k]), st), st.nm)

weAreFinished(s0, st) ==
    LET s == [s0 EXCEPT !.found = 2] IN
    IF \/ Outweighed(s)
       \/ st.ne > s.bestErrors
       \/ st.ne > 0 /\ st.ne = s.bestErrors /\ s.node.weight < s.errorWeight
    THEN s
    ELSE AskObjects(checkFunctions(s, st.ne), st)

----------------------------------------------------------------------------
(* The search *)

\* Why the objects left do not do, in the order of the tests, and which do.
Narrowed(s, tok, objs, named) ==
    LET a == objs \cap named
        b == IF tok.liv THEN a \cap s.scene.living ELSE a
        c == IF tok.vis THEN b ELSE b \cap s.scene.reach
    IN  [objs |-> c, err |-> IF a = {} THEN "IsNot" ELSE IF b = {} THEN "NotLiving"
                             ELSE IF c = {} THEN "NotAccessible" ELSE None]

\* Run("rule", s, st, o) is parseRule(); Run("obj", s, st, o) is the loop of
\* parseObj(), whose locals are o.
RECURSIVE Run(_, _, _, _)

parseRule(s, st) == Run("rule", s, st, <<>>)

\* A match, or a mistake, is added and the rest of the rule tried.
Try(s, st, o, tok, objs, ord) ==
    parseRule(addMatch(s, st, SentenceMatch(tok, o.start, st.word - 1, objs, ord)), Matched(st))
TryError(s, st, start, err) ==
    parseRule(addMatch([s EXCEPT !.cur = err], st,
                       SentenceMatch(ErrorToken, start, st.word - 1, {}, 0)), Mistaken(st))

\* allObjectsBitset(): remote people only for a handler that wants them.
AllObjects(s) == IF s.node.handler \in s.lpc.remote THEN s.scene.all ELSE s.scene.near

parseObj(s, st, tok, ordinal) ==
    Run("obj", s, st, [start |-> st.word, tok |-> tok, ordinal |-> ordinal,
                       objs |-> AllObjects(s), ordLegal |-> ordinal = 0, singular |-> TRUE])

\* Mutant: the words of the noun are looked for among all the objects.
NounUnnarrowed(s, st, o, word) ==
    LET n == Narrowed(s, o.tok, AllObjects(s), s.scene.noun[word]) IN
    IF ~o.singular \/ s.scene.noun[word] = {} THEN s
    ELSE IF n.err = None THEN Try(s, st, o, [o.tok EXCEPT !.pl = FALSE], n.objs, o.ordinal)
    ELSE IF exploreErrors(s, st) THEN TryError(s, st, o.start, n.err)
    ELSE s

Noun(s, st, o, word) ==
    LET n == Narrowed(s, o.tok, o.objs, s.scene.noun[word]) IN
    IF ~o.singular \/ s.scene.noun[word] = {} THEN s
    ELSE IF n.err = None THEN Try(s, st, o, [o.tok EXCEPT !.pl = FALSE], n.objs, o.ordinal)
    ELSE IF exploreErrors(s, st) THEN TryError(s, st, o.start, n.err)
    ELSE s

Plural(s, st, o, word) ==
    LET n == Narrowed(s, o.tok, o.objs, s.scene.plural[word]) IN
    IF o.ordinal # 0 \/ s.scene.plural[word] = {} THEN s
    ELSE IF o.tok.pl /\ n.err = None THEN Try(s, st, o, o.tok, n.objs, 0)
    ELSE IF exploreErrors(s, st)
    THEN TryError(s, st, o.start, IF o.tok.pl THEN n.err ELSE "BadMultiple")
    ELSE s

\* st is past the word.
SpecialWord(s, st, o, word) ==
    LET kind == checkSpecialWord(word) IN
    CASE kind = "All" -> IF o.tok.pl THEN Try(s, st, o, o.tok, o.objs, 0)
                         ELSE TryError(s, st, o.start, "BadMultiple")
      [] kind = "Self" /\ s.scene.me # {} -> Try(s, st, o, o.tok, s.scene.me, 0)
      [] kind = "Ordinal" /\ o.ordLegal -> parseObj(s, st, o.tok, Ordinals[word])
      [] OTHER -> s

\* The phrase ends with this word or, if it is an adjective, goes on.
EndOrAdjective(s, st, o, word) ==
    IF word \in s.scene.isAdj
    THEN Run("obj", s, st, [o EXCEPT !.objs = @ \cap s.scene.adj[word]])
    ELSE s

\* Each way to take a word is tried in turn; s carries the best of the readings
\* from one to the next.
TakeWord(s, st, o, next, word) ==
    EndOrAdjective(Plural(Noun(SpecialWord(s, st, o, word), st, next, word), st, next, word),
                   st, next, word)

ObjLoop(s, st0, o0) ==
    IF st0.word > Len(s.words) THEN s
    ELSE LET word == s.words[st0.word]
             kind == checkSpecialWord(word)
             st   == [st0 EXCEPT !.word = @ + 1]
             o    == [o0 EXCEPT !.singular = @ /\ kind # "All"]
         IN  IF kind = "Article" THEN Run("obj", s, st, o)
             ELSE IF kind = "All" /\ st.word <= Len(s.words) /\ s.words[st.word] = "of"
             THEN Run("obj", s, [st EXCEPT !.word = @ + 1], o)
             ELSE TakeWord(s, st, o, [o EXCEPT !.ordLegal = @ /\ word = "my"], word)

\* Every end of a run of words that begins here.
Ends(s, st) == [k \in 1..(Len(s.words) - st.word + 1) |-> st.word + k]

StrMatch(s, st, end) ==
    parseRule(addMatch(s, st, SentenceMatch(Plain("str", None), st.word, end - 1, {}, 0)),
              Passed([st EXCEPT !.word = end]))

\* An object token: its phrases, then, if nothing at all has been found, any
\* words as a thing that is not there.
ThereIsNo(s, st) ==
    IF s.bestWeight # 0 \/ s.errorWeight # 0 THEN s
    ELSE FoldLeft(LAMBDA x, end : TryError(x, [st EXCEPT !.word = end], st.word, "ThereIsNo"),
                  s, Ends(s, st))

ObjectToken(s, st, tok) == ThereIsNo(parseObj(s, st, tok, 0), st)

\* A literal that is not there, after an object: the words up to it belong to
\* a thing that is not there.
MissedLiteral(s, st, tok) ==
    LET prev == tokenAt(s.node, st.tok - 2)
        at == {p \in st.word..Len(s.words) : s.words[p] = tok.lit}
        p  == CHOOSE x \in at : \A y \in at : x <= y
    IN  IF st.tok = 2 \/ prev.t # "obj" \/ prev.ch \/ at = {} THEN s
        ELSE parseRule([s EXCEPT !.matches[st.nm].tok = ErrorToken,
                                 !.matches[st.nm].last = p,
                                 !.cur = IF st.ne = 0 THEN "ThereIsNo" ELSE @],
                       [st EXCEPT !.word = p + 1, !.ne = @ + 1])

RuleStep(s, st0) ==
    LET tok == tokenAt(s.node, st0.tok)
        st  == [st0 EXCEPT !.tok = @ + 1]
        atEnd == st.word > Len(s.words)
    IN  IF tok.t = "end" THEN IF atEnd THEN weAreFinished(s, st) ELSE s
        ELSE IF atEnd THEN s
        ELSE CASE tok.t = "obj" -> ObjectToken(s, st, tok)
               [] tok.t = "str" ->
                    IF tokenAt(s.node, st.tok).t = "end" THEN StrMatch(s, st, Len(s.words) + 1)
                    ELSE FoldLeft(LAMBDA x, end : StrMatch(x, st, end), s, Ends(s, st))
               [] tok.t = "wrd" ->
                    parseRule(addMatch(s, st, SentenceMatch(tok, st.word, st.word, {}, 0)),
                              Passed([st EXCEPT !.word = @ + 1]))
               [] s.words[st.word] = tok.lit -> parseRule(s, [st EXCEPT !.word = @ + 1])
               [] OTHER -> MissedLiteral(s, st, tok)

Run(what, s, st, o) == IF what = "rule" THEN RuleStep(s, st) ELSE ObjLoop(s, st, o)

----------------------------------------------------------------------------
(* Sentences *)

\* The place after the first occurrence of the word from there on, 0 if none.
checkLiteral(words, lit, from) ==
    LET at == {p \in from..Len(words) : words[p] = lit}
    IN  IF at = {} THEN 0 ELSE 1 + CHOOSE x \in at : \A y \in at : x <= y

\* Mutant: a literal is not looked for in the first word after the verb.
LiteralsLater(words, lit) ==
    LET first == checkLiteral(words, lit[1], 3)
    IN  \/ lit = <<>>
        \/ first # 0 /\ (Len(lit) = 2 => checkLiteral(words, lit[2], first) # 0)

\* The literals of the rule occur in the sentence, in this order.
LiteralsOccur(words, lit) ==
    LET first == checkLiteral(words, lit[1], 2)
    IN  \/ lit = <<>>
        \/ first # 0 /\ (Len(lit) = 2 => checkLiteral(words, lit[2], first) # 0)

\* only: the handler parse_my_rules() is restricted to, or none.
parseRulesFor(s, nodes, only) ==
    LET TryNode(x, node) ==
            IF \/ only # None /\ node.handler # only
               \/ x.bestWeight > node.weight
               \/ ~LiteralsOccur(x.words, node.lit)
            THEN x
            ELSE parseRule([x EXCEPT !.node = node], NewState)
    IN  FoldLeft(TryNode, s, nodes)

\* The entry whose rules are used, a synonym standing for the verb's own entry.
TargetOf(table, entry) ==
    IF ~entry.syn THEN <<entry>>
    ELSE LET at == findPlainEntry(table, entry.of)
         IN  IF at = 0 THEN <<>> ELSE <<table[entry.of][at]>>

\* The verb of the first n words and the entries it has.
TryVerb(s, table, sentence, n, only) ==
    LET verb == SubSeq(sentence, 1, n)
        words == <<"verb">> \o SubSeq(sentence, n + 1, Len(sentence))
        TryEntry(x, entry) ==
            LET t == TargetOf(table, entry) IN
            IF t = <<>> THEN x
            ELSE parseRulesFor([x EXCEPT !.found = IF @ < 1 THEN 1 ELSE @, !.words = words,
                                         !.verb = verb], t[1].nodes, only)
    IN  IF verb \notin Verbs THEN s ELSE FoldLeft(TryEntry, s, table[verb])

NewSession(scene, lpc) ==
    [words |-> <<>>, verb |-> <<>>, matches |-> <<>>, node |-> <<>>, scene |-> scene,
     lpc |-> lpc, bestWeight |-> 0, errorWeight |-> 0, bestErrors |-> 5732, found |-> 0,
     cur |-> None, best |-> None, par |-> None, second |-> None, result |-> <<>>]

runParseMatch(table, sentence, scene, lpc, only) ==
    FoldLeft(LAMBDA x, n : TryVerb(x, table, sentence, n, only),
             NewSession(scene, lpc), [n \in DOMAIN sentence |-> n])

=============================================================================
