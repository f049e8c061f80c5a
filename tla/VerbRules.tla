------------------------------ MODULE VerbRules ------------------------------
(* The rules of the natural-language parser and the table that keeps them for *)
(* each verb (ParserPackage.cpp).                                             *)
(*                                                                            *)
(* A verb is a sequence of words ("look at" has two).  A rule is written as a *)
(* sequence of words too: one of OBJ, LIV, OBS, LVS, STR, WRD with its        *)
(* modifiers, or a literal word.  Characters are left out: a sentence is its  *)
(* words, as splitSentenceWords() finds them.                                 *)
EXTENDS Integers, Sequences, FiniteSets, SequencesExt

CONSTANTS
    Verbs,      \* the verbs, sequences of words
    Literals    \* the words the master's parse_command_prepos_list() returns

None == "none"

----------------------------------------------------------------------------
(* Rules *)

\* One word of a rule as it is written.
Word(base, mods) == [base |-> base, mods |-> mods]
Bases == {"OBJ", "LIV", "OBS", "LVS"}

Token(t, liv, vis, pl, ch, lit) ==
    [t |-> t, liv |-> liv, vis |-> vis, pl |-> pl, ch |-> ch, lit |-> lit]
Plain(t, lit) == Token(t, FALSE, FALSE, FALSE, FALSE, lit)

\* What tokenAt() answers past the last token, and the token of a failed match.
EndToken   == Plain("end", None)
ErrorToken == Plain("error", None)

tokenizeOne(word) ==
    CASE word.base \in Bases ->
           Token("obj", word.base \in {"LIV", "LVS"} \/ "l" \in word.mods, "v" \in word.mods,
                 word.base \in {"OBS", "LVS"} \/ "p" \in word.mods, "c" \in word.mods, None)
      [] word.base = "STR" -> Plain("str", None)
      [] word.base = "WRD" -> Plain("wrd", None)
      [] OTHER -> Plain("lit", word.base)

\* The throws of tokenizeOne().
KnownWord(word) ==
    IF word.base \in Bases THEN word.mods \subseteq {"l", "v", "p", "c"}
    ELSE word.mods = {} /\ word.base \in {"STR", "WRD"} \cup Range(Literals)

TokenWeight(tok) ==
    IF tok.t # "obj" THEN 1
    ELSE 2 - (IF tok.pl THEN 1 ELSE 0) + (IF tok.liv THEN 1 ELSE 0) + (IF tok.vis THEN 0 ELSE 1)

ObjectTokens(tokens) == SelectSeq(tokens, LAMBDA tok : tok.t = "obj")

\* Its error says ten tokens are permitted; the tenth is refused.
tokenizeRule(rule) ==
    LET tokens == [i \in DOMAIN rule |-> tokenizeOne(rule[i])]
    IN  [tokens |-> tokens,
         weight |-> FoldLeft(LAMBDA n, tok : n + TokenWeight(tok), 1, tokens),
         legal  |-> /\ \A i \in DOMAIN rule : KnownWord(rule[i])
                    /\ Len(ObjectTokens(tokens)) <= 2
                    /\ Len(SelectSeq(tokens, LAMBDA tok : tok.pl)) <= 1
                    /\ Len(tokens) < 10]

\* lit: the first two literals of the rule, which it cannot match without.
VerbRuleNode(rule, handler) ==
    LET r == tokenizeRule(rule) IN
    [tokens |-> r.tokens, weight |-> r.weight, handler |-> handler,
     lit |-> LET lits == SelectSeq(r.tokens, LAMBDA tok : tok.t = "lit")
             IN  [i \in 1..(IF Len(lits) < 2 THEN Len(lits) ELSE 2) |-> lits[i].lit]]

tokenAt(node, i) == IF i \in DOMAIN node.tokens THEN node.tokens[i] ELSE EndToken

----------------------------------------------------------------------------
(* The rules of each verb *)

VerbEntry(real, match) ==
    [real |-> real, match |-> match, syn |-> FALSE, of |-> <<>>, nodes |-> <<>>]

\* The index of the first entry that satisfies the test, 0 if there is none.
FirstEntry(entries, Test(_)) ==
    LET hits == {i \in DOMAIN entries : Test(entries[i])}
    IN  IF hits = {} THEN 0 ELSE CHOOSE i \in hits : \A j \in hits : i <= j

findPlainEntry(table, verb) ==
    FirstEntry(table[verb], LAMBDA e : e.real = verb /\ e.match = verb /\ ~e.syn)

WithEntry(table, verb, match, at) ==
    IF at # 0 THEN table ELSE [table EXCEPT ![verb] = Append(@, VerbEntry(verb, match))]

EntryAt(table, verb, at) == IF at # 0 THEN at ELSE Len(table[verb]) + 1

\* The newest rule is tried first.
addRule(table, verb, rule, handler) ==
    IF ~tokenizeRule(rule).legal THEN table
    ELSE LET at == findPlainEntry(table, verb)
         IN  [WithEntry(table, verb, verb, at)
                EXCEPT ![verb][EntryAt(table, verb, at)].nodes =
                         <<VerbRuleNode(rule, handler)>> \o @]

\* The entry of the verb that stands for old: for all its rules if none is named.
findSynonymEntry(table, new, old, rule) ==
    FirstEntry(table[new], LAMBDA e :
        e.real = new /\ e.match = old /\ e.syn = (rule = <<>>))

\* A rule that cannot be copied is an error, after the entry has been made.
addSynonym(table, new, old, rule, caller) ==
    LET plain == findPlainEntry(table, old) IN
    IF new = old \/ plain = 0 THEN table
    ELSE LET at     == findSynonymEntry(table, new, old, rule)
             made   == WithEntry(table, new, old, at)
             e      == EntryAt(table, new, at)
             nodes  == table[old][plain].nodes
             wanted == {i \in DOMAIN nodes : nodes[i].tokens = tokenizeRule(rule).tokens}
         IN  IF rule = <<>>
             THEN [made EXCEPT ![new][e].syn = TRUE, ![new][e].of = old]
             ELSE IF ~tokenizeRule(rule).legal \/ wanted = {} THEN made
             ELSE LET node == nodes[CHOOSE i \in wanted : \A j \in wanted : i <= j]
                  IN  IF node.handler # caller THEN made
                      ELSE [made EXCEPT ![new][e].nodes = <<node>> \o @]

\* The members of seq at the positions in keep, in their order.
Picked(seq, keep) ==
    [k \in 1..Cardinality(keep) |->
        seq[CHOOSE i \in keep : Cardinality({j \in keep : j <= i}) = k]]

WithoutRulesOf(entry, handler) ==
    [entry EXCEPT !.nodes = Picked(@, {i \in DOMAIN @ : @[i].handler # handler})]

removeRules(table, verb, handler) ==
    [table EXCEPT ![verb] = [i \in DOMAIN @ |->
        IF @[i].syn THEN @[i] ELSE WithoutRulesOf(@[i], handler)]]

\* Mutant: only the rules under the verb's own name are dropped.
OwnRulesDropped(table, handler) ==
    [v \in Verbs |-> [i \in DOMAIN table[v] |->
        IF table[v][i].real # table[v][i].match THEN table[v][i]
        ELSE WithoutRulesOf(table[v][i], handler)]]

onObjectDestroyed(table, handler) ==
    [v \in Verbs |-> [i \in DOMAIN table[v] |-> WithoutRulesOf(table[v][i], handler)]]

==============================================================================
