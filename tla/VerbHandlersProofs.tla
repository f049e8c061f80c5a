-------------------------- MODULE VerbHandlersProofs --------------------------
(***************************************************************************)
(* No rule outlives its handler, for any set of handlers, verbs, rules and *)
(* synonyms and any number of changes to the table.                        *)
(*                                                                         *)
(* That filtering a list of rules leaves only rules that pass takes an     *)
(* induction over the list.  It is made by least counterexample, from the  *)
(* fact that < is well founded on the naturals (LeastNatural).             *)
(***************************************************************************)
EXTENDS VerbHandlers, FiniteSetTheorems, WellFoundedInduction, TLAPS

-----------------------------------------------------------------------------
(* The positions a filter keeps. *)

\* A set of naturals that is not empty has a least member.
LEMMA LeastNatural ==
    ASSUME NEW X, X \subseteq Nat, X # {}
    PROVE  \E n \in X : \A m \in X : n <= m
  <1> DEFINE R == OpToRel(<, Nat)
  <1>1. IsWellFoundedOn(R, Nat)
    BY NatLessThanWellFounded
  <1>2. R = {ss \in Nat \X Nat : ss[1] < ss[2]}
    BY Zenon DEF OpToRel
  <1> HIDE DEF R
  <1>3. PICK x \in X : \A y \in X : ~(<<y, x>> \in R)
    <2>1. \E x \in X : \A y \in X : ~(<<y, x>> \in R)
      BY <1>1, WFMin
    <2> QED BY <2>1
  <1>4. ASSUME NEW y \in X PROVE ~(y < x)
    <2>1. <<y, x>> \notin R
      BY <1>3
    <2> SUFFICES ASSUME y < x PROVE <<y, x>> \in {ss \in Nat \X Nat : ss[1] < ss[2]}
      BY <2>1, <1>2
    <2>2. <<y, x>> \in Nat \X Nat /\ <<y, x>>[1] = y /\ <<y, x>>[2] = x
      OBVIOUS
    <2> QED BY <2>2
  <1>5. \A m \in X : x <= m
    BY <1>4
  <1> QED BY <1>5

\* The members of keep up to i.
UpTo(keep, i) == {j \in keep : j <= i}

\* A set of positions is finite, and so is what it has up to one of them.
LEMMA UpToFinite ==
    ASSUME NEW n \in Nat, NEW keep \in SUBSET (1..n), NEW i \in 0..n
    PROVE  /\ IsFiniteSet(keep) /\ Cardinality(keep) \in Nat
           /\ IsFiniteSet(UpTo(keep, i)) /\ Cardinality(UpTo(keep, i)) \in Nat
  <1>1. IsFiniteSet(1..n)
    BY FS_Interval
  <1>2. UpTo(keep, i) \subseteq 1..n
    BY DEF UpTo
  <1>3. IsFiniteSet(keep) /\ IsFiniteSet(UpTo(keep, i))
    BY <1>1, <1>2, FS_Subset
  <1> QED BY <1>3, FS_CardinalityType

\* For every k up to the number of positions kept there is a k-th one.
LEMMA KthKept ==
    ASSUME NEW n \in Nat, NEW keep \in SUBSET (1..n), NEW k \in 1..Cardinality(keep)
    PROVE  \E i \in keep : Cardinality({j \in keep : j <= i}) = k
  <1> DEFINE c(i) == Cardinality(UpTo(keep, i))
             X == {i \in 0..n : k <= c(i)}
  <1>1. Cardinality(keep) \in Nat /\ k \in Nat /\ 1 <= k /\ k <= Cardinality(keep)
    BY UpToFinite
  <1>2. \A i \in 0..n : c(i) \in Nat
    BY UpToFinite
  <1>3. c(0) = 0
    <2>1. \A j \in keep : ~(j <= 0)
      OBVIOUS
    <2>2. UpTo(keep, 0) = {}
      BY <2>1, Zenon DEF UpTo
    <2> QED BY <2>2, FS_EmptySet
  <1>4. c(n) = Cardinality(keep)
    <2>1. \A j \in keep : j <= n
      OBVIOUS
    <2>2. UpTo(keep, n) = keep
      BY <2>1, Zenon DEF UpTo
    <2> QED BY <2>2
  <1>5. ASSUME NEW i \in 1..n, i \notin keep PROVE c(i) = c(i - 1)
    <2>1. \A j \in keep : j <= i <=> j <= i - 1
      BY <1>5
    <2>2. UpTo(keep, i) = UpTo(keep, i - 1)
      BY <2>1, Zenon DEF UpTo
    <2> QED BY <2>2
  <1>6. ASSUME NEW i \in 1..n, i \in keep PROVE c(i) = c(i - 1) + 1
    <2> DEFINE p == i - 1
    <2>0. p \in 0..n /\ ~(i <= p) /\ \A j \in keep : j <= i <=> j <= p \/ j = i
      OBVIOUS
    <2> HIDE DEF p
    <2>1. UpTo(keep, i) = UpTo(keep, p) \union {i} /\ i \notin UpTo(keep, p)
      BY <1>6, <2>0, Zenon DEF UpTo
    <2>2. IsFiniteSet(UpTo(keep, p))
      BY <2>0, UpToFinite
    <2> QED BY <2>1, <2>2, FS_AddElement DEF p
  <1> HIDE DEF c
  <1>7. X \subseteq Nat /\ X # {}
    BY <1>1, <1>2, <1>4
  <1>8. PICK i \in X : \A m \in X : i <= m
    <2> HIDE DEF X
    <2> QED BY <1>7, LeastNatural
  <1>9. i \in 1..n
    BY <1>1, <1>3, <1>8
  <1>10. c(i - 1) < k
    BY <1>1, <1>2, <1>8, <1>9
  <1>11. i \in keep /\ c(i) = k
    BY <1>1, <1>2, <1>5, <1>6, <1>8, <1>9, <1>10
  <1> QED BY <1>11 DEF c, UpTo

\* A filtered list has only members of the list, from positions kept.
LEMMA PickedFrom ==
    ASSUME NEW S, NEW seq \in Seq(S), NEW keep \in SUBSET DOMAIN seq
    PROVE  /\ Picked(seq, keep) \in Seq(S)
           /\ \A k \in DOMAIN Picked(seq, keep) : \E i \in keep : Picked(seq, keep)[k] = seq[i]
  <1> DEFINE At(k) == CHOOSE i \in keep : Cardinality({j \in keep : j <= i}) = k
             m == Cardinality(keep)
  <1>1. keep \in SUBSET (1..Len(seq)) /\ Len(seq) \in Nat
    <2>1. DOMAIN seq = 1..Len(seq) /\ Len(seq) \in Nat
      OBVIOUS
    <2> QED BY <2>1, Zenon
  <1>2. m \in Nat
    <2>1. 0 \in 0..Len(seq)
      BY <1>1
    <2> QED BY <1>1, <2>1, UpToFinite
  <1>3. ASSUME NEW k \in 1..m PROVE At(k) \in keep
    <2>1. \E i \in keep : Cardinality({j \in keep : j <= i}) = k
      BY <1>1, KthKept
    <2> QED BY <2>1, Zenon
  <1>4. Picked(seq, keep) = [k \in 1..m |-> seq[At(k)]]
    BY DEF Picked
  <1> HIDE DEF At, m
  <1>5. \A k \in 1..m : seq[At(k)] \in S
    BY <1>3
  <1>6. Picked(seq, keep) \in Seq(S)
    BY <1>2, <1>4, <1>5
  <1> QED BY <1>3, <1>4, <1>6

-----------------------------------------------------------------------------
(* The table, its rules taken from a given set. *)

VerbEntries(N) ==
    [real : Verbs, match : Verbs, syn : BOOLEAN, of : Verbs \union {<<>>}, nodes : Seq(N)]

Tables(N) == [Verbs -> Seq(VerbEntries(N))]

\* findPlainEntry() answers an entry of the list, or 0.
LEMMA PlainEntryPosition ==
    ASSUME NEW N, NEW t \in Tables(N), NEW v \in Verbs
    PROVE  findPlainEntry(t, v) \in DOMAIN t[v] \union {0}
  <1> DEFINE hits == {i \in DOMAIN t[v] : t[v][i].real = v /\ t[v][i].match = v /\ ~t[v][i].syn}
  <1>1. t[v] \in Seq(VerbEntries(N)) /\ DOMAIN t[v] \subseteq Nat
    BY DEF Tables
  <1>2. findPlainEntry(t, v) =
          IF hits = {} THEN 0 ELSE CHOOSE i \in hits : \A j \in hits : i <= j
    BY DEF findPlainEntry, FirstEntry
  <1>3. hits \subseteq DOMAIN t[v] /\ hits \subseteq Nat
    BY <1>1
  <1> HIDE DEF hits
  <1>4. hits # {} => \E i \in hits : \A j \in hits : i <= j
    BY <1>3, LeastNatural
  <1>5. hits # {} => (CHOOSE i \in hits : \A j \in hits : i <= j) \in hits
    BY <1>4, Zenon
  <1> QED BY <1>2, <1>3, <1>5

\* An entry that is looked for, and made if it is not there, is in the list.
LEMMA EntryMade ==
    ASSUME NEW N, NEW t \in Tables(N), NEW v \in Verbs, NEW match \in Verbs,
           NEW at \in DOMAIN t[v] \union {0}
    PROVE  /\ WithEntry(t, v, match, at) \in Tables(N)
           /\ EntryAt(t, v, at) \in DOMAIN WithEntry(t, v, match, at)[v]
  <1>1. t[v] \in Seq(VerbEntries(N)) /\ Len(t[v]) \in Nat /\ DOMAIN t[v] = 1..Len(t[v])
    BY DEF Tables
  <1>2. VerbEntry(v, match) \in VerbEntries(N)
    BY DEF VerbEntry, VerbEntries
  <1>3. Append(t[v], VerbEntry(v, match)) \in Seq(VerbEntries(N))
        /\ Len(t[v]) + 1 \in DOMAIN Append(t[v], VerbEntry(v, match))
    BY <1>1, <1>2
  <1>4. CASE at # 0
    BY <1>4 DEF WithEntry, EntryAt
  <1>5. CASE at = 0
    <2>1. WithEntry(t, v, match, at) = [t EXCEPT ![v] = Append(@, VerbEntry(v, match))]
      BY <1>5 DEF WithEntry
    <2>2. WithEntry(t, v, match, at)[v] = Append(t[v], VerbEntry(v, match))
      BY <2>1 DEF Tables
    <2>3. WithEntry(t, v, match, at) \in Tables(N)
      BY <2>1, <1>3 DEF Tables
    <2> QED BY <2>2, <2>3, <1>3, <1>5 DEF EntryAt
  <1> QED BY <1>4, <1>5

\* A rule of N put before the others of an entry leaves the rules in N.
LEMMA RulePut ==
    ASSUME NEW N, NEW t \in Tables(N), NEW v \in Verbs, NEW e \in DOMAIN t[v], NEW node \in N
    PROVE  [t EXCEPT ![v][e].nodes = <<node>> \o @] \in Tables(N)
  <1> DEFINE nodes == <<node>> \o t[v][e].nodes
             entry == [t[v][e] EXCEPT !.nodes = nodes]
  <1>1. t[v] \in Seq(VerbEntries(N)) /\ t[v][e] \in VerbEntries(N)
    BY DEF Tables
  <1>2. nodes \in Seq(N)
    <2>1. t[v][e].nodes \in Seq(N)
      BY <1>1 DEF VerbEntries
    <2> QED BY <2>1
  <1>3. [t EXCEPT ![v][e].nodes = <<node>> \o @] = [t EXCEPT ![v] = [t[v] EXCEPT ![e] = entry]]
    BY <1>1 DEF Tables
  <1> HIDE DEF nodes
  <1>4. entry \in VerbEntries(N)
    BY <1>1, <1>2 DEF VerbEntries
  <1> HIDE DEF entry
  <1>5. [t[v] EXCEPT ![e] = entry] \in Seq(VerbEntries(N))
    BY <1>1, <1>4
  <1>6. [t EXCEPT ![v] = [t[v] EXCEPT ![e] = entry]] \in Tables(N)
    BY <1>5 DEF Tables
  <1> QED BY <1>3, <1>6

LEMMA AddRuleKeeps ==
    ASSUME NEW N, NEW t \in Tables(N), NEW v \in Verbs, NEW rule, NEW h,
           VerbRuleNode(rule, h) \in N
    PROVE  addRule(t, v, rule, h) \in Tables(N)
  <1> DEFINE at == findPlainEntry(t, v)
             made == WithEntry(t, v, v, at)
             e == EntryAt(t, v, at)
             node == VerbRuleNode(rule, h)
  <1>1. at \in DOMAIN t[v] \union {0}
    BY PlainEntryPosition
  <1>2. addRule(t, v, rule, h) =
          IF ~tokenizeRule(rule).legal THEN t
          ELSE [made EXCEPT ![v][e].nodes = <<node>> \o @]
    BY Zenon DEF addRule
  <1> HIDE DEF at
  <1>3. made \in Tables(N) /\ e \in DOMAIN made[v]
    BY <1>1, EntryMade
  <1> HIDE DEF made, e, node
  <1>4. [made EXCEPT ![v][e].nodes = <<node>> \o @] \in Tables(N)
    BY <1>3, RulePut DEF node
  <1> QED BY <1>2, <1>4

\* So does the search for an entry that stands for another verb.
LEMMA SynonymEntryPosition ==
    ASSUME NEW N, NEW t \in Tables(N), NEW new \in Verbs, NEW old, NEW rule
    PROVE  findSynonymEntry(t, new, old, rule) \in DOMAIN t[new] \union {0}
  <1> DEFINE hits == {i \in DOMAIN t[new] : /\ t[new][i].real = new /\ t[new][i].match = old
                                            /\ t[new][i].syn = (rule = <<>>)}
  <1>1. t[new] \in Seq(VerbEntries(N)) /\ DOMAIN t[new] \subseteq Nat
    BY DEF Tables
  <1>2. findSynonymEntry(t, new, old, rule) =
          IF hits = {} THEN 0 ELSE CHOOSE i \in hits : \A j \in hits : i <= j
    BY DEF findSynonymEntry, FirstEntry
  <1>3. hits \subseteq DOMAIN t[new] /\ hits \subseteq Nat
    BY <1>1
  <1> HIDE DEF hits
  <1>4. hits # {} => \E i \in hits : \A j \in hits : i <= j
    BY <1>3, LeastNatural
  <1>5. hits # {} => (CHOOSE i \in hits : \A j \in hits : i <= j) \in hits
    BY <1>4, Zenon
  <1> QED BY <1>2, <1>3, <1>5

\* Turning an entry into a synonym leaves its rules alone.
LEMMA SynonymMade ==
    ASSUME NEW N, NEW t \in Tables(N), NEW v \in Verbs, NEW e \in DOMAIN t[v], NEW old \in Verbs
    PROVE  [t EXCEPT ![v][e].syn = TRUE, ![v][e].of = old] \in Tables(N)
  <1> DEFINE entry == [t[v][e] EXCEPT !.syn = TRUE, !.of = old]
  <1>1. t[v] \in Seq(VerbEntries(N)) /\ t[v][e] \in VerbEntries(N)
    BY DEF Tables
  <1>2. [t EXCEPT ![v][e].syn = TRUE, ![v][e].of = old]
          = [t EXCEPT ![v] = [t[v] EXCEPT ![e] = entry]]
    BY <1>1 DEF Tables
  <1>3. entry \in VerbEntries(N)
    BY <1>1 DEF VerbEntries
  <1> HIDE DEF entry
  <1>4. [t[v] EXCEPT ![e] = entry] \in Seq(VerbEntries(N))
    BY <1>1, <1>3
  <1>5. [t EXCEPT ![v] = [t[v] EXCEPT ![e] = entry]] \in Tables(N)
    BY <1>4 DEF Tables
  <1> QED BY <1>2, <1>5

\* A synonym's rules are copies of rules in the table.
LEMMA AddSynonymKeeps ==
    ASSUME NEW N, NEW t \in Tables(N), NEW new \in Verbs, NEW old \in Verbs, NEW rule, NEW caller
    PROVE  addSynonym(t, new, old, rule, caller) \in Tables(N)
  <1> DEFINE plain == findPlainEntry(t, old)
             at == findSynonymEntry(t, new, old, rule)
             made == WithEntry(t, new, old, at)
             e == EntryAt(t, new, at)
             nodes == t[old][plain].nodes
             wanted == {i \in DOMAIN nodes : nodes[i].tokens = tokenizeRule(rule).tokens}
             node == nodes[CHOOSE i \in wanted : \A j \in wanted : i <= j]
  <1>1. plain \in DOMAIN t[old] \union {0}
    BY PlainEntryPosition
  <1>2. at \in DOMAIN t[new] \union {0}
    BY SynonymEntryPosition
  <1>3. addSynonym(t, new, old, rule, caller) =
          IF new = old \/ plain = 0 THEN t
          ELSE IF rule = <<>> THEN [made EXCEPT ![new][e].syn = TRUE, ![new][e].of = old]
          ELSE IF ~tokenizeRule(rule).legal \/ wanted = {} THEN made
          ELSE IF node.handler # caller THEN made
          ELSE [made EXCEPT ![new][e].nodes = <<node>> \o @]
    BY Zenon DEF addSynonym
  <1> HIDE DEF at
  <1>4. made \in Tables(N) /\ e \in DOMAIN made[new]
    BY <1>2, EntryMade
  <1> HIDE DEF made, e, plain
  <1>5. [made EXCEPT ![new][e].syn = TRUE, ![new][e].of = old] \in Tables(N)
    BY <1>4, SynonymMade
  <1>6. ASSUME plain # 0, wanted # {} PROVE node \in N
    <2>1. t[old][plain] \in VerbEntries(N)
      BY <1>1, <1>6 DEF Tables
    <2>2. nodes \in Seq(N)
      BY <2>1 DEF VerbEntries
    <2>3. wanted \subseteq DOMAIN nodes /\ wanted \subseteq Nat
      BY <2>2
    <2> HIDE DEF wanted, nodes
    <2>4. \E i \in wanted : \A j \in wanted : i <= j
      BY <1>6, <2>3, LeastNatural
    <2>5. (CHOOSE i \in wanted : \A j \in wanted : i <= j) \in wanted
      BY <2>4, Zenon
    <2> QED BY <2>2, <2>3, <2>5
  <1> HIDE DEF node, wanted, nodes
  <1>7. plain # 0 /\ wanted # {} => [made EXCEPT ![new][e].nodes = <<node>> \o @] \in Tables(N)
    BY <1>4, <1>6, RulePut
  <1> QED BY <1>3, <1>4, <1>5, <1>7

\* The rules of a handler are gone from an entry, the others are what they were.
LEMMA RulesDropped ==
    ASSUME NEW N, NEW entry \in VerbEntries(N), NEW h
    PROVE  WithoutRulesOf(entry, h) \in VerbEntries({n \in N : n.handler # h})
  <1> DEFINE keep == {i \in DOMAIN entry.nodes : entry.nodes[i].handler # h}
             left == Picked(entry.nodes, keep)
             M == {n \in N : n.handler # h}
  <1>1. entry.nodes \in Seq(N) /\ keep \in SUBSET DOMAIN entry.nodes
    BY DEF VerbEntries
  <1>2. WithoutRulesOf(entry, h) = [entry EXCEPT !.nodes = left]
    BY DEF WithoutRulesOf, VerbEntries
  <1>3. left \in Seq(N) /\ \A k \in DOMAIN left : \E i \in keep : left[k] = entry.nodes[i]
    <2> HIDE DEF keep
    <2> QED BY <1>1, PickedFrom
  <1> HIDE DEF left
  <1>4. \A k \in DOMAIN left : left[k] \in M
    BY <1>1, <1>3
  <1> HIDE DEF M
  <1>5. left \in Seq(M)
    BY <1>3, <1>4
  <1>6. [entry EXCEPT !.nodes = left] \in VerbEntries(M)
    BY <1>5 DEF VerbEntries
  <1> QED BY <1>2, <1>6 DEF M

\* A smaller set of rules makes a smaller set of entries.
LEMMA EntriesMonotone ==
    ASSUME NEW N, NEW M, M \subseteq N
    PROVE  VerbEntries(M) \subseteq VerbEntries(N)
  <1>1. Seq(M) \subseteq Seq(N)
    OBVIOUS
  <1> QED BY <1>1 DEF VerbEntries

LEMMA RemoveKeeps ==
    ASSUME NEW N, NEW t \in Tables(N), NEW v \in Verbs, NEW h
    PROVE  removeRules(t, v, h) \in Tables(N)
  <1> DEFINE Left(i) == IF t[v][i].syn THEN t[v][i] ELSE WithoutRulesOf(t[v][i], h)
             list == [i \in DOMAIN t[v] |-> Left(i)]
  <1>1. t[v] \in Seq(VerbEntries(N)) /\ Len(t[v]) \in Nat /\ DOMAIN t[v] = 1..Len(t[v])
    BY DEF Tables
  <1>2. ASSUME NEW i \in DOMAIN t[v] PROVE Left(i) \in VerbEntries(N)
    <2>1. t[v][i] \in VerbEntries(N)
      BY <1>1
    <2>2. WithoutRulesOf(t[v][i], h) \in VerbEntries({n \in N : n.handler # h})
      BY <2>1, RulesDropped
    <2>3. WithoutRulesOf(t[v][i], h) \in VerbEntries(N)
      BY <2>2, EntriesMonotone
    <2> QED BY <2>1, <2>3
  <1>3. removeRules(t, v, h) = [t EXCEPT ![v] = list]
    BY DEF removeRules, Tables
  <1> HIDE DEF Left
  <1>4. list \in Seq(VerbEntries(N))
    BY <1>1, <1>2
  <1> HIDE DEF list
  <1> QED BY <1>3, <1>4 DEF Tables

\* Whatever entry a rule of the destructed object is in, it is dropped.
LEMMA DestroyedDrops ==
    ASSUME NEW N, NEW t \in Tables(N), NEW h
    PROVE  onObjectDestroyed(t, h) \in Tables({n \in N : n.handler # h})
  <1> DEFINE M == {n \in N : n.handler # h}
             List(v) == [i \in DOMAIN t[v] |-> WithoutRulesOf(t[v][i], h)]
  <1>1. ASSUME NEW v \in Verbs PROVE List(v) \in Seq(VerbEntries(M))
    <2>1. t[v] \in Seq(VerbEntries(N)) /\ Len(t[v]) \in Nat /\ DOMAIN t[v] = 1..Len(t[v])
      BY DEF Tables
    <2>2. \A i \in DOMAIN t[v] : WithoutRulesOf(t[v][i], h) \in VerbEntries(M)
      BY <2>1, RulesDropped
    <2> HIDE DEF M
    <2> QED BY <2>1, <2>2
  <1>2. onObjectDestroyed(t, h) = [v \in Verbs |-> List(v)]
    BY DEF onObjectDestroyed
  <1> HIDE DEF List, M
  <1>3. [v \in Verbs |-> List(v)] \in Tables(M)
    BY <1>1 DEF Tables
  <1> QED BY <1>2, <1>3 DEF M

-----------------------------------------------------------------------------
(* The handlers at work. *)

\* The rules the handlers that are still there may have added.
LiveNodes == {n \in {VerbRuleNode(r[2], h) : r \in Rules, h \in Handlers} : n.handler \notin dead}

\* Every rule in the table is one of those: a table typed this way is what each
\* step keeps, and NoDeadHandler is read off it.
TableInv ==
    /\ table \in Tables(LiveNodes)
    /\ dead \subseteq Handlers /\ ops \in 0..MaxOps

LEMMA TableInvInit == TableInit => TableInv
  <1> SUFFICES ASSUME TableInit PROVE TableInv
    OBVIOUS
  <1>1. <<>> \in Seq(VerbEntries(LiveNodes))
    OBVIOUS
  <1>2. table \in Tables(LiveNodes)
    BY <1>1 DEF TableInit, Tables
  <1> QED BY <1>2, HandlersAssumption DEF TableInit, TableInv

\* A rule that is added belongs to a handler that is still there.
LEMMA NewRuleLives ==
    ASSUME NEW r \in Rules, NEW h \in Handlers, h \notin dead
    PROVE  VerbRuleNode(r[2], h) \in LiveNodes
  <1>1. VerbRuleNode(r[2], h).handler = h
    BY DEF VerbRuleNode
  <1> QED BY <1>1 DEF LiveNodes

LEMMA TableInvStep == TableInv /\ [TableNext]_tableVars => TableInv'
  <1> SUFFICES ASSUME TableInv, [TableNext]_tableVars PROVE TableInv'
    OBVIOUS
  <1> USE HandlersAssumption
  <1>1. table \in Tables(LiveNodes) /\ dead \subseteq Handlers /\ ops \in 0..MaxOps
    BY DEF TableInv
  <1>2. ASSUME Change, dead' = dead, table' \in Tables(LiveNodes) PROVE TableInv'
    <2>1. ops' \in 0..MaxOps
      BY <1>1, <1>2 DEF Change
    <2>2. LiveNodes' = LiveNodes
      BY <1>2 DEF LiveNodes
    <2> QED BY <1>1, <1>2, <2>1, <2>2 DEF TableInv
  <1>3. ASSUME NEW h \in Handlers, NEW r \in Rules, parse_add_rule(h, r[1], r[2])
        PROVE  TableInv'
    <2>1. VerbRuleNode(r[2], h) \in LiveNodes
      BY <1>3, NewRuleLives DEF parse_add_rule, Alive
    <2>2. addRule(table, r[1], r[2], h) \in Tables(LiveNodes)
      BY <1>1, <2>1, AddRuleKeeps
    <2> QED BY <1>2, <1>3, <2>2 DEF parse_add_rule
  <1>4. ASSUME NEW h \in Handlers, NEW y \in Synonyms, parse_add_synonym(h, y[1], y[2], y[3])
        PROVE  TableInv'
    <2>1. addSynonym(table, y[1], y[2], y[3], h) \in Tables(LiveNodes)
      BY <1>1, AddSynonymKeeps
    <2> QED BY <1>2, <1>4, <2>1 DEF parse_add_synonym
  <1>5. ASSUME NEW h \in Handlers, NEW v \in Verbs, parse_remove(h, v)
        PROVE  TableInv'
    <2>1. removeRules(table, v, h) \in Tables(LiveNodes)
      BY <1>1, RemoveKeeps
    <2> QED BY <1>2, <1>5, <2>1 DEF parse_remove
  <1>6. ASSUME NEW h \in Handlers, destruct(h)
        PROVE  TableInv'
    <2>1. table' \in Tables({n \in LiveNodes : n.handler # h})
      BY <1>1, <1>6, DestroyedDrops DEF destruct
    <2> DEFINE Nodes == {VerbRuleNode(r[2], g) : r \in Rules, g \in Handlers}
    <2>2. LiveNodes' = {n \in LiveNodes : n.handler # h}
      <3>1. dead' = dead \union {h}
        BY <1>6 DEF destruct
      <3>2. LiveNodes = {n \in Nodes : n.handler \notin dead}
        BY DEF LiveNodes
      <3>3. LiveNodes' = {n \in Nodes : n.handler \notin dead'}
        BY DEF LiveNodes
      <3> HIDE DEF Nodes
      <3> QED BY <3>1, <3>2, <3>3
    <2>3. dead' \subseteq Handlers /\ ops' \in 0..MaxOps
      BY <1>1, <1>6 DEF destruct
    <2> QED BY <2>1, <2>2, <2>3 DEF TableInv
  <1>7. CASE UNCHANGED tableVars
    BY <1>7 DEF tableVars, TableInv, LiveNodes
  <1> QED BY <1>3, <1>4, <1>5, <1>6, <1>7 DEF TableNext

\* Every step leaves only rules of handlers that are still there, so NoDeadHandler
\* holds: doTheCall() never meets a rule whose handler has been destructed, under
\* whatever verbs parse_add_synonym() has copied it to.
THEOREM NoRuleOutlivesHandler == TableSpec => []NoDeadHandler
  <1>1. TableInv => NoDeadHandler
    <2> SUFFICES ASSUME TableInv,
                        NEW v \in Verbs, NEW e \in DOMAIN table[v],
                        NEW n \in DOMAIN table[v][e].nodes
                 PROVE  table[v][e].nodes[n].handler \notin dead
      BY DEF NoDeadHandler
    <2>1. table[v][e] \in VerbEntries(LiveNodes)
      BY DEF TableInv, Tables
    <2>2. table[v][e].nodes \in Seq(LiveNodes)
      BY <2>1 DEF VerbEntries
    <2>3. table[v][e].nodes[n] \in LiveNodes
      BY <2>2
    <2> QED BY <2>3 DEF LiveNodes
  <1> QED BY <1>1, TableInvInit, TableInvStep, PTL DEF TableSpec

=============================================================================
