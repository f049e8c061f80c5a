----------------------------- MODULE VerbHandlers -----------------------------
(* The verb handlers and the table of their rules: objects add rules, copy    *)
(* and remove them (parse_add_rule(), parse_add_synonym(), parse_remove()),   *)
(* and are destructed.  Verbs parses sentences by the table.                  *)
EXTENDS VerbRules

CONSTANTS
    Handlers,       \* the objects that add rules
    Rules,          \* the rules they add: <<verb, rule>>
    Synonyms,       \* what parse_add_synonym() is given: <<new, old, rule>>
    MaxOps          \* bound: rules added and removed

\* Rules and synonyms are added to verbs the table has room for.
ASSUME HandlersAssumption ==
    /\ \A r \in Rules : r[1] \in Verbs
    /\ \A y \in Synonyms : y[1] \in Verbs /\ y[2] \in Verbs
    /\ MaxOps \in Nat

VARIABLES
    table,      \* the entries of each verb
    dead,       \* the handlers destructed
    ops         \* rules added and removed so far

tableVars == <<table, dead, ops>>

TableInit ==
    /\ table = [v \in Verbs |-> <<>>]
    /\ dead = {} /\ ops = 0

Change == ops < MaxOps /\ ops' = ops + 1

Alive(h) == h \in Handlers \ dead

parse_add_rule(h, verb, rule) ==
    /\ Change /\ Alive(h)
    /\ table' = addRule(table, verb, rule, h)
    /\ UNCHANGED dead

parse_add_synonym(h, new, old, rule) ==
    /\ Change /\ Alive(h)
    /\ table' = addSynonym(table, new, old, rule, h)
    /\ UNCHANGED dead

parse_remove(h, verb) ==
    /\ Change /\ Alive(h)
    /\ table' = removeRules(table, verb, h)
    /\ UNCHANGED dead

destruct(h) ==
    /\ Alive(h)
    /\ table' = onObjectDestroyed(table, h)
    /\ dead' = dead \cup {h}
    /\ UNCHANGED ops

TableNext ==
    \/ \E h \in Handlers, r \in Rules : parse_add_rule(h, r[1], r[2])
    \/ \E h \in Handlers, y \in Synonyms : parse_add_synonym(h, y[1], y[2], y[3])
    \/ \E h \in Handlers, v \in Verbs : parse_remove(h, v)
    \/ \E h \in Handlers : destruct(h)

TableSpec == TableInit /\ [][TableNext]_tableVars

----------------------------------------------------------------------------
(* Properties *)

\* No rule outlives its handler, whatever copies of it parse_add_synonym() has
\* made under other verbs: doTheCall() always has an object to call.
NoDeadHandler ==
    \A v \in Verbs : \A e \in DOMAIN table[v] : \A n \in DOMAIN table[v][e].nodes :
        table[v][e].nodes[n].handler \notin dead

==============================================================================
