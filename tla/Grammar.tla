------------------------------ MODULE Grammar -------------------------------
(***************************************************************************)
(* The front end: a file is written down in either style of LpcText, the   *)
(* lexer makes tokens of the text and the parser a tree of the tokens.     *)
(*                                                                         *)
(* A case is [file, dialect, styles]: styles says whether the file is      *)
(* written fully parenthesized with comments between the tokens (TRUE),    *)
(* as tersely as the language allows (FALSE), or both ways.                *)
(***************************************************************************)
EXTENDS Parser, LpcText

CONSTANT Cases

VARIABLES case, full, stage, toks, tree

vars == <<case, full, stage, toks, tree>>

\* (An ordinary definition: TLC computes it once.)
CaseTable == Cases

File0    == CaseTable[case].file
Dialect0 == CaseTable[case].dialect
Tokens0  == Written(File0, full, Dialect0)

Init ==
    /\ case \in DOMAIN CaseTable
    /\ full \in CaseTable[case].styles
    /\ stage = "text"
    /\ toks = <<>>
    /\ tree = NoProgram

Tokenize ==
    /\ stage = "text"
    /\ stage' = "tokens"
    /\ toks' = tokenize(TextOf(Tokens0, full), Dialect0)
    /\ UNCHANGED <<case, full, tree>>

ParseFile ==
    /\ stage = "tokens"
    /\ stage' = "tree"
    /\ tree' = parseProgram(toks, Dialect0)
    /\ UNCHANGED <<case, full, toks>>

Done == stage = "tree" /\ UNCHANGED vars

Next == Tokenize \/ ParseFile \/ Done

Spec == Init /\ [][Next]_vars

-----------------------------------------------------------------------------

\* The lexer finds the tokens that were written, and no others, whatever
\* stands between them: nothing where the language allows it, or comments.
TokensAsWritten ==
    stage = "tokens" =>
      LET ts == Tokens0
      IN  toks = Append([i \in DOMAIN ts |-> [type |-> ts[i].type, text |-> ts[i].text]],
                        [type |-> "End", text |-> ""])

\* The parser gives back the tree that was written: precedence, associativity,
\* the nesting of statements and every alternative spelling.
ParsedAsWritten == stage = "tree" => tree = File0
=============================================================================
