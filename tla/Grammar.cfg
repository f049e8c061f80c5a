SPECIFICATION Spec
CONSTANT Cases <- MCCases
INVARIANTS
    TokensAsWritten
    ParsedAsWritten
