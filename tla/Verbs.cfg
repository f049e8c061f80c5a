SPECIFICATION Spec
CONSTANTS
    Verbs <- MCVerbNames
    Literals <- MCLiterals
    World <- MCWorld
    Handlers = {"h", "g"}
    Rules <- MCRules
    Synonyms <- MCSynonyms
    Sentences <- MCSentences
    Minds <- MCMinds
    Only <- MCOnly
    MaxOps = 2
INVARIANTS   HeaviestCalled
