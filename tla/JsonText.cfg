\* Every text of at most two tokens, every text of three simple ones, five longer
\* ones and every text one token away from those; allocations that fail anywhere.
SPECIFICATION Spec
CONSTANTS
    Texts <- MCTexts
    StrTok <- MCStrTok
    NumTok <- MCNumTok
    CJSON_NESTING_LIMIT = 2
    INT_MAX = 24
    DefaultSize = 4
    MaxAlloc = 9
    PrintSizes = {0, 1, 3, 8, 9, 10, 11, 14, 15, 19, 20, 24, 30}
INVARIANTS
    TypeOK
    ParseMatchesGrammar
    
    NoOverrun
    
    PreallocExact
    GrowsToFit
CHECK_DEADLOCK FALSE
