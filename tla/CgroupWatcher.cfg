SPECIFICATION FairSpec
CONSTANTS
    t1 = t1
    t2 = t2
    none = none
    None = none
    Dir <- MCDir
    Root = "root"
    Children <- MCChildren
    Rules <- MCRules
    SkipDir = "agent"
    Thread = {t1, t2}
    Events <- MCEvents
    Vanishing = {"container"}

    
PROPERTIES
    SelectedMoves
    SigintEnds
CHECK_DEADLOCK FALSE
