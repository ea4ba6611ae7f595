\* Up to three statements that hold, in up to two documents; any number that do not.
SPECIFICATION Spec
\* An answer, or a panic, is the end.
CHECK_DEADLOCK FALSE
CONSTANTS
    Expr <- MCExpr
    Depth <- MCDepth
    Value <- MCValue
    Context <- MCContext
    Path <- MCPath
    Condition <- MCCondition
    MaxHeld = 3
    MaxDocuments = 2
INVARIANTS
    StrongestStands
    AnswerEarned
    LogicSound
    ErrorsAreWhole
    PanicsOnlyOnCollections
