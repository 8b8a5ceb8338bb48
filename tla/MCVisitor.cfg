SPECIFICATION Spec
CONSTANTS
    NoSchema = NoSchema
    NoKey = NoKey
    Schemas <- MCSchemas
    Deprecated <- MCDeprecated
    Properties <- MCProperties
    Items <- MCItems
    Values <- MCValues
    Shape <- MCShape
    Children <- MCChildren
    Keys <- MCKeys
    IndexTexts <- MCIndexTexts
    Paths <- MCPaths
INVARIANTS
    TypeOK
    PointersExact
    FirstErrorFound
    PanicsExact
PROPERTY
    Termination
CHECK_DEADLOCK FALSE
