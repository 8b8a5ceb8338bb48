SPECIFICATION Spec
CONSTANTS
    MaxErrors = 3
    MaxResults = 3
INVARIANTS
    TypeOK
    NumbersConsecutive
PROPERTIES
    PlanAnnouncesLines
    AllTold
