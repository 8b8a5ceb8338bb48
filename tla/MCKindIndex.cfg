SPECIFICATION Spec
CONSTANTS
    c1 = c1
    c2 = c2
    c3 = c3
    NoMethod = NoMethod
    NoComponent = NoComponent
    Components = {c1, c2, c3}
    Kinds <- MCKinds
    Groups <- MCGroups
    VersionTexts <- MCVersionTexts
    Urls <- MCUrls
    OpenAPIDocs <- MCOpenAPIDocs
INVARIANTS
    TypeOK
    SupportMatchesDocument
    MappingIsFaithful
    LatestIsNewest
    PanicsOnlyUnmatched
    FetchedIsCurrent
    CatalogIsFaithful
CHECK_DEADLOCK FALSE
