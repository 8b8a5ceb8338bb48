SPECIFICATION Spec
CONSTANTS
    Universe <- MCUniverse
    CanonicalTexts <- MCCanonicalTexts
    MinorBound <- MCMinorBound
INVARIANTS
    RankDecides
    SortContract
    MutualOnlyForSynonyms
