SPECIFICATION Spec
CONSTANTS
    NoApi <- MCNoApi
    NotLoaded <- MCNotLoaded
    NoLocation = "no location"
    Kinds <- MCKinds
    Apis <- MCApis
    Keys <- MCKeys
    Root <- MCRoot
    Catalogs <- MCCatalogs
    Served <- MCServed
    Latest <- MCLatest
    Releases <- MCReleases
    Published <- MCPublished
    Locations <- MCLocations
    Stored <- MCStored
    Unsortable <- MCUnsortable
    Docs <- MCDocs
    Manifest <- MCManifest
    NoDoc = NoDoc
    Objects <- MCObjects
    Namespaces <- MCNamespaces
    Chars <- MCChars
    Lower <- MCLower
    Spelling <- MCSpelling
    NamespaceOf <- MCNamespaceOf
    KindOf <- MCKindOf
    Live <- MCLive
    Applied <- MCApplied
    ServerRelease = "cur"
    Mapped <- MCMapped
    SkippedKinds <- MCSkippedKinds
    Configs <- MCConfigs
CHECK_DEADLOCK FALSE
INVARIANT EveryFetchedObjectValidated
