SPECIFICATION Spec
CONSTANTS
    NoApi <- MCNoApi
    NotLoaded <- MCNotLoaded
    Empty = ""
    NoLocation = "no location"
    Unreadable = Unreadable
    Kinds <- MCKinds
    Apis <- MCApis
    Keys <- MCKeys
    Root <- MCRoot
    Catalogs <- MCCatalogs
    Served <- MCServed
    Latest <- MCLatest
    Releases <- MCReleases
    Published <- MCPublished
    Locations <- MCLocations
    Stored <- MCStored
    Unsortable <- MCUnsortable
    Docs <- MCDocs
    Manifest <- MCManifest
    Files <- MCFiles
    Contents <- MCContents
    Dirs <- MCDirs
    Listing <- MCListing
    CommandLines <- MCCommandLines
    Configs <- MCConfigs
INVARIANT
    CleanMeansTargetClean
CHECK_DEADLOCK FALSE
