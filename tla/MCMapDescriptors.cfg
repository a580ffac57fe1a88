SPECIFICATION Spec
CONSTANTS
    MapDefs <- MCMapDefs
    BtfDefs <- MCBtfDefs
    MapTypes <- MCMapTypes
    MaxMaps = 3
    MaxFiles = 2
    MaxRange = 2
INVARIANTS
    FreshFdsSequential
    SizesCovered
    LookupKindKnown
