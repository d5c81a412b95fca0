SPECIFICATION Spec
CONSTANTS
    Failed = Failed
    None = None
    Addresses <- MCAddresses
    Locations <- MCLocations
    Arches <- MCArches
    Hashes <- MCHashes
    MaxKept = 4
INVARIANTS NeverMistaken ReadBack
