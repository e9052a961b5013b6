SPECIFICATION FairSpec
CONSTANTS
    LoaderSum = "y"
    ImageSum = "PACK"
    RomAttempts = 3
    MaxFaults = 4
    Block = 40
    Lengths = {12, 13, 16, 28}
    MaxNodes = 5
    Region = 120
    Sizes = {8, 120, 130, 136}
INVARIANTS TypeOK ChecksumFits SuccessIsReal RoundTrip RefusesOnlyMisfits IdentityKept
PROPERTY Recoverable
CHECK_DEADLOCK FALSE
