SPECIFICATION Spec
CONSTANTS
    None = None
    stranger = stranger
    Files <- MCFiles
    KEY_WINDOW = 2
    MAX_INPUTS = 2
    MAX_OUTPUTS = 2
    AmountMax = 15
    SendMax = 9
    FeeMax = 12
    MaxFaults = 1
INVARIANTS TypeOK SignaturesVerify KeySigsAreKept AllOrNothing ReviewBalances ChangeIsSpendable
