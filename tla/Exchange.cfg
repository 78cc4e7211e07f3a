SPECIFICATION Spec
CONSTANTS
    None = None
    Payloads <- MCPayloads
    MAGIC = 112
    SIG <- MCSig
    MAX_PSBT_RAW = 10
    MAX_INPUTS = 2
    MAX_OUTPUTS = 1
INVARIANTS TypeOK BitForBit
PROPERTIES LoadsWhatWasSent SignedComesBack
