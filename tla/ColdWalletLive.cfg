SPECIFICATION FairSpec
CONSTANTS
    None = None
    Foreign = Foreign
    Digits = {0, 1}
    PinLen = 1
    PIN_MAX_ATTEMPTS = 2
    MaxU8 = 3
    LastPage = 0
    WordCount = 1
    Chars = {c}
    MaxPass = 1
    Entropies = {e1}
    Salts = {s1}
    Psbts = {p1}
    SignableEntropy = e1
    Signable <- MCSignable
    MaxLost = 1
    MaxUnread = 0
PROPERTIES RightPinUnlocks PendingWorkEnds
