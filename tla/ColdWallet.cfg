SPECIFICATION Spec
CONSTANTS
    None = None
    Foreign = Foreign
    Digits = {0, 1}
    PinLen = 2
    PIN_MAX_ATTEMPTS = 3
    MaxU8 = 5
    LastPage = 3
    WordCount = 3
    Chars = {c}
    MaxPass = 1
    Entropies = {e1, e2}
    Salts = {s1, s2}
    Psbts = {p1, p2}
    SignableEntropy = e1
    Signable <- MCSignable
    MaxLost = 1
    MaxUnread = 1
INVARIANTS TypeOK IInv GuessBound AttemptIsCounted OneWallet DiskMirrorsRam SignsWhatWasReviewed
PROPERTIES LockIsPermanent GatesNeedThePin WalletIsKept ImplementsLockout
