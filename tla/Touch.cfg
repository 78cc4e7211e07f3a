SPECIFICATION Spec
CONSTANTS
    None = None
    WordList <- MCWordList
    WORDS = 3
    WORD_BITS = 2
    BYTE_BITS = 3
    Checksum <- MCChecksum
    Points <- MCPoints
    Entropies <- MCEntropies
    Draws <- MCDraws
    PIN_LEN = 2
    LAST_PAGE = 2
    MAX_PASS = 2
    BUF_LEN = 3
INVARIANTS TypeOK ButtonsDoWhatTheySay UnlitIsHarmless NoDeadEnd PadsAreFair BouncesAreHarmless
PROPERTIES RestoreKeepsWords BackupWasShown
