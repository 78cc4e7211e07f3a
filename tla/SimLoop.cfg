SPECIFICATION Spec
CONSTANTS
    None = None
    Names = {1, 2}
    Rows = 2
    Psbts = {p1, p2}
    Signable = {p1}
    Garbage = garbage
    Unreadable = unreadable
    Torn = Torn
    PinLen = 1
    MaxQueue = 2
    MaxEdits = 1
    MaxFails = 1
    MaxRestarts = 0
INVARIANTS ScreenIsCurrent
PROPERTIES ResultIsSaved ClickMeansWhatWasSeen RowLoadsItsFile SignedFileIsReviewed
