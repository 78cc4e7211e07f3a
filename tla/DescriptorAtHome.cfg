SPECIFICATION Spec
CONSTANTS
    None = None
    Names = {1}
    Rows = 2
    Psbts = {p1}
    Signable = {p1}
    Garbage = garbage
    Unreadable = unreadable
    Torn = Torn
    PinLen = 1
    MaxQueue = 2
    MaxEdits = 0
    MaxFails = 0
    MaxRestarts = 0
INVARIANT DescriptorAtHome
