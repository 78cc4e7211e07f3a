SPECIFICATION Spec
CONSTANTS
    None = None
    Torn = Torn
    Blobs = {b1, b2, b3}
INVARIANTS NeverTorn SavedIsSafe
PROPERTIES ImplementsRegister
