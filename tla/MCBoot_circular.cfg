CONSTANTS
    None = None
    Name <- MCName
    Sites <- MCSites
SPECIFICATION Spec
INVARIANT CircularIsReal
