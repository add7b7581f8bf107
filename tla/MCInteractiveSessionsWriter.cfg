CONSTANTS
    a = a
    b = b
    v = v
    Sessions = {a, b}
    Viewers = {v}
    ViewerOf <- MCViewerOf
    MaxPerKey = 1
    MaxConnects = 1
    MaxInputs = 1
SPECIFICATION Spec
INVARIANT OneWriterPerSocket
CHECK_DEADLOCK FALSE
