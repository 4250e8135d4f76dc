SPECIFICATION HostedSpec
CONSTANTS
    a = a
    b = b
    c = c
    e1 = e1
    e2 = e2
    nobody = nobody
    Contract = {a, b, c}
    Error = {e1, e2}
    None = nobody
    MaxEvents = 6
    MaxNotes = 1
INVARIANTS
    HostTypeOK
    CallsAreMirrored
    StackIsLive
    OutcomesAreTrue
    Preorder
    ErrorsAreAttributed
    FramesAreTheCalls
PROPERTY EndedFramesAreFinal
SYMMETRY Symmetric
CHECK_DEADLOCK FALSE
