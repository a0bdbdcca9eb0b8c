\* The wave is destroyed while the pump looks at it.
SPECIFICATION Spec
CONSTANTS
    NumBuffers = 2
    Chunks = 3
    Decodable = 3
    Loops = {FALSE}
    Calls <- PlayAndDestroy
    CanFail = FALSE
INVARIANTS DecodesAlive
\* A wave that is stopped, ended or freed may have nothing left to do.
CHECK_DEADLOCK FALSE
