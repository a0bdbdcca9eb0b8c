\* A wave that is playing is told to loop while its next chunk is decoded.
SPECIFICATION Spec
CONSTANTS
    NumBuffers = 2
    Chunks = 3
    Decodable = 3
    Loops = {FALSE}
    Calls <- PlayAndRepeat
    CanFail = FALSE
PROPERTIES OvertakenBails
\* A wave that is stopped, ended or freed may have nothing left to do.
CHECK_DEADLOCK FALSE
