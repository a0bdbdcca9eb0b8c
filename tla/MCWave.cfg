\* Every call of the main thread; OpenAL may refuse a buffer or a source; the
\* track may loop, and is shorter than its header says.
SPECIFICATION FairSpec
CONSTANTS
    NumBuffers = 4
    Chunks = 6
    Decodable = 5
    Loops = {TRUE, FALSE}
    Calls <- AnyCall
    CanFail = TRUE
INVARIANTS TypeOK RingConserved AheadBounded FedInOrder EofIsTheEnd
PROPERTIES TerminalIsSticky DestroyEnds UnderrunRecovers PlayStarts
\* A wave that is stopped, ended or freed may have nothing left to do.
CHECK_DEADLOCK FALSE
