SPECIFICATION Spec
CONSTANTS
    s1 = s1
    s2 = s2
    Streams = {s1, s2}
    Asked <- MCAsked
    Httpx = {s2}
    Proxies = 2
    SkipFailed = 1
    MaxPieces = 2
    Pieces <- MCPieces
    MaxEvents = 1
    MaxSlips = 1
    CallPiece = 2
INVARIANTS TypeOK CompleteIsWhole TextInOrder EndsOnce RotationFair InFlightExact
PROPERTIES EveryAnswerEnds
CHECK_DEADLOCK FALSE
