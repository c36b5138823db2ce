SPECIFICATION PipeSpec
CONSTANTS
    Literals <- MCLiterals
    Texts <- MCTexts
    Pieces <- MCPieces
    Asked <- MCAsked
    MaxWrites = 3
    MaxTurns = 2
    MaxNotices = 1
    RunLimit = 5
    RecordLimit = 14
    ProxyLimit = 4
INVARIANTS ShownIsClean RunIsRecorded
CHECK_DEADLOCK FALSE
