SPECIFICATION CasesSpec
CONSTANTS
    MaxOutput = 2
    MaxEvents = 1
    MaxRetained = 2
    PageLimit = 2
    PageBytes = 1
    MaxChunk = 2
    MaxWritten = 3
    MaxCalls = 1
CONSTRAINT Cases
INVARIANTS
    TypeOK
    BytesAccounted

    
CHECK_DEADLOCK FALSE
