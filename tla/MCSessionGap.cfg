SPECIFICATION Spec
CONSTANTS
    MaxOutput = 1
    MaxEvents = 1
    MaxRetained = 1
    PageLimit = 3
    PageBytes = 3
    MaxChunk = 2
    MaxWritten = 2
    MaxCalls = 0
PROPERTIES
    NoSilentGap
CHECK_DEADLOCK FALSE
