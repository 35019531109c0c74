SPECIFICATION AtSpec
CONSTANTS
    BufSize = 11
    Texts <- ModemLines
    MaxLines = 3
INVARIANT IdxInBuffer
CHECK_DEADLOCK FALSE
