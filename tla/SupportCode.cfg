SPECIFICATION Spec
CONSTANTS
    Key <- MCKey
    SerialChar <- MCSerial
    UserChar <- MCUserChar
    CONSBUFSIZE = 3
    BUFLEN = 3
    CRT_COLS = 2
    CRT_ROWS = 3
    MAXARGS = 2
    MaxEvents = 4
    FmtChar <- MCFmt
    MaxFmt = 3
    Arg <- MCArg
    Sink = {"kernel", "user", "snprintf"}
    SNSIZE = 3
    PRINTBUF = 2
    INTBITS = 5
    MEMSIZE = 9
    WORD = 2
    Tables <- MCTables
    MaxAddr = 13
CHECK_DEADLOCK FALSE
INVARIANTS EchoIsLine NoStuckModifier
INVARIANTS Delivered LiteralText NumberReadsBack
INVARIANTS CopyIsExact DebugInfoRight
PROPERTIES IsInputQueue InputDrains Returns
