SPECIFICATION TSpec
CONSTANTS
    MAX_INODES = 3
    MAX_CONTENT = 2
    FilePaths <- OneDir
    DirPaths = {}
    Buffers <- OneBuffer
    NUL = "NUL"
    Usage = {}
    Threads = {1, 2}
    Setup = {}
INVARIANTS
    NoLostFile
    WriteHitsItsFile
