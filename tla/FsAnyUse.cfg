SPECIFICATION Spec
CONSTANTS
    MAX_INODES = 3
    MAX_CONTENT = 1
    FilePaths <- TwinFiles
    DirPaths <- NestedDirs
    Buffers <- BinaryBuffers
    NUL = "NUL"
    Usage = {"full", "resize", "reuse"}
INVARIANTS
    RootStays
    BitmapExact
    UniqueNames
