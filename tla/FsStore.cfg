SPECIFICATION Spec
CONSTANTS
    MAX_INODES = 3
    MAX_CONTENT = 3
    FilePaths <- PlainFiles
    DirPaths <- PlainDirs
    Buffers <- ShortBuffers
    NUL = "NUL"
    Usage = {}
INVARIANT
    ListedInParent
PROPERTY
    IsFileStore
