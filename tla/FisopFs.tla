------------------------------ MODULE FisopFs ------------------------------
(***************************************************************************)
(* The file system of fisopfs/: the inode table of fs.c, the FUSE          *)
(* operations of fisopfs.c on it, its image on disk, and crashes.          *)
(*                                                                         *)
(* An operation is one step: this is what a single-threaded mount (-s)     *)
(* gives; FisopFsThreads takes create_file apart.  What the kernel and     *)
(* libfuse do before they call an operation (walk the path with getattr,   *)
(* create only what is not there, never unlink what is open) is external   *)
(* and appears as the guards of the actions.                               *)
(*                                                                         *)
(* A string that holds a path is the sequence of its names, so that        *)
(* ROOT_PATH is the empty sequence; the empty string is its NUL.  A name   *)
(* counts as one character.  Owners, modes and times are left out.         *)
(***************************************************************************)
EXTENDS Integers, Sequences

CONSTANTS
    MAX_INODES,
    MAX_CONTENT,
    FilePaths,      \* paths that programs use for files ...
    DirPaths,       \* ... and for directories
    Buffers,        \* what they write
    NUL,            \* the byte that ends a string
    Usage           \* what they do beyond the ordinary

Usages == {"full",    \* write up to the last byte of content
           "resize",  \* truncate to another size than the present one
           "reuse",   \* rmdir a directory from which something was unlinked
           "torn"}    \* the process dies while it saves

ASSUME FsAssumption ==
    /\ MAX_INODES \in Nat \ {0}
    /\ MAX_CONTENT \in Nat \ {0}
    /\ NUL \in STRING
    /\ Usage \subseteq Usages
    /\ \A p \in FilePaths \cup DirPaths :
          p \in Seq(STRING) /\ Len(p) > 0 /\ \A k \in 1..Len(p) : p[k] # NUL
    /\ Buffers \subseteq Seq(STRING)

Inodes == 0..(MAX_INODES - 1)
Positions == 0..(MAX_CONTENT - 1)
Paths == FilePaths \cup DirPaths

ROOT_PATH == <<>>
EmptyString == <<NUL>>

\* remove_slash: the last name of a path.
remove_slash(p) == <<p[Len(p)]>>

\* get_path_padre; the parent of a path with one name is ROOT_PATH.
get_path_padre(p) == SubSeq(p, 1, Len(p) - 1)

\* The bytes of a path as a C string without its first slash.
StrLenOfPath(p) == IF p = ROOT_PATH THEN 1 ELSE 2 * Len(p) - 1

NoContent == [k \in Positions |-> NUL]

\* An inode after memset; FS_DIR is 0.
ZeroInode == [type |-> "FS_DIR", size |-> 0, path |-> EmptyString,
              directory_path |-> EmptyString, content |-> NoContent]

\* The root made by initialize_fs; MAX_DIR_SIZE equals MAX_CONTENT.
RootInode == [ZeroInode EXCEPT !.path = ROOT_PATH, !.size = MAX_CONTENT]

VARIABLES
    inodes, bitmap_inodes,   \* super_b
    disk,                    \* the image: what of super_b it holds
    mnt,                     \* "down", "mounted" or "saving"
    open,                    \* paths that programs have open
    ret                      \* what the last operation returned

vars == <<inodes, bitmap_inodes, disk, mnt, open, ret>>

Image(table, bitmap, whole) ==
    [inodes |-> table, bitmap |-> bitmap, whole |-> whole]

ZeroTable == [i \in Inodes |-> ZeroInode]
ZeroBitmap == [i \in Inodes |-> 0]

\* No image: initialize_fs makes the table that Mount will find.
FreshImage == Image([ZeroTable EXCEPT ![0] = RootInode],
                    [ZeroBitmap EXCEPT ![0] = 1], TRUE)

Init ==
    /\ inodes = ZeroTable
    /\ bitmap_inodes = ZeroBitmap
    /\ disk = FreshImage
    /\ mnt = "down"
    /\ open = {}
    /\ ret = "OK"

-----------------------------------------------------------------------------
(* fs.c: lookup and creation.                                              *)

LowestOf(S) == CHOOSE i \in S : \A j \in S : i <= j

\* get_index_inodo on a table: the first inode, free or not, whose name is
\* the last name of the path; -1 if there is none.
Lookup(table, p) ==
    LET found == {i \in Inodes : table[i].path = remove_slash(p)}
    IN IF p = ROOT_PATH THEN 0
       ELSE IF found = {} THEN -1
       ELSE LowestOf(found)

get_index_inodo(p) == Lookup(inodes, p)

\* next_free_inodo finds the name, free inode or not (EEXIST), ...
NameTaken(name) == \E i \in Inodes : inodes[i].path = name

\* Mutation of FreeInodes: the root's bit is not looked at.
FreeInodesMut == {i \in Inodes : bitmap_inodes[i] = 0 \/ i = 0}

\* ... or takes the first of the free inodes (ENOSPC if there is none).
FreeInodes == {i \in Inodes : bitmap_inodes[i] = 0}

\* Mutation of NewInode: the name is the first of the path (strchr for strrchr).
NewInodeMut(p, type) ==
    [type |-> type, size |-> 0, path |-> <<p[1]>>,
     directory_path |->
        IF type = "FS_FILE" THEN get_path_padre(p) ELSE ROOT_PATH,
     content |-> NoContent]

\* The inode that create_file stores: a directory's parent is always the root.
NewInode(p, type) ==
    [type |-> type, size |-> 0, path |-> remove_slash(p),
     directory_path |->
        IF type = "FS_FILE" THEN get_path_padre(p) ELSE ROOT_PATH,
     content |-> NoContent]

Fails(errno) == ret' = errno /\ UNCHANGED <<inodes, bitmap_inodes>>

\* Mutation of create_file: the inode is stored, its bit is not set.
create_fileMut(p, type) ==
    \/ NameTaken(remove_slash(p)) /\ Fails("EEXIST")
    \/ /\ ~NameTaken(remove_slash(p))
       /\ IF FreeInodes = {} THEN Fails("ENOSPC")
          ELSE LET i == LowestOf(FreeInodes)
               IN /\ inodes' = [inodes EXCEPT ![i] = NewInode(p, type)]
                  /\ UNCHANGED bitmap_inodes
                  /\ ret' = "OK"

create_file(p, type) ==
    \/ NameTaken(remove_slash(p)) /\ Fails("EEXIST")
    \/ /\ ~NameTaken(remove_slash(p))
       /\ IF FreeInodes = {} THEN Fails("ENOSPC")
          ELSE LET i == LowestOf(FreeInodes)
               IN /\ inodes' = [inodes EXCEPT ![i] = NewInode(p, type)]
                  /\ bitmap_inodes' = [bitmap_inodes EXCEPT ![i] = 1]
                  /\ ret' = "OK"

-----------------------------------------------------------------------------
(* fs.c: write_file.                                                       *)

\* strncpy of buf over content from off: what follows a NUL in buf is NUL.
strncpy(content, off, buf) ==
    [k \in Positions |->
        IF k < off \/ k >= off + Len(buf) THEN content[k]
        ELSE IF \E j \in 1..(k - off + 1) : buf[j] = NUL THEN NUL
        ELSE buf[k - off + 1]]

\* strlen of content; without a NUL it runs on into directory_path, the next
\* field of struct inode.
strlen(content, directory_path) ==
    LET nuls == {k \in Positions : content[k] = NUL}
    IN IF nuls = {} THEN MAX_CONTENT + StrLenOfPath(directory_path)
       ELSE LowestOf(nuls)

\* An inode after the copy.
Written(inode, off, buf) ==
    LET content == strncpy(inode.content, off, buf)
    IN [inode EXCEPT !.content = content,
                     !.size = strlen(content, inode.directory_path)]

\* The checks of write_file on the inode it found, and the copy.
WriteInode(table, i, off, buf) ==
    IF table[i].size < off THEN ret' = "EINVAL" /\ inodes' = table
    ELSE IF table[i].type = "FS_DIR" THEN ret' = "EACCES" /\ inodes' = table
    ELSE /\ inodes' = [table EXCEPT ![i] = Written(@, off, buf)]
         /\ ret' = "OK"

\* write_file; a file that is not found is created first.
write_file(p, off, buf) ==
    LET i == get_index_inodo(p)
    IN IF off + Len(buf) > MAX_CONTENT THEN Fails("EFBIG")
       ELSE IF i >= 0
       THEN WriteInode(inodes, i, off, buf) /\ UNCHANGED bitmap_inodes
       ELSE IF FreeInodes = {} THEN Fails("ENOSPC")
       ELSE LET j == LowestOf(FreeInodes)
            IN /\ WriteInode([inodes EXCEPT ![j] = NewInode(p, "FS_FILE")],
                             j, off, buf)
               /\ bitmap_inodes' = [bitmap_inodes EXCEPT ![j] = 1]

-----------------------------------------------------------------------------
(* The operations.                                                         *)

\* External: the kernel has found every directory on the way to p.
IsDir(p) ==
    get_index_inodo(p) >= 0 /\ inodes[get_index_inodo(p)].type = "FS_DIR"

IsFile(p) ==
    get_index_inodo(p) >= 0 /\ inodes[get_index_inodo(p)].type = "FS_FILE"

Walk(p) ==
    /\ mnt = "mounted"
    /\ \A n \in 0..(Len(p) - 1) : IsDir(SubSeq(p, 1, n))

\* open(O_CREAT) of a path that getattr does not find.
fisopfs_touch(p) ==
    /\ Walk(p)
    /\ get_index_inodo(p) = -1
    /\ create_file(p, "FS_FILE")
    /\ open' = IF ret' = "OK" THEN open \cup {p} ELSE open
    /\ UNCHANGED <<disk, mnt>>

fisopfs_mkdir(p) ==
    /\ Walk(p)
    /\ get_index_inodo(p) = -1
    /\ create_file(p, "FS_DIR")
    /\ UNCHANGED <<disk, mnt, open>>

\* There is no open operation: getattr decides.
Open(p) ==
    /\ Walk(p)
    /\ p \notin open
    /\ IsFile(p)
    /\ open' = open \cup {p}
    /\ UNCHANGED <<inodes, bitmap_inodes, disk, mnt, ret>>

Close(p) ==
    /\ p \in open
    /\ open' = open \ {p}
    /\ UNCHANGED <<inodes, bitmap_inodes, disk, mnt, ret>>

\* Unless "full", what is written leaves room for a NUL, or does not fit.
fisopfs_write(p, off, buf) ==
    /\ p \in open
    /\ off + Len(buf) = MAX_CONTENT => "full" \in Usage
    /\ write_file(p, off, buf)
    /\ UNCHANGED <<disk, mnt, open>>

\* The size changes and the content stays.
fisopfs_truncate(p, size) ==
    LET i == get_index_inodo(p)
    IN /\ Walk(p)
       /\ IsFile(p)
       /\ inodes[i].size = size \/ size > MAX_CONTENT \/ "resize" \in Usage
       /\ IF size > MAX_CONTENT THEN Fails("ENOENT")
          ELSE /\ inodes' = [inodes EXCEPT ![i].size = size]
               /\ ret' = "OK"
               /\ UNCHANGED bitmap_inodes
       /\ UNCHANGED <<disk, mnt, open>>

\* unlink clears the name and the content; size, type and parent stay.
\* External: libfuse renames a file that is open, and rename is not there.
fisopfs_unlink(p) ==
    LET i == get_index_inodo(p)
    IN /\ Walk(p)
       /\ IsFile(p)
       /\ p \notin open
       /\ inodes' = [inodes EXCEPT ![i].content = NoContent,
                                   ![i].path = EmptyString]
       /\ bitmap_inodes' = [bitmap_inodes EXCEPT ![i] = 0]
       /\ ret' = "OK"
       /\ UNCHANGED <<disk, mnt, open>>

\* Mutation of ChildInodes: the parent's path is compared with.
ChildInodesMut(p) ==
    {j \in Inodes : inodes[j].directory_path = get_path_padre(p)}

\* What delete_dir takes for the content of the directory at p.
ChildInodes(p) ==
    {j \in Inodes : inodes[j].directory_path = remove_slash(p)}

\* delete_dir.
fisopfs_rmdir(p) ==
    LET i == get_index_inodo(p)
    IN /\ Walk(p)
       /\ IsDir(p)
       /\ \/ "reuse" \in Usage
          \/ \A j \in ChildInodes(p) : bitmap_inodes[j] = 1
       /\ IF ChildInodes(p) # {} THEN Fails("ENOTEMPTY")
          ELSE /\ inodes' = [inodes EXCEPT ![i] = ZeroInode]
               /\ bitmap_inodes' = [bitmap_inodes EXCEPT ![i] = 0]
               /\ ret' = "OK"
       /\ UNCHANGED <<disk, mnt, open>>

-----------------------------------------------------------------------------
(* Mounting, saving, crashing.                                             *)

\* fisopfs_init: what fread could read.  Without an image there is a fresh
\* table; a torn image fills the table from the start and nothing else.
fisopfs_init ==
    /\ mnt = "down"
    /\ inodes' = disk.inodes
    /\ bitmap_inodes' = disk.bitmap
    /\ mnt' = "mounted"
    /\ UNCHANGED <<disk, open, ret>>

\* fisopfs_destroy: fopen empties the image and fwrite fills it.  Until the
\* last byte is out it holds some of the inodes, and not the bitmap.
SaveStart ==
    /\ mnt = "mounted"
    /\ open = {}
    /\ \E n \in 0..MAX_INODES :
          disk' = Image([i \in Inodes |-> IF i < n THEN inodes[i] ELSE ZeroInode],
                        ZeroBitmap, FALSE)
    /\ mnt' = "saving"
    /\ UNCHANGED <<inodes, bitmap_inodes, open, ret>>

SaveEnd ==
    /\ mnt = "saving"
    /\ disk' = Image(inodes, bitmap_inodes, TRUE)
    /\ mnt' = "down"
    /\ inodes' = ZeroTable
    /\ bitmap_inodes' = ZeroBitmap
    /\ UNCHANGED <<open, ret>>

\* The process is killed: its memory is gone.
Crash ==
    /\ mnt = "mounted" \/ (mnt = "saving" /\ "torn" \in Usage)
    /\ mnt' = "down"
    /\ inodes' = ZeroTable
    /\ bitmap_inodes' = ZeroBitmap
    /\ open' = {}
    /\ UNCHANGED <<disk, ret>>

Next ==
    \/ \E p \in FilePaths :
          \/ fisopfs_touch(p)
          \/ Open(p)
          \/ Close(p)
          \/ fisopfs_unlink(p)
          \/ \E off \in 0..MAX_CONTENT, buf \in Buffers : fisopfs_write(p, off, buf)
          \/ \E size \in 0..(MAX_CONTENT + 1) : fisopfs_truncate(p, size)
    \/ \E p \in DirPaths : fisopfs_mkdir(p) \/ fisopfs_rmdir(p)
    \/ fisopfs_init
    \/ SaveStart
    \/ SaveEnd
    \/ Crash

Spec == Init /\ [][Next]_vars

-----------------------------------------------------------------------------
(* What programs see.                                                      *)

\* fisopfs_read copies with strncpy from the start of content; the kernel asks
\* for whole pages and shows the first size bytes.
fisopfs_read(table, i) ==
    [k \in 1..table[i].size |->
        IF \E j \in Positions : j < k /\ table[i].content[j] = NUL THEN NUL
        ELSE IF k <= MAX_CONTENT THEN table[i].content[k - 1]
        ELSE "directory_path"]

\* Mutation of fisopfs_readdir: the search starts one inode too late.
fisopfs_readdirMut(p) ==
    LET dir == get_index_inodo(p)
    IN {inodes[i].path :
           i \in {j \in Inodes \ {0, 1} :
                     /\ bitmap_inodes[j] = 1
                     /\ inodes[j].directory_path = inodes[dir].path}}

\* fisopfs_readdir: the names that ls shows.
fisopfs_readdir(p) ==
    LET dir == get_index_inodo(p)
    IN {inodes[i].path :
           i \in {j \in Inodes \ {0} :
                     /\ bitmap_inodes[j] = 1
                     /\ inodes[j].directory_path = inodes[dir].path}}

-----------------------------------------------------------------------------
(* Properties.                                                             *)

InodeType ==
    [type : {"FS_FILE", "FS_DIR"}, size : Nat, path : Seq(STRING),
     directory_path : Seq(STRING), content : [Positions -> STRING]]

\* The fields of super_b and of its image, and the replies of the operations.
TypeOK ==
    /\ inodes \in [Inodes -> InodeType]
    /\ bitmap_inodes \in [Inodes -> {0, 1}]
    /\ disk.inodes \in [Inodes -> InodeType]
    /\ disk.bitmap \in [Inodes -> {0, 1}]
    /\ disk.whole \in BOOLEAN
    /\ mnt \in {"down", "mounted", "saving"}
    /\ open \subseteq FilePaths
    /\ ret \in {"OK", "EEXIST", "ENOSPC", "EFBIG", "EINVAL", "EACCES", "ENOENT",
                "ENOTEMPTY"}

\* Inode 0, which get_index_inodo returns for "/" without looking, is the root
\* directory: no creation takes its slot and no image replaces it.
RootStays ==
    mnt = "mounted" => /\ inodes[0].type = "FS_DIR"
                       /\ inodes[0].path = ROOT_PATH
                       /\ bitmap_inodes[0] = 1

\* "un 0 significa que el inodo está libre y un 1 está ocupado" (fisopfs.md):
\* lookup goes by the name and creation by the bit, and they agree.
BitmapExact ==
    mnt = "mounted" =>
        \A i \in Inodes : bitmap_inodes[i] = 1 <=> inodes[i].path # EmptyString

\* A name is in the table once, so that the first inode that get_index_inodo
\* finds is the only one.
UniqueNames ==
    \A i, j \in Inodes :
        inodes[i].path = inodes[j].path /\ inodes[i].path # EmptyString => i = j

\* get_index_inodo finds "el inodo que corresponde al path pasado por
\* parámetro" (fisopfs.md): the inode of this path and no other.
LookupIsExact ==
    \A p \in Paths :
        Walk(p) /\ get_index_inodo(p) >= 0 =>
            LET inode == inodes[get_index_inodo(p)]
            IN inode.directory_path \o inode.path = p

\* What is found under a path is listed in its directory.
ListedInParent ==
    \A p \in Paths :
        Walk(p) /\ get_index_inodo(p) >= 0
            => remove_slash(p) \in fisopfs_readdir(get_path_padre(p))

\* "el máximo tamaño es de MAX_CONTENT" (fisopfs.md).
SizeBounded == \A i \in Inodes : inodes[i].size <= MAX_CONTENT

\* A write at the end of a file ("append en el archivo", fisopfs.md) makes the
\* file longer by what was written.
AppendGrows ==
    [][\A p \in FilePaths, off \in 0..MAX_CONTENT, buf \in Buffers :
          /\ fisopfs_write(p, off, buf)
          /\ ret' = "OK"
          /\ IsFile(p) /\ inodes[get_index_inodo(p)].size = off
          => inodes'[get_index_inodo(p)].size = off + Len(buf)]_vars

\* The paths below p that exist.
Below(p) == {q \in Paths : Len(q) > 0 /\ get_path_padre(q) = p /\ Walk(q)
                           /\ get_index_inodo(q) >= 0}

\* delete_dir: "Si contiene archivos o subdirectorios, retornar -ENOTEMPTY".
RmdirOnlyEmpty ==
    [][\A p \in DirPaths :
          fisopfs_rmdir(p) /\ ret' = "OK" => Below(p) = {}]_vars

\* The converse, "remover directorio sin contenido" (fisopfs.md).
RmdirRefusesOnlyFull ==
    [][\A p \in DirPaths :
          fisopfs_rmdir(p) /\ ret' = "ENOTEMPTY" => Below(p) # {}]_vars

-----------------------------------------------------------------------------
(* fisopfs is a file store.                                                *)

\* What a table holds under a path, for a program that walks there.
ObjectAt(table, p) ==
    LET i == Lookup(table, p)
    IN IF i < 0 THEN [kind |-> "none", data |-> <<>>]
       ELSE IF table[i].type = "FS_DIR" THEN [kind |-> "dir", data |-> <<>>]
       ELSE [kind |-> "file", data |-> fisopfs_read(table, i)]

TreeOf(table) == [p \in Paths |-> ObjectAt(table, p)]

\* While the table is being saved the tree is down and already safe.
Files == INSTANCE FileStore WITH
    Capacity <- MAX_INODES - 1,
    MaxSize <- MAX_CONTENT,
    up <- mnt = "mounted",
    tree <- TreeOf(IF mnt = "mounted" THEN inodes ELSE ZeroTable),
    saved <- TreeOf(IF mnt = "saving" THEN inodes ELSE disk.inodes)

\* Every operation has the effect and the reply that the tree of files and
\* directories promises, and an unmount keeps the tree.
IsFileStore == Files!Spec
=============================================================================
