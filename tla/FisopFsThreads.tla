--------------------------- MODULE FisopFsThreads ---------------------------
(***************************************************************************)
(* fuse_main serves requests on several threads unless it is given -s, and *)
(* fs.c has no lock.  Here create_file, write_file and unlink are taken    *)
(* apart at their accesses to super_b: the search of next_free_inodo or    *)
(* get_index_inodo, the store of the inode, the store of the bit.          *)
(*                                                                         *)
(* External: the kernel holds the lock of the parent directory while a     *)
(* creation or a removal in it is served, the lock of a file while a write *)
(* to it is, and libfuse does not unlink a file that is open.              *)
(***************************************************************************)
EXTENDS FisopFs

CONSTANTS
    Threads,
    Setup          \* directories that exist from the start

ASSUME SetupAssumption == Setup \subseteq DirPaths

VARIABLES
    pc,            \* where each thread is
    req,           \* the path it serves
    slot,          \* its local i
    made           \* files whose creation was acknowledged, not yet removed

thrVars == <<pc, req, slot, made>>
allVars == <<vars, thrVars>>

\* The table after initialize_fs and mkdir of the directories of Setup, which
\* have the slots that were free at the time.
TInit ==
    /\ mnt = "mounted"
    /\ disk = FreshImage
    /\ open = {}
    /\ ret = "OK"
    /\ \E order \in [Setup -> Inodes \ {0}] :
          /\ \A p, q \in Setup : order[p] = order[q] => p = q
          /\ inodes = [i \in Inodes |->
                IF i = 0 THEN RootInode
                ELSE IF \E p \in Setup : order[p] = i
                THEN NewInode(CHOOSE p \in Setup : order[p] = i, "FS_DIR")
                ELSE ZeroInode]
          /\ bitmap_inodes = [i \in Inodes |->
                IF i = 0 \/ \E p \in Setup : order[p] = i THEN 1 ELSE 0]
    /\ pc = [t \in Threads |-> "idle"]
    /\ req = [t \in Threads |-> ROOT_PATH]
    /\ slot = [t \in Threads |-> 0]
    /\ made = {}

\* A thread serves a creation or a removal in the directory of p.
ParentLocked(p) ==
    \E t \in Threads :
        /\ pc[t] \in {"scan", "store", "set_bit", "clear_bit", "clear_name"}
        /\ get_path_padre(req[t]) = get_path_padre(p)

\* A thread takes a request.
Request(t, p, label) ==
    /\ pc[t] = "idle"
    /\ pc' = [pc EXCEPT ![t] = label]
    /\ req' = [req EXCEPT ![t] = p]
    /\ UNCHANGED <<vars, made>>

Create(t, p) ==
    /\ Walk(p)
    /\ get_index_inodo(p) = -1
    /\ ~ParentLocked(p)
    /\ Request(t, p, "scan")
    /\ UNCHANGED slot

\* next_free_inodo.
Scan(t) ==
    /\ pc[t] = "scan"
    /\ IF NameTaken(remove_slash(req[t])) \/ FreeInodes = {}
       THEN pc' = [pc EXCEPT ![t] = "idle"] /\ UNCHANGED slot
       ELSE /\ slot' = [slot EXCEPT ![t] = LowestOf(FreeInodes)]
            /\ pc' = [pc EXCEPT ![t] = "store"]
    /\ UNCHANGED <<vars, req, made>>

\* super_b.inodes[i] = new_inodo
Store(t) ==
    /\ pc[t] = "store"
    /\ inodes' = [inodes EXCEPT ![slot[t]] = NewInode(req[t], "FS_FILE")]
    /\ pc' = [pc EXCEPT ![t] = "set_bit"]
    /\ UNCHANGED <<bitmap_inodes, disk, mnt, open, ret, req, slot, made>>

\* Mutation of SetBit: the bit is not set.
SetBitMut(t) ==
    /\ pc[t] = "set_bit"
    /\ made' = made \cup {req[t]}
    /\ open' = open \cup {req[t]}
    /\ pc' = [pc EXCEPT ![t] = "idle"]
    /\ UNCHANGED <<inodes, bitmap_inodes, disk, mnt, ret, req, slot>>

\* super_b.bitmap_inodes[i] = 1, and the reply.
SetBit(t) ==
    /\ pc[t] = "set_bit"
    /\ bitmap_inodes' = [bitmap_inodes EXCEPT ![slot[t]] = 1]
    /\ made' = made \cup {req[t]}
    /\ open' = open \cup {req[t]}
    /\ pc' = [pc EXCEPT ![t] = "idle"]
    /\ UNCHANGED <<inodes, disk, mnt, ret, req, slot>>

\* unlink, after get_index_inodo.
Unlink(t, p) ==
    /\ Walk(p)
    /\ IsFile(p)
    /\ p \notin open
    /\ ~ParentLocked(p)
    /\ Request(t, p, "clear_bit")
    /\ slot' = [slot EXCEPT ![t] = get_index_inodo(p)]

ClearBit(t) ==
    /\ pc[t] = "clear_bit"
    /\ bitmap_inodes' = [bitmap_inodes EXCEPT ![slot[t]] = 0]
    /\ pc' = [pc EXCEPT ![t] = "clear_name"]
    /\ made' = made \ {req[t]}
    /\ UNCHANGED <<inodes, disk, mnt, open, ret, req, slot>>

ClearName(t) ==
    /\ pc[t] = "clear_name"
    /\ inodes' = [inodes EXCEPT ![slot[t]].content = NoContent,
                                ![slot[t]].path = EmptyString]
    /\ pc' = [pc EXCEPT ![t] = "idle"]
    /\ UNCHANGED <<bitmap_inodes, disk, mnt, open, ret, req, slot, made>>

\* Mutation of Write: the index of the last request is used again.
WriteMut(t, p) ==
    /\ p \in open
    /\ IsFile(p)
    /\ \A u \in Threads : pc[u] = "copy" => req[u] # p
    /\ Request(t, p, "copy")
    /\ UNCHANGED slot

\* write_file, after get_index_inodo.
Write(t, p) ==
    /\ p \in open
    /\ IsFile(p)
    /\ \A u \in Threads : pc[u] = "copy" => req[u] # p
    /\ Request(t, p, "copy")
    /\ slot' = [slot EXCEPT ![t] = get_index_inodo(p)]

Copy(t) ==
    /\ pc[t] = "copy"
    /\ \E buf \in Buffers :
          inodes' = [inodes EXCEPT ![slot[t]] = Written(@, 0, buf)]
    /\ pc' = [pc EXCEPT ![t] = "idle"]
    /\ UNCHANGED <<bitmap_inodes, disk, mnt, open, ret, req, slot, made>>

TClose(p) ==
    /\ \A t \in Threads : pc[t] = "copy" => req[t] # p
    /\ Close(p)
    /\ UNCHANGED thrVars

TOpen(p) == Open(p) /\ ~ParentLocked(p) /\ UNCHANGED thrVars

TNext ==
    \/ \E t \in Threads :
          \/ Scan(t)
          \/ Store(t)
          \/ SetBit(t)
          \/ ClearBit(t)
          \/ ClearName(t)
          \/ Copy(t)
          \/ \E p \in FilePaths : Create(t, p) \/ Unlink(t, p) \/ Write(t, p)
    \/ \E p \in FilePaths : TOpen(p) \/ TClose(p)

TSpec == TInit /\ [][TNext]_allVars

-----------------------------------------------------------------------------

\* A file whose creation was acknowledged and which nobody has removed is in
\* the table: create_file "crea un nuevo inodo con el path, mode y tipo que se
\* le pasa. lo guarda en el superbloque".
NoLostFile == \A p \in made : IsFile(p)

\* A write goes to the inode of its file, though the inode was looked up some
\* steps ago.
WriteHitsItsFile ==
    \A t \in Threads :
        pc[t] = "copy" => inodes[slot[t]].path = remove_slash(req[t])
=============================================================================
