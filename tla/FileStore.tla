----------------------------- MODULE FileStore -----------------------------
(***************************************************************************)
(* What fisopfs promises to the programs that use it: a tree of files and  *)
(* directories with a fixed number of places, whose operations are atomic  *)
(* and which survives an unmount; a crash brings back the last unmount.    *)
(***************************************************************************)
EXTENDS Integers, Sequences, FiniteSets

CONSTANTS FilePaths, DirPaths, Buffers, Capacity, MaxSize

VARIABLES
    tree,     \* what each path is
    saved,    \* the tree at the last unmount
    up,       \* mounted
    open,     \* files that programs have open
    ret       \* what the last operation returned

vars == <<tree, saved, up, open, ret>>

Paths == FilePaths \cup DirPaths

None == [kind |-> "none", data |-> <<>>]
Dir == [kind |-> "dir", data |-> <<>>]
File(data) == [kind |-> "file", data |-> data]

Empty == [p \in Paths |-> None]

Parent(p) == SubSeq(p, 1, Len(p) - 1)
HasParent(p) == Parent(p) = <<>> \/ tree[Parent(p)] = Dir
Below(p) == {q \in Paths : Parent(q) = p /\ tree[q] # None}
IsFull == Cardinality({p \in Paths : tree[p] # None}) >= Capacity

Init ==
    /\ tree = Empty
    /\ saved = Empty
    /\ up = FALSE
    /\ open = {}
    /\ ret = "OK"

Set(p, object) == tree' = [tree EXCEPT ![p] = object] /\ ret' = "OK"
Fail(errno) == UNCHANGED tree /\ ret' = errno

\* A new object goes into a directory that exists, while there is room.
Add(p, object) ==
    /\ up
    /\ HasParent(p)
    /\ tree[p] = None
    /\ IF IsFull THEN Fail("ENOSPC") ELSE Set(p, object)
    /\ UNCHANGED <<saved, up>>

CreateFile(p) ==
    /\ Add(p, File(<<>>))
    /\ open' = IF IsFull THEN open ELSE open \cup {p}

MakeDir(p) == Add(p, Dir) /\ UNCHANGED open

\* The bytes of data with those of buf in place from offset off on.
Overwrite(data, off, buf) ==
    SubSeq(data, 1, off) \o buf \o SubSeq(data, off + Len(buf) + 1, Len(data))

Write(p, off, buf) ==
    /\ p \in open
    /\ IF off + Len(buf) > MaxSize THEN Fail("EFBIG")
       ELSE IF off > Len(tree[p].data) THEN Fail("EINVAL")
       ELSE Set(p, File(Overwrite(tree[p].data, off, buf)))
    /\ UNCHANGED <<saved, up, open>>

\* A file cut to its present size stays as it is; other sizes are not promised.
Truncate(p) ==
    /\ up
    /\ tree[p].kind = "file"
    /\ UNCHANGED <<tree, saved, up, open>>
    /\ ret' \in {"OK", "ENOENT"}

Remove(p) ==
    /\ up
    /\ tree[p].kind = "file"
    /\ p \notin open
    /\ Set(p, None)
    /\ UNCHANGED <<saved, up, open>>

RemoveDir(p) ==
    /\ up
    /\ tree[p] = Dir
    /\ IF Below(p) # {} THEN Fail("ENOTEMPTY") ELSE Set(p, None)
    /\ UNCHANGED <<saved, up, open>>

Open(p) ==
    /\ up
    /\ tree[p].kind = "file"
    /\ open' = open \cup {p}
    /\ UNCHANGED <<tree, saved, up, ret>>

Close(p) == open' = open \ {p} /\ UNCHANGED <<tree, saved, up, ret>>

Mount ==
    /\ ~up
    /\ up' = TRUE
    /\ tree' = saved
    /\ UNCHANGED <<saved, open, ret>>

Unmount ==
    /\ up
    /\ open = {}
    /\ up' = FALSE
    /\ saved' = tree
    /\ tree' = Empty
    /\ UNCHANGED <<open, ret>>

Crash ==
    /\ up
    /\ up' = FALSE
    /\ tree' = Empty
    /\ open' = {}
    /\ UNCHANGED <<saved, ret>>

Next ==
    \/ \E p \in FilePaths :
          \/ CreateFile(p) \/ Truncate(p) \/ Remove(p) \/ Open(p) \/ Close(p)
          \/ \E off \in 0..MaxSize, buf \in Buffers : Write(p, off, buf)
    \/ \E p \in DirPaths : MakeDir(p) \/ RemoveDir(p)
    \/ Mount
    \/ Unmount
    \/ Crash

Spec == Init /\ [][Next]_vars
=============================================================================
