---------------------------- MODULE FisopFsProofs ----------------------------
(***************************************************************************)
(* Proofs about fisopfs: the inode table stays a table with one inode per  *)
(* name under every operation, every crash and every completed save, and   *)
(* what the threads of fuse_main do in one directory does not lose a file; *)
(* and for plain names and text fisopfs implements FileStore.              *)
(***************************************************************************)
EXTENDS FisopFsThreads, WellFoundedInduction, SequenceTheorems, FiniteSetTheorems, TLAPS

-----------------------------------------------------------------------------
(* The operators of fs.c.                                                  *)

\* LowestOf is the least element of a set of numbers that is not empty.
LEMMA LowestIs ==
    ASSUME NEW S, S \subseteq Nat, S # {}
    PROVE  LowestOf(S) \in S /\ \A j \in S : LowestOf(S) <= j
<1> DEFINE R == OpToRel(<, Nat)
<1>1. IsWellFoundedOn(R, Nat)
  BY NatLessThanWellFounded
<1>2. \A a, b \in Nat : <<a, b>> \in R <=> a < b
  BY DEF OpToRel
<1> HIDE DEF R
<1>3. PICK x \in S : \A y \in S : ~(<<y, x>> \in R)
  BY <1>1, WFMin
<1>4. \A y \in S : x <= y
  <2>1. SUFFICES ASSUME NEW y \in S PROVE x <= y
    OBVIOUS
  <2>2. x \in Nat /\ y \in Nat /\ ~(y < x)
    BY <1>2, <1>3
  <2>3. QED BY <2>2
<1>5. QED BY <1>3, <1>4 DEF LowestOf

\* Inode numbers are natural numbers.
LEMMA InodesAreNat == Inodes \subseteq Nat /\ 0 \in Inodes /\ -1 \notin Inodes
BY FsAssumption DEF Inodes

\* The positions of a content are natural numbers below MAX_CONTENT.
LEMMA PositionsAreNat == Positions \subseteq Nat
BY FsAssumption DEF Positions

\* The name of a path is a string of one name, and not the empty string.
LEMMA NameOfPath ==
    ASSUME NEW p \in Paths
    PROVE  /\ p # ROOT_PATH
           /\ remove_slash(p) \in Seq(STRING)
           /\ remove_slash(p) # EmptyString
           /\ remove_slash(p) # ROOT_PATH
<1>0. p \in Seq(STRING) /\ Len(p) > 0 /\ p[Len(p)] # NUL
  <2>1. p \in Seq(STRING) /\ Len(p) > 0 /\ \A k \in 1..Len(p) : p[k] # NUL
    BY FsAssumption DEF Paths
  <2>2. Len(p) \in 1..Len(p)
    BY <2>1
  <2>3. QED BY <2>1, <2>2
<1>1. p[Len(p)] \in STRING
  BY <1>0
<1>2. <<p[Len(p)]>>[1] = p[Len(p)] /\ Len(<<p[Len(p)]>>) = 1
  OBVIOUS
<1>3. QED
  BY <1>0, <1>1, <1>2 DEF remove_slash, ROOT_PATH, EmptyString

\* The parent of a path is a path.
LEMMA ParentIsPath ==
    ASSUME NEW p \in Paths
    PROVE  /\ get_path_padre(p) \in Seq(STRING)
           /\ Len(get_path_padre(p)) = Len(p) - 1
<1>1. p \in Seq(STRING) /\ Len(p) > 0
  BY FsAssumption DEF Paths
<1>2. Len(p) - 1 \in Int /\ 1 \in Int /\ Len(p) \in Nat
  BY <1>1
<1>3. \A k \in 1..(Len(p) - 1) : p[k] \in STRING
  BY <1>1
<1> DEFINE n == Len(p) - 1
<1>4. n \in Int /\ n >= 0 /\ \A k \in 1..n : p[k] \in STRING
  BY <1>1, <1>2, <1>3
<1>5. get_path_padre(p) = SubSeq(p, 1, n)
  BY Zenon DEF get_path_padre
<1> DEFINE s == SubSeq(p, 1, n)
<1> HIDE DEF n
<1>6. s \in Seq(STRING) /\ Len(s) = IF 1 <= n THEN n - 1 + 1 ELSE 0
  BY <1>4, SubSeqProperties
<1> HIDE DEF s
<1>7. Len(s) = n
  BY <1>4, <1>6
<1>8. QED
  BY <1>5, <1>6, <1>7 DEF s, n

\* get_index_inodo returns an inode with the name of the path, or -1 when no
\* inode has that name.
LEMMA LookupFinds ==
    ASSUME NEW t, NEW p, p # ROOT_PATH
    PROVE  \/ /\ Lookup(t, p) \in Inodes
              /\ Lookup(t, p) >= 0
              /\ t[Lookup(t, p)].path = remove_slash(p)
           \/ /\ Lookup(t, p) = -1
              /\ \A i \in Inodes : t[i].path # remove_slash(p)
<1> DEFINE found == {i \in Inodes : t[i].path = remove_slash(p)}
<1>1. CASE found = {}
  BY <1>1 DEF Lookup
<1>2. CASE found # {}
  <2>1. found \subseteq Nat
    BY InodesAreNat
  <2>2. LowestOf(found) \in found
    BY <1>2, <2>1, LowestIs
  <2>3. Lookup(t, p) = LowestOf(found)
    BY <1>2 DEF Lookup
  <2>4. LowestOf(found) \in Inodes /\ LowestOf(found) \in Nat
    BY <2>1, <2>2
  <2>5. t[LowestOf(found)].path = remove_slash(p)
    BY <2>2
  <2> HIDE DEF found
  <2>6. QED BY <2>3, <2>4, <2>5
<1>3. QED BY <1>1, <1>2

\* The same for the paths of programs, none of which is the root.
LEMMA LookupIs ==
    ASSUME NEW t, NEW p \in Paths
    PROVE  \/ /\ Lookup(t, p) \in Inodes
              /\ Lookup(t, p) >= 0
              /\ t[Lookup(t, p)].path = remove_slash(p)
           \/ /\ Lookup(t, p) = -1
              /\ \A i \in Inodes : t[i].path # remove_slash(p)
BY NameOfPath, LookupFinds

\* The free inode that next_free_inodo takes.
LEMMA LowestFree ==
    ASSUME FreeInodes # {}
    PROVE  LowestOf(FreeInodes) \in Inodes /\ bitmap_inodes[LowestOf(FreeInodes)] = 0
<1>1. FreeInodes \subseteq Nat
  BY InodesAreNat DEF FreeInodes
<1>2. LowestOf(FreeInodes) \in FreeInodes
  BY <1>1, LowestIs
<1>3. QED BY <1>2 DEF FreeInodes

\* strncpy leaves a content.
LEMMA CopyType ==
    ASSUME NEW c \in [Positions -> STRING], NEW off \in Nat, NEW buf \in Buffers
    PROVE  strncpy(c, off, buf) \in [Positions -> STRING]
<1>1. buf \in Seq(STRING)
  BY FsAssumption
<1> DEFINE E(k) == IF k < off \/ k >= off + Len(buf) THEN c[k]
                   ELSE IF \E j \in 1..(k - off + 1) : buf[j] = NUL THEN NUL
                   ELSE buf[k - off + 1]
<1>0. strncpy(c, off, buf) = [k \in Positions |-> E(k)]
  BY DEF strncpy
<1>2. SUFFICES ASSUME NEW k \in Positions PROVE E(k) \in STRING
  <2> HIDE DEF E
  <2> QED BY <1>0
<1>3. k \in Nat /\ c[k] \in STRING /\ NUL \in STRING
  BY PositionsAreNat, FsAssumption
<1>4. CASE k < off \/ k >= off + Len(buf)
  BY <1>3, <1>4
<1>5. CASE ~(k < off \/ k >= off + Len(buf))
  <2>1. k - off + 1 \in 1..Len(buf)
    BY <1>1, <1>3, <1>5
  <2>2. buf[k - off + 1] \in STRING
    BY <1>1, <2>1
  <2>3. QED BY <1>3, <1>5, <2>2
<1>6. QED BY <1>4, <1>5

\* strlen is a number, also where it runs on into directory_path.
LEMMA LengthType ==
    ASSUME NEW c, NEW d \in Seq(STRING)
    PROVE  strlen(c, d) \in Nat
<1> DEFINE nuls == {k \in Positions : c[k] = NUL}
<1>1. CASE nuls = {}
  <2>1. StrLenOfPath(d) \in Nat
    <3>1. CASE d = ROOT_PATH
      BY <3>1 DEF StrLenOfPath
    <3>2. CASE d # ROOT_PATH
      <4>1. Len(d) \in Nat /\ Len(d) # 0
        BY <3>2 DEF ROOT_PATH
      <4>2. QED BY <3>2, <4>1 DEF StrLenOfPath
    <3>3. QED BY <3>1, <3>2
  <2>2. strlen(c, d) = MAX_CONTENT + StrLenOfPath(d)
    BY <1>1 DEF strlen
  <2>3. QED BY <2>1, <2>2, FsAssumption
<1>2. CASE nuls # {}
  <2>1. nuls \subseteq Nat
    BY PositionsAreNat
  <2>2. LowestOf(nuls) \in nuls
    BY <1>2, <2>1, LowestIs
  <2>3. strlen(c, d) = LowestOf(nuls)
    BY <1>2 DEF strlen
  <2>4. QED BY <2>1, <2>2, <2>3
<1>3. QED BY <1>1, <1>2

\* A write changes the content and the size of an inode, and leaves its name,
\* type and parent.
LEMMA WrittenIs ==
    ASSUME NEW inode \in InodeType, NEW off \in Nat, NEW buf \in Buffers
    PROVE  /\ Written(inode, off, buf) \in InodeType
           /\ Written(inode, off, buf).path = inode.path
           /\ Written(inode, off, buf).type = inode.type
           /\ Written(inode, off, buf).directory_path = inode.directory_path
<1> DEFINE c == strncpy(inode.content, off, buf)
           n == strlen(c, inode.directory_path)
<1>1. c \in [Positions -> STRING]
  BY CopyType DEF InodeType
<1>2. n \in Nat
  BY LengthType DEF InodeType
<1>3. Written(inode, off, buf) = [inode EXCEPT !.content = c, !.size = n]
  BY DEF Written
<1> HIDE DEF c, n
<1>4. QED BY <1>1, <1>2, <1>3 DEF InodeType

\* One element is a sequence.
LEMMA OneIsSeq == \A S : \A x \in S : <<x>> \in Seq(S)
OBVIOUS

\* The inodes that the operations store.
LEMMA InodeTypes ==
    /\ NoContent \in [Positions -> STRING]
    /\ ZeroInode \in InodeType
    /\ RootInode \in InodeType
    /\ ZeroInode.path = EmptyString
    /\ RootInode.path = ROOT_PATH
    /\ RootInode.type = "FS_DIR"
<1>1. NoContent \in [Positions -> STRING]
  BY FsAssumption DEF NoContent
<1>n. NUL \in STRING
  BY FsAssumption
<1>s. EmptyString \in Seq(STRING)
  BY <1>n, OneIsSeq, Zenon DEF EmptyString
<1>t. ROOT_PATH \in Seq(STRING)
  BY EmptySeq DEF ROOT_PATH
<1>2. EmptyString \in Seq(STRING) /\ ROOT_PATH \in Seq(STRING)
  BY <1>s, <1>t
<1>3. ZeroInode \in InodeType
  BY <1>1, <1>2 DEF ZeroInode, InodeType
<1>m. MAX_CONTENT \in Nat
  BY FsAssumption
<1>4. RootInode \in InodeType /\ RootInode.path = ROOT_PATH
  BY <1>m, <1>2, <1>3 DEF RootInode, InodeType
<1>5. ZeroInode.path = EmptyString /\ ZeroInode.type = "FS_DIR"
  BY DEF ZeroInode
<1>6. RootInode.type = ZeroInode.type
  BY <1>3 DEF RootInode, InodeType
<1>9. QED
  BY <1>1, <1>3, <1>4, <1>5, <1>6

\* The inode that create_file stores.
LEMMA NewInodeIs ==
    ASSUME NEW p \in Paths, NEW type \in {"FS_FILE", "FS_DIR"}
    PROVE  /\ NewInode(p, type) \in InodeType
           /\ NewInode(p, type).path = remove_slash(p)
           /\ NewInode(p, type).type = type
           /\ type = "FS_FILE" =>
                NewInode(p, type).directory_path = get_path_padre(p)
           /\ type = "FS_DIR" => NewInode(p, type).directory_path = ROOT_PATH
<1>1. remove_slash(p) \in Seq(STRING) /\ get_path_padre(p) \in Seq(STRING)
  BY NameOfPath, ParentIsPath
<1>2. ROOT_PATH \in Seq(STRING)
  BY DEF ROOT_PATH
<1>3. QED
  BY <1>1, <1>2, InodeTypes DEF NewInode, InodeType

-----------------------------------------------------------------------------
(* The table.                                                              *)

TableType(t, b) == t \in [Inodes -> InodeType] /\ b \in [Inodes -> {0, 1}]

Rooted(t, b) == t[0].type = "FS_DIR" /\ t[0].path = ROOT_PATH /\ b[0] = 1

Named(t, b) == \A i \in Inodes : b[i] = 1 <=> t[i].path # EmptyString

Unique(t) ==
    \A i, j \in Inodes : t[i].path = t[j].path /\ t[i].path # EmptyString => i = j

\* What create_file made of a path.
MadeFrom(inode, p) ==
    /\ inode.path = remove_slash(p)
    /\ inode.type = "FS_FILE" =>
          p \in FilePaths /\ inode.directory_path = get_path_padre(p)
    /\ inode.type = "FS_DIR" =>
          p \in DirPaths /\ inode.directory_path = ROOT_PATH

Placed(t) ==
    \A i \in Inodes \ {0} :
        t[i].path # EmptyString => \E p \in Paths : MadeFrom(t[i], p)

GoodTable(t, b) ==
    /\ TableType(t, b)
    /\ Rooted(t, b)
    /\ Named(t, b)
    /\ Unique(t)
    /\ Placed(t)

\* f and g agree everywhere but at i.
SameBut(f, g, i) == \A j \in Inodes : j # i => g[j] = f[j]

\* create_file in a free inode of a name that is not in the table.
LEMMA AddKeeps ==
    ASSUME NEW t, NEW b, NEW t2, NEW b2, NEW i \in Inodes, NEW p \in Paths,
           GoodTable(t, b), TableType(t2, b2),
           SameBut(t, t2, i), SameBut(b, b2, i),
           b[i] = 0, b2[i] = 1,
           \A j \in Inodes : t[j].path # remove_slash(p),
           MadeFrom(t2[i], p)
    PROVE  GoodTable(t2, b2)
<1>0. i # 0 /\ 0 \in Inodes
  BY InodesAreNat DEF GoodTable, Rooted
<1>1. Rooted(t2, b2)
  BY <1>0 DEF GoodTable, Rooted, SameBut
<1>2. t2[i].path = remove_slash(p) /\ remove_slash(p) # EmptyString
  BY NameOfPath DEF MadeFrom
<1>3. Named(t2, b2)
  BY <1>2 DEF GoodTable, Named, SameBut
<1>4. Unique(t2)
  <2>1. SUFFICES ASSUME NEW j \in Inodes, NEW k \in Inodes,
                        t2[j].path = t2[k].path, t2[j].path # EmptyString
                 PROVE  j = k
    BY DEF Unique
  <2>2. CASE j # i /\ k # i
    BY <2>1, <2>2 DEF GoodTable, Unique, SameBut
  <2>3. CASE j = i \/ k = i
    BY <1>2, <2>1, <2>3 DEF SameBut
  <2>4. QED BY <2>2, <2>3
<1>5. Placed(t2)
  <2>1. SUFFICES ASSUME NEW j \in Inodes \ {0}, t2[j].path # EmptyString
                 PROVE  \E q \in Paths : MadeFrom(t2[j], q)
    BY DEF Placed
  <2>2. CASE j = i
    BY <2>2
  <2>3. CASE j # i
    <3>1. t2[j] = t[j]
      BY <2>3 DEF SameBut
    <3>2. QED BY <2>1, <3>1 DEF GoodTable, Placed
  <2>4. QED BY <2>2, <2>3
<1>6. QED BY <1>1, <1>3, <1>4, <1>5 DEF GoodTable

\* A change of the content or the size of an inode.
LEMMA EditKeeps ==
    ASSUME NEW t, NEW b, NEW t2, NEW i \in Inodes,
           GoodTable(t, b), TableType(t2, b),
           SameBut(t, t2, i),
           t2[i].path = t[i].path,
           t2[i].type = t[i].type,
           t2[i].directory_path = t[i].directory_path
    PROVE  GoodTable(t2, b)
<1>1. \A j \in Inodes : /\ t2[j].path = t[j].path
                        /\ t2[j].type = t[j].type
                        /\ t2[j].directory_path = t[j].directory_path
  BY DEF SameBut
<1>2. Rooted(t2, b)
  BY <1>1, InodesAreNat DEF GoodTable, Rooted
<1>3. Named(t2, b)
  BY <1>1 DEF GoodTable, Named
<1>4. Unique(t2)
  BY <1>1 DEF GoodTable, Unique
<1>5. Placed(t2)
  <2>1. SUFFICES ASSUME NEW j \in Inodes \ {0}, t2[j].path # EmptyString
                 PROVE  \E q \in Paths : MadeFrom(t2[j], q)
    BY DEF Placed
  <2>2. PICK q \in Paths : MadeFrom(t[j], q)
    BY <1>1, <2>1 DEF GoodTable, Placed
  <2>3. MadeFrom(t2[j], q)
    BY <1>1, <2>2 DEF MadeFrom
  <2>4. QED BY <2>3
<1>6. QED BY <1>2, <1>3, <1>4, <1>5 DEF GoodTable

\* The removal of an inode other than the root.
LEMMA DropKeeps ==
    ASSUME NEW t, NEW b, NEW t2, NEW b2, NEW i \in Inodes,
           GoodTable(t, b), TableType(t2, b2),
           SameBut(t, t2, i), SameBut(b, b2, i),
           i # 0, b2[i] = 0, t2[i].path = EmptyString
    PROVE  GoodTable(t2, b2)
<1>1. Rooted(t2, b2)
  BY InodesAreNat DEF GoodTable, Rooted, SameBut
<1>2. Named(t2, b2)
  BY DEF GoodTable, Named, SameBut
<1>3. Unique(t2)
  BY DEF GoodTable, Unique, SameBut
<1>4. Placed(t2)
  <2>1. SUFFICES ASSUME NEW j \in Inodes \ {0}, t2[j].path # EmptyString
                 PROVE  \E q \in Paths : MadeFrom(t2[j], q)
    BY DEF Placed
  <2>2. t2[j] = t[j]
    BY <2>1 DEF SameBut
  <2>3. QED BY <2>1, <2>2 DEF GoodTable, Placed
<1>5. QED BY <1>1, <1>2, <1>3, <1>4 DEF GoodTable

\* The table of initialize_fs.
LEMMA FreshIsGood == GoodTable(FreshImage.inodes, FreshImage.bitmap)
<1> DEFINE t == [ZeroTable EXCEPT ![0] = RootInode]
           b == [ZeroBitmap EXCEPT ![0] = 1]
<1>1. FreshImage.inodes = t /\ FreshImage.bitmap = b
  BY DEF FreshImage, Image
<1>2. 0 \in Inodes
  BY InodesAreNat
<1>3. TableType(t, b)
  BY <1>2, InodeTypes DEF TableType, ZeroTable, ZeroBitmap
<1>4. \A i \in Inodes : i # 0 => t[i] = ZeroInode /\ b[i] = 0
  BY DEF ZeroTable, ZeroBitmap
<1>5. t[0] = RootInode /\ b[0] = 1
  BY <1>2 DEF ZeroTable, ZeroBitmap
<1>6. ROOT_PATH # EmptyString
  <2>1. Len(<<>>) = 0 /\ Len(<<NUL>>) = 1
    OBVIOUS
  <2>2. QED BY <2>1 DEF ROOT_PATH, EmptyString
<1> HIDE DEF t, b
<1>7. Rooted(t, b)
  BY <1>5, InodeTypes DEF Rooted
<1>8. Named(t, b)
  BY <1>4, <1>5, <1>6, InodeTypes DEF Named
<1>9. Unique(t)
  BY <1>4, InodeTypes DEF Unique
<1>10. Placed(t)
  BY <1>4, InodeTypes DEF Placed
<1>11. QED BY <1>1, <1>3, <1>7, <1>8, <1>9, <1>10 DEF GoodTable

-----------------------------------------------------------------------------
(* The inductive invariant of Spec.                                        *)

Replies == {"OK", "EEXIST", "ENOSPC", "EFBIG", "EINVAL", "EACCES", "ENOENT",
            "ENOTEMPTY"}

\* TypeOK, and: the mounted table and every image that a mount can find are
\* good.  While the table is saved the image is not, so the process must not
\* die then ("torn").
FsInv ==
    /\ TableType(inodes, bitmap_inodes)
    /\ TableType(disk.inodes, disk.bitmap)
    /\ disk.whole \in BOOLEAN
    /\ mnt \in {"down", "mounted", "saving"}
    /\ open \subseteq FilePaths
    /\ ret \in Replies
    /\ mnt # "down" => GoodTable(inodes, bitmap_inodes)
    /\ mnt = "down" => inodes = ZeroTable
    /\ mnt # "saving" => GoodTable(disk.inodes, disk.bitmap)
    /\ mnt # "mounted" => open = {}
\* An operation that fails leaves the table.
LEMMA FailsKeeps ==
    ASSUME NEW e \in Replies, Fails(e), GoodTable(inodes, bitmap_inodes)
    PROVE  GoodTable(inodes, bitmap_inodes)' /\ ret' \in Replies
<1>1. inodes' = inodes /\ bitmap_inodes' = bitmap_inodes /\ ret' = e
  BY DEF Fails
<1>2. QED BY <1>1

\* A new inode in a free slot.
LEMMA NewKeeps ==
    ASSUME GoodTable(inodes, bitmap_inodes), NEW p \in Paths,
           NEW type \in {"FS_FILE", "FS_DIR"},
           type = "FS_FILE" => p \in FilePaths,
           type = "FS_DIR" => p \in DirPaths,
           \A j \in Inodes : inodes[j].path # remove_slash(p),
           NEW i \in Inodes, bitmap_inodes[i] = 0,
           NEW t, t = [inodes EXCEPT ![i] = NewInode(p, type)],
           NEW b, b = [bitmap_inodes EXCEPT ![i] = 1]
    PROVE  GoodTable(t, b)
<1>0. TableType(inodes, bitmap_inodes)
  BY DEF GoodTable
<1>1. t[i] = NewInode(p, type) /\ b[i] = 1
  BY <1>0 DEF TableType
<1>2. SameBut(inodes, t, i) /\ SameBut(bitmap_inodes, b, i)
  BY <1>0 DEF TableType, SameBut
<1>3. TableType(t, b)
  BY <1>0, NewInodeIs DEF TableType
<1>4. MadeFrom(t[i], p)
  BY <1>1, NewInodeIs DEF MadeFrom
<1>5. QED BY <1>1, <1>2, <1>3, <1>4, AddKeeps

\* create_file.
LEMMA CreateFileKeeps ==
    ASSUME GoodTable(inodes, bitmap_inodes), NEW p \in Paths,
           NEW type \in {"FS_FILE", "FS_DIR"},
           type = "FS_FILE" => p \in FilePaths,
           type = "FS_DIR" => p \in DirPaths,
           create_file(p, type)
    PROVE  GoodTable(inodes, bitmap_inodes)' /\ ret' \in Replies
<1>1. CASE Fails("EEXIST") \/ Fails("ENOSPC")
  <2>1. PICK e \in Replies : Fails(e)
    BY <1>1 DEF Replies
  <2>2. QED BY <2>1, FailsKeeps
<1>2. CASE /\ ~NameTaken(remove_slash(p))
           /\ FreeInodes # {}
           /\ inodes' = [inodes EXCEPT ![LowestOf(FreeInodes)] = NewInode(p, type)]
           /\ bitmap_inodes' = [bitmap_inodes EXCEPT ![LowestOf(FreeInodes)] = 1]
           /\ ret' = "OK"
  <2>1. \A j \in Inodes : inodes[j].path # remove_slash(p)
    BY <1>2 DEF NameTaken
  <2>2. PICK i : i = LowestOf(FreeInodes)
    OBVIOUS
  <2>3. i \in Inodes /\ bitmap_inodes[i] = 0
    BY <1>2, <2>2, LowestFree
  <2>4. /\ inodes' = [inodes EXCEPT ![i] = NewInode(p, type)]
        /\ bitmap_inodes' = [bitmap_inodes EXCEPT ![i] = 1]
    BY <1>2, <2>2
  <2>5. GoodTable(inodes', bitmap_inodes')
    BY <2>1, <2>3, <2>4, NewKeeps
  <2>6. QED BY <1>2, <2>5 DEF Replies
<1>3. QED
  BY <1>1, <1>2, Zenon DEF create_file

\* What WriteInode does to a good table.
LEMMA WriteInodeKeeps ==
    ASSUME NEW t, NEW b, GoodTable(t, b), NEW i \in Inodes,
           NEW off \in Nat, NEW buf \in Buffers, WriteInode(t, i, off, buf)
    PROVE  GoodTable(inodes', b) /\ ret' \in Replies
<1>1. \/ ret' \in {"EINVAL", "EACCES"} /\ inodes' = t
      \/ ret' = "OK" /\ inodes' = [t EXCEPT ![i] = Written(t[i], off, buf)]
  BY DEF WriteInode
<1>2. CASE ret' \in {"EINVAL", "EACCES"} /\ inodes' = t
  BY <1>2 DEF Replies
<1>3. CASE ret' = "OK" /\ inodes' = [t EXCEPT ![i] = Written(t[i], off, buf)]
  <2>1. TableType(t, b) /\ t[i] \in InodeType
    BY DEF GoodTable, TableType
  <2>2. PICK w : w = Written(t[i], off, buf)
    OBVIOUS
  <2>3. /\ w \in InodeType
        /\ w.path = t[i].path
        /\ w.type = t[i].type
        /\ w.directory_path = t[i].directory_path
    BY <2>1, <2>2, WrittenIs
  <2>4. PICK t2 : t2 = [t EXCEPT ![i] = w]
    OBVIOUS
  <2>5. inodes' = t2
    BY <1>3, <2>2, <2>4
  <2>6. TableType(t2, b) /\ t2[i] = w /\ SameBut(t, t2, i)
    BY <2>1, <2>3, <2>4 DEF TableType, SameBut
  <2>7. GoodTable(t2, b)
    BY <2>3, <2>6, EditKeeps
  <2>8. QED BY <1>3, <2>5, <2>7 DEF Replies
<1>4. QED BY <1>1, <1>2, <1>3

\* write_file.
LEMMA WriteFileKeeps ==
    ASSUME GoodTable(inodes, bitmap_inodes), NEW p \in FilePaths,
           NEW off \in Nat, NEW buf \in Buffers, write_file(p, off, buf)
    PROVE  GoodTable(inodes, bitmap_inodes)' /\ ret' \in Replies
<1>0. p \in Paths
  BY DEF Paths
<1>1. CASE Fails("EFBIG") \/ Fails("ENOSPC")
  <2>1. PICK e \in Replies : Fails(e)
    BY <1>1 DEF Replies
  <2>2. QED BY <2>1, FailsKeeps
<1>2. CASE /\ get_index_inodo(p) >= 0
           /\ WriteInode(inodes, get_index_inodo(p), off, buf)
           /\ UNCHANGED bitmap_inodes
  <2>1. PICK i : i = get_index_inodo(p)
    OBVIOUS
  <2>2. i \in Inodes
    BY <1>0, <1>2, <2>1, LookupIs DEF get_index_inodo
  <2>3. WriteInode(inodes, i, off, buf)
    BY <1>2, <2>1
  <2>4. GoodTable(inodes', bitmap_inodes) /\ ret' \in Replies
    BY <2>2, <2>3, WriteInodeKeeps
  <2>5. QED BY <1>2, <2>4
<1>3. CASE /\ ~(get_index_inodo(p) >= 0)
           /\ FreeInodes # {}
           /\ WriteInode([inodes EXCEPT ![LowestOf(FreeInodes)] =
                              NewInode(p, "FS_FILE")],
                         LowestOf(FreeInodes), off, buf)
           /\ bitmap_inodes' = [bitmap_inodes EXCEPT ![LowestOf(FreeInodes)] = 1]
  <2>1. \A j \in Inodes : inodes[j].path # remove_slash(p)
    BY <1>0, <1>3, LookupIs DEF get_index_inodo
  <2>2. PICK i : i = LowestOf(FreeInodes)
    OBVIOUS
  <2>3. i \in Inodes /\ bitmap_inodes[i] = 0
    BY <1>3, <2>2, LowestFree
  <2>4. PICK t : t = [inodes EXCEPT ![i] = NewInode(p, "FS_FILE")]
    OBVIOUS
  <2>5. WriteInode(t, i, off, buf)
    BY <1>3, <2>2, <2>4
  <2>6. bitmap_inodes' = [bitmap_inodes EXCEPT ![i] = 1]
    BY <1>3, <2>2
  <2>7. GoodTable(t, bitmap_inodes')
    BY <1>0, <2>1, <2>3, <2>4, <2>6, NewKeeps
  <2>8. GoodTable(inodes', bitmap_inodes') /\ ret' \in Replies
    BY <2>3, <2>5, <2>7, WriteInodeKeeps
  <2>9. QED BY <2>8
<1>4. QED
  BY <1>1, <1>2, <1>3, Zenon DEF write_file

\* unlink and delete_dir: an inode other than the root loses name and bit.
LEMMA RemovalKeeps ==
    ASSUME GoodTable(inodes, bitmap_inodes), NEW p \in Paths,
           get_index_inodo(p) >= 0,
           NEW inode \in InodeType, inode.path = EmptyString,
           inodes' = [inodes EXCEPT ![get_index_inodo(p)] = inode],
           bitmap_inodes' = [bitmap_inodes EXCEPT ![get_index_inodo(p)] = 0]
    PROVE  GoodTable(inodes, bitmap_inodes)'
<1>1. PICK i : i = get_index_inodo(p)
  OBVIOUS
<1>2. i \in Inodes /\ inodes[i].path = remove_slash(p)
  BY <1>1, LookupIs DEF get_index_inodo
<1>3. i # 0
  BY <1>2, NameOfPath DEF GoodTable, Rooted
<1>4. /\ inodes' = [inodes EXCEPT ![i] = inode]
      /\ bitmap_inodes' = [bitmap_inodes EXCEPT ![i] = 0]
  BY <1>1
<1>5. TableType(inodes, bitmap_inodes)
  BY DEF GoodTable
<1>6. TableType(inodes', bitmap_inodes')
  BY <1>4, <1>5 DEF TableType
<1>7. SameBut(inodes, inodes', i) /\ SameBut(bitmap_inodes, bitmap_inodes', i)
  BY <1>4, <1>5 DEF TableType, SameBut
<1>8. inodes'[i].path = EmptyString /\ bitmap_inodes'[i] = 0
  BY <1>2, <1>4, <1>5 DEF TableType
<1>9. GoodTable(inodes', bitmap_inodes')
  BY <1>2, <1>3, <1>6, <1>7, <1>8, DropKeeps
<1>10. QED BY <1>9

\* unlink keeps the table good.
LEMMA UnlinkKeeps ==
    ASSUME GoodTable(inodes, bitmap_inodes), NEW p \in FilePaths, fisopfs_unlink(p)
    PROVE  GoodTable(inodes, bitmap_inodes)' /\ ret' \in Replies
<1> DEFINE i == get_index_inodo(p)
<1>1. p \in Paths /\ i >= 0
  BY DEF Paths, fisopfs_unlink, IsFile
<1>2. i \in Inodes
  BY <1>1, LookupIs DEF get_index_inodo
<1>3. inodes[i] \in InodeType /\ inodes \in [Inodes -> InodeType]
  BY <1>2 DEF GoodTable, TableType
<1> DEFINE inode == [inodes[i] EXCEPT !.content = NoContent, !.path = EmptyString]
<1>4. EmptyString \in Seq(STRING)
  BY InodeTypes DEF InodeType
<1>5. inode \in InodeType /\ inode.path = EmptyString
  BY <1>3, <1>4, InodeTypes DEF InodeType
<1>6. inodes' = [inodes EXCEPT ![i].content = NoContent, ![i].path = EmptyString]
  BY DEF fisopfs_unlink
<1> HIDE DEF i
<1>7. inodes' = [inodes EXCEPT ![i] = inode]
  BY <1>2, <1>3, <1>6
<1>8. bitmap_inodes' = [bitmap_inodes EXCEPT ![i] = 0] /\ ret' = "OK"
  BY DEF fisopfs_unlink, i
<1> HIDE DEF inode
<1>9. GoodTable(inodes, bitmap_inodes)'
  BY <1>1, <1>5, <1>7, <1>8, RemovalKeeps DEF i
<1>10. QED BY <1>8, <1>9 DEF Replies

\* delete_dir keeps the table good, whether it refuses or removes.
LEMMA RmdirKeeps ==
    ASSUME GoodTable(inodes, bitmap_inodes), NEW p \in DirPaths, fisopfs_rmdir(p)
    PROVE  GoodTable(inodes, bitmap_inodes)' /\ ret' \in Replies
<1>1. p \in Paths /\ get_index_inodo(p) >= 0
  BY DEF Paths, fisopfs_rmdir, IsDir
<1>2. CASE Fails("ENOTEMPTY")
  BY <1>2, FailsKeeps DEF Replies
<1>3. CASE /\ inodes' = [inodes EXCEPT ![get_index_inodo(p)] = ZeroInode]
           /\ bitmap_inodes' = [bitmap_inodes EXCEPT ![get_index_inodo(p)] = 0]
           /\ ret' = "OK"
  <2>1. GoodTable(inodes, bitmap_inodes)'
    BY <1>1, <1>3, InodeTypes, RemovalKeeps
  <2>2. QED BY <1>3, <2>1 DEF Replies
<1>4. QED BY <1>2, <1>3, Zenon DEF fisopfs_rmdir

\* fisopfs_truncate keeps the table good: it changes a size only.
LEMMA TruncateKeeps ==
    ASSUME GoodTable(inodes, bitmap_inodes), NEW p \in FilePaths,
           NEW size \in Nat, fisopfs_truncate(p, size)
    PROVE  GoodTable(inodes, bitmap_inodes)' /\ ret' \in Replies
<1> DEFINE i == get_index_inodo(p)
<1>1. p \in Paths /\ i >= 0
  BY DEF Paths, fisopfs_truncate, IsFile
<1>2. i \in Inodes
  BY <1>1, LookupIs DEF get_index_inodo
<1>3. CASE Fails("ENOENT")
  BY <1>3, FailsKeeps DEF Replies
<1>4. CASE /\ inodes' = [inodes EXCEPT ![i].size = size]
           /\ ret' = "OK"
           /\ UNCHANGED bitmap_inodes
  <2> HIDE DEF i
  <2>1. TableType(inodes, bitmap_inodes) /\ inodes[i] \in InodeType
    BY <1>2 DEF GoodTable, TableType
  <2>2. inodes'[i] = [inodes[i] EXCEPT !.size = size]
    BY <1>2, <1>4, <2>1 DEF TableType
  <2>3. /\ inodes'[i] \in InodeType
        /\ inodes'[i].path = inodes[i].path
        /\ inodes'[i].type = inodes[i].type
        /\ inodes'[i].directory_path = inodes[i].directory_path
    BY <2>1, <2>2 DEF InodeType
  <2>4. SameBut(inodes, inodes', i)
    BY <1>4, <2>1 DEF TableType, SameBut
  <2>5. TableType(inodes', bitmap_inodes)
    BY <1>4, <2>1, <2>2, <2>3 DEF TableType
  <2>6. GoodTable(inodes', bitmap_inodes)
    BY <1>2, <2>3, <2>4, <2>5, EditKeeps
  <2>7. QED BY <1>4, <2>6 DEF Replies
<1>5. QED BY <1>3, <1>4, Zenon DEF fisopfs_truncate

\* A step of an operation on the mounted table keeps FsInv when it keeps the
\* table good.
LEMMA MountedStep ==
    ASSUME FsInv, mnt = "mounted", UNCHANGED <<disk, mnt>>,
           open' \subseteq FilePaths,
           GoodTable(inodes, bitmap_inodes)', ret' \in Replies
    PROVE  FsInv'
<1>1. TableType(inodes, bitmap_inodes)'
  BY DEF GoodTable
<1>2. disk' = disk /\ mnt' = mnt
  OBVIOUS
<1>3. TableType(disk.inodes, disk.bitmap)' /\ GoodTable(disk.inodes, disk.bitmap)'
  BY <1>2 DEF FsInv
<1>4. disk'.whole \in BOOLEAN
  BY <1>2 DEF FsInv
<1>5. QED BY <1>1, <1>2, <1>3, <1>4 DEF FsInv

\* The table of a process that is not there, and a table part of which is out.
LEMMA PartialTables ==
    /\ TableType(ZeroTable, ZeroBitmap)
    /\ \A t, b, n : TableType(t, b) =>
          TableType([i \in Inodes |-> IF i < n THEN t[i] ELSE ZeroInode], ZeroBitmap)
<1>1. ZeroInode \in InodeType
  BY InodeTypes
<1>2. QED BY <1>1 DEF TableType, ZeroTable, ZeroBitmap

\* Every step keeps FsInv, unless the process dies while it saves.
LEMMA FsStep ==
    ASSUME "torn" \notin Usage, FsInv, [Next]_vars
    PROVE  FsInv'
<1>1. ASSUME NEW p \in FilePaths, fisopfs_touch(p) PROVE FsInv'
  <2>1. mnt = "mounted" /\ UNCHANGED <<disk, mnt>> /\ create_file(p, "FS_FILE")
    BY <1>1 DEF fisopfs_touch, Walk
  <2>2. open' \subseteq FilePaths
    BY <1>1 DEF fisopfs_touch, FsInv
  <2>3. GoodTable(inodes, bitmap_inodes) /\ p \in Paths
    BY <2>1 DEF FsInv, Paths
  <2>4. GoodTable(inodes, bitmap_inodes)' /\ ret' \in Replies
    BY <2>1, <2>3, CreateFileKeeps
  <2>5. QED BY <2>1, <2>2, <2>4, MountedStep
<1>2. ASSUME NEW p \in FilePaths, Open(p) PROVE FsInv'
  <2>1. mnt = "mounted" /\ UNCHANGED <<inodes, bitmap_inodes, disk, mnt, ret>>
    BY <1>2 DEF Open, Walk
  <2>2. open' \subseteq FilePaths
    BY <1>2 DEF Open, FsInv
  <2>3. GoodTable(inodes, bitmap_inodes)' /\ ret' \in Replies
    BY <2>1 DEF FsInv
  <2>4. QED BY <2>1, <2>2, <2>3, MountedStep
<1>3. ASSUME NEW p \in FilePaths, Close(p) PROVE FsInv'
  <2>1. mnt = "mounted" /\ UNCHANGED <<inodes, bitmap_inodes, disk, mnt, ret>>
    BY <1>3 DEF Close, FsInv
  <2>2. open' \subseteq FilePaths
    BY <1>3 DEF Close, FsInv
  <2>3. GoodTable(inodes, bitmap_inodes)' /\ ret' \in Replies
    BY <2>1 DEF FsInv
  <2>4. QED BY <2>1, <2>2, <2>3, MountedStep
<1>4. ASSUME NEW p \in FilePaths, fisopfs_unlink(p) PROVE FsInv'
  <2>1. mnt = "mounted" /\ UNCHANGED <<disk, mnt, open>>
    BY <1>4 DEF fisopfs_unlink, Walk
  <2>2. GoodTable(inodes, bitmap_inodes) /\ open' \subseteq FilePaths
    BY <2>1 DEF FsInv
  <2>3. GoodTable(inodes, bitmap_inodes)' /\ ret' \in Replies
    BY <1>4, <2>2, UnlinkKeeps
  <2>4. QED BY <2>1, <2>2, <2>3, MountedStep
<1>5. ASSUME NEW p \in FilePaths, NEW off \in 0..MAX_CONTENT, NEW buf \in Buffers,
             fisopfs_write(p, off, buf)
      PROVE  FsInv'
  <2>1. /\ mnt = "mounted"
        /\ UNCHANGED <<disk, mnt, open>>
        /\ write_file(p, off, buf)
    BY <1>5 DEF fisopfs_write, FsInv
  <2>2. GoodTable(inodes, bitmap_inodes) /\ open' \subseteq FilePaths
    BY <2>1 DEF FsInv
  <2>3. off \in Nat
    BY FsAssumption
  <2>4. GoodTable(inodes, bitmap_inodes)' /\ ret' \in Replies
    BY <2>1, <2>2, <2>3, WriteFileKeeps
  <2>5. QED BY <2>1, <2>2, <2>4, MountedStep
<1>6. ASSUME NEW p \in FilePaths, NEW size \in 0..(MAX_CONTENT + 1),
             fisopfs_truncate(p, size)
      PROVE  FsInv'
  <2>1. mnt = "mounted" /\ UNCHANGED <<disk, mnt, open>>
    BY <1>6 DEF fisopfs_truncate, Walk
  <2>2. GoodTable(inodes, bitmap_inodes) /\ open' \subseteq FilePaths
    BY <2>1 DEF FsInv
  <2>3. size \in Nat
    BY FsAssumption
  <2>4. GoodTable(inodes, bitmap_inodes)' /\ ret' \in Replies
    BY <1>6, <2>2, <2>3, TruncateKeeps
  <2>5. QED BY <2>1, <2>2, <2>4, MountedStep
<1>7. ASSUME NEW p \in DirPaths, fisopfs_mkdir(p) PROVE FsInv'
  <2>1. mnt = "mounted" /\ UNCHANGED <<disk, mnt, open>> /\ create_file(p, "FS_DIR")
    BY <1>7 DEF fisopfs_mkdir, Walk
  <2>2. open' \subseteq FilePaths
    BY <2>1 DEF FsInv
  <2>3. GoodTable(inodes, bitmap_inodes) /\ p \in Paths
    BY <2>1 DEF FsInv, Paths
  <2>4. GoodTable(inodes, bitmap_inodes)' /\ ret' \in Replies
    BY <2>1, <2>3, CreateFileKeeps
  <2>5. QED BY <2>1, <2>2, <2>4, MountedStep
<1>8. ASSUME NEW p \in DirPaths, fisopfs_rmdir(p) PROVE FsInv'
  <2>1. mnt = "mounted" /\ UNCHANGED <<disk, mnt, open>>
    BY <1>8 DEF fisopfs_rmdir, Walk
  <2>2. GoodTable(inodes, bitmap_inodes) /\ open' \subseteq FilePaths
    BY <2>1 DEF FsInv
  <2>3. GoodTable(inodes, bitmap_inodes)' /\ ret' \in Replies
    BY <1>8, <2>2, RmdirKeeps
  <2>4. QED BY <2>1, <2>2, <2>3, MountedStep
<1>9. CASE fisopfs_init
  <2>1. /\ mnt = "down" /\ mnt' = "mounted" /\ open' = open
        /\ inodes' = disk.inodes /\ bitmap_inodes' = disk.bitmap
        /\ disk' = disk /\ ret' = ret
    BY <1>9 DEF fisopfs_init
  <2>2. GoodTable(disk.inodes, disk.bitmap) /\ TableType(disk.inodes, disk.bitmap)
    BY <2>1 DEF FsInv
  <2>3. QED BY <2>1, <2>2 DEF FsInv
<1>10. CASE SaveStart
  <2>1. /\ mnt = "mounted" /\ mnt' = "saving" /\ open = {} /\ open' = open
        /\ inodes' = inodes /\ bitmap_inodes' = bitmap_inodes /\ ret' = ret
    BY <1>10 DEF SaveStart
  <2>2. PICK n \in 0..MAX_INODES :
           disk' = Image([i \in Inodes |-> IF i < n THEN inodes[i] ELSE ZeroInode],
                         ZeroBitmap, FALSE)
    BY <1>10 DEF SaveStart
  <2> DEFINE t == [i \in Inodes |-> IF i < n THEN inodes[i] ELSE ZeroInode]
  <2>3. TableType(t, ZeroBitmap)
    BY PartialTables DEF FsInv
  <2> HIDE DEF t
  <2>4. disk'.inodes = t /\ disk'.bitmap = ZeroBitmap /\ disk'.whole = FALSE
    BY <2>2 DEF Image, t
  <2>5. TableType(disk.inodes, disk.bitmap)'
    BY <2>3, <2>4
  <2>6. QED BY <2>1, <2>4, <2>5 DEF FsInv
<1>11. CASE SaveEnd
  <2>1. /\ mnt = "saving" /\ mnt' = "down" /\ open' = open
        /\ inodes' = ZeroTable /\ bitmap_inodes' = ZeroBitmap /\ ret' = ret
        /\ disk' = Image(inodes, bitmap_inodes, TRUE)
    BY <1>11 DEF SaveEnd
  <2>2. disk'.inodes = inodes /\ disk'.bitmap = bitmap_inodes /\ disk'.whole = TRUE
    BY <2>1 DEF Image
  <2>3. GoodTable(inodes, bitmap_inodes) /\ TableType(inodes, bitmap_inodes)
    BY <2>1 DEF FsInv
  <2>4. TableType(inodes, bitmap_inodes)'
    BY <2>1, PartialTables
  <2>5. QED BY <2>1, <2>2, <2>3, <2>4 DEF FsInv
<1>12. CASE Crash
  <2>1. /\ mnt = "mounted" /\ mnt' = "down" /\ open' = {}
        /\ inodes' = ZeroTable /\ bitmap_inodes' = ZeroBitmap
        /\ disk' = disk /\ ret' = ret
    BY <1>12 DEF Crash
  <2>2. TableType(inodes, bitmap_inodes)'
    BY <2>1, PartialTables
  <2>3. GoodTable(disk.inodes, disk.bitmap) /\ TableType(disk.inodes, disk.bitmap)
    BY <2>1 DEF FsInv
  <2>4. QED BY <2>1, <2>2, <2>3 DEF FsInv
<1>13. CASE UNCHANGED vars
  BY <1>13 DEF vars, FsInv
<1>14. QED
  BY <1>1, <1>2, <1>3, <1>4, <1>5, <1>6, <1>7, <1>8, <1>9, <1>10, <1>11, <1>12,
     <1>13, Zenon DEF Next

\* The fresh image is good.
LEMMA FsStarts == Init => FsInv
<1> SUFFICES ASSUME Init PROVE FsInv
  OBVIOUS
<1>1. TableType(ZeroTable, ZeroBitmap) /\ GoodTable(FreshImage.inodes, FreshImage.bitmap)
  BY PartialTables, FreshIsGood
<1>2. TableType(FreshImage.inodes, FreshImage.bitmap)
  BY <1>1 DEF GoodTable
<1>3. FreshImage.whole = TRUE
  BY DEF FreshImage, Image
<1>4. QED BY <1>1, <1>2, <1>3 DEF Init, FsInv, Replies

\* The table stays good through every sequence of operations, unmounts and
\* crashes, for tables, names, contents and usages of every size; the one thing
\* excluded is a process that dies while fwrite is at work.
THEOREM FsSafe == ASSUME "torn" \notin Usage PROVE Spec => []FsInv
<1>1. Init => FsInv
  BY FsStarts
<1>2. FsInv /\ [Next]_vars => FsInv'
  BY FsStep
<1>3. QED BY <1>1, <1>2, PTL DEF Spec

\* Type correctness of the inode table: what is mounted and what is on the disk keep
\* their shape over every operation, mount and unmount (TypeOK).
THEOREM FsTyped == ASSUME "torn" \notin Usage PROVE Spec => []TypeOK
<1>1. FsInv => TypeOK
  BY DEF FsInv, TypeOK, TableType, Replies
<1>2. QED BY <1>1, FsSafe, PTL

\* Inode 0 is the root directory whenever the table is mounted: no operation
\* takes its slot and no image that was saved whole replaces it (RootStays).
THEOREM RootIsKept == ASSUME "torn" \notin Usage PROVE Spec => []RootStays
<1>1. FsInv => RootStays
  BY DEF FsInv, RootStays, GoodTable, Rooted
<1>2. QED BY <1>1, FsSafe, PTL

\* The bitmap and the names agree on which inodes are in use (BitmapExact).
THEOREM BitmapAgrees == ASSUME "torn" \notin Usage PROVE Spec => []BitmapExact
<1>1. FsInv => BitmapExact
  BY DEF FsInv, BitmapExact, GoodTable, Named
<1>2. QED BY <1>1, FsSafe, PTL

\* A name is in the table at most once (UniqueNames).
THEOREM NamesAreUnique == ASSUME "torn" \notin Usage PROVE Spec => []UniqueNames
<1>1. FsInv => UniqueNames
  <2> SUFFICES ASSUME FsInv PROVE UniqueNames
    OBVIOUS
  <2>1. CASE mnt = "down"
    <3>1. \A i \in Inodes : inodes[i].path = EmptyString
      BY <2>1, InodeTypes DEF FsInv, ZeroTable
    <3>2. QED BY <3>1 DEF UniqueNames
  <2>2. CASE mnt # "down"
    BY <2>2 DEF FsInv, UniqueNames, GoodTable, Unique
  <2>3. QED BY <2>1, <2>2
<1>2. QED BY <1>1, FsSafe, PTL

-----------------------------------------------------------------------------
(* Listing.                                                                *)

\* The paths that the code was written for: a name is used once, directories
\* are in the root, files in the root or in one of those.  get_index_inodo
\* compares last names only, and create_file puts every directory in the root.
PlainNames ==
    /\ \A p, q \in Paths : remove_slash(p) = remove_slash(q) => p = q
    /\ \A p \in DirPaths : Len(p) = 1
    /\ \A p \in FilePaths : Len(p) <= 2

\* A path of one name is what remove_slash makes of it.
LEMMA OneName ==
    ASSUME NEW q \in Seq(STRING), Len(q) = 1
    PROVE  remove_slash(q) = q /\ q # ROOT_PATH
<1>1. q = <<q[1]>>
  BY SMT
<1>2. q # <<>>
  BY SMT
<1>3. QED BY <1>1, <1>2 DEF remove_slash, ROOT_PATH

\* The parent of a path that the kernel walks to, when it is not the root, is
\* a directory that get_index_inodo finds.
LEMMA ParentOf ==
    ASSUME PlainNames, NEW p \in Paths, Walk(p),
           NEW d, d = get_path_padre(p), d # ROOT_PATH
    PROVE  /\ d \in Seq(STRING) /\ Len(d) = 1 /\ remove_slash(d) = d /\ IsDir(d)
           /\ Lookup(inodes, d) \in Inodes /\ inodes[Lookup(inodes, d)].path = d
<1>0. p \in Seq(STRING) /\ Len(p) > 0
  BY FsAssumption DEF Paths
<1>1. d \in Seq(STRING) /\ Len(d) = Len(p) - 1
  BY ParentIsPath
<1>2. Len(p) > 0 /\ Len(p) <= 2 /\ Len(p) \in Nat
  <2>1. Len(p) = 1 \/ Len(p) <= 2
    BY DEF PlainNames, Paths
  <2>2. Len(p) \in Nat
    BY <1>0
  <2>3. PICK n : n = Len(p)
    OBVIOUS
  <2>4. n \in Nat /\ n > 0 /\ (n = 1 \/ n <= 2)
    BY <1>0, <2>1, <2>2, <2>3
  <2>5. n > 0 /\ n <= 2
    BY <2>4
  <2>6. QED BY <2>3, <2>4, <2>5
<1>3. Len(d) = 1
  <2>1. Len(d) \in Nat \ {0}
    BY <1>1, EmptySeq DEF ROOT_PATH
  <2>2. QED BY <1>1, <1>2, <2>1
<1>4. remove_slash(d) = d
  BY <1>1, <1>3, OneName
<1>5. IsDir(d)
  <2>1. \A n \in 0..(Len(p) - 1) : IsDir(SubSeq(p, 1, n))
    BY DEF Walk
  <2>2. Len(p) - 1 \in 0..(Len(p) - 1)
    BY <1>2
  <2>3. IsDir(SubSeq(p, 1, Len(p) - 1))
    BY <2>1, <2>2, Zenon
  <2>4. QED BY <2>3, Zenon DEF get_path_padre
<1>6. Lookup(inodes, d) # -1
  <2>1. Lookup(inodes, d) >= 0
    BY <1>5 DEF IsDir, get_index_inodo
  <2>2. QED BY <2>1
<1>7. Lookup(inodes, d) \in Inodes /\ inodes[Lookup(inodes, d)].path = remove_slash(d)
  BY <1>6, LookupFinds
<1>8. QED BY <1>1, <1>3, <1>4, <1>5, <1>7

\* The directory that readdir of the parent of p lists has the parent's path.
LEMMA ParentFound ==
    ASSUME GoodTable(inodes, bitmap_inodes), PlainNames,
           NEW p \in Paths, Walk(p)
    PROVE  inodes[get_index_inodo(get_path_padre(p))].path = get_path_padre(p)
<1>1. PICK d : d = get_path_padre(p)
  OBVIOUS
<1>2. CASE d = ROOT_PATH
  BY <1>1, <1>2 DEF get_index_inodo, Lookup, GoodTable, Rooted
<1>3. CASE d # ROOT_PATH
  <2>1. inodes[Lookup(inodes, d)].path = d
    BY <1>1, <1>3, ParentOf
  <2>2. QED BY <1>1, <2>1 DEF get_index_inodo
<1>4. QED BY <1>2, <1>3

\* What is found under a path is listed in its directory (ListedInParent), for
\* every table and every set of plain paths.
THEOREM FoundIsListed ==
    ASSUME "torn" \notin Usage, PlainNames PROVE Spec => []ListedInParent
<1>1. FsInv => ListedInParent
  <2> SUFFICES ASSUME FsInv, NEW p \in Paths, Walk(p), get_index_inodo(p) >= 0
               PROVE  remove_slash(p) \in fisopfs_readdir(get_path_padre(p))
    BY DEF ListedInParent
  <2>1. GoodTable(inodes, bitmap_inodes)
    BY DEF FsInv, Walk
  <2>2. PICK i : i = get_index_inodo(p)
    OBVIOUS
  <2>3. i \in Inodes /\ inodes[i].path = remove_slash(p)
    BY <2>2, LookupIs DEF get_index_inodo
  <2>4. inodes[i].path # EmptyString /\ i # 0
    BY <2>1, <2>3, NameOfPath DEF GoodTable, Rooted
  <2>5. bitmap_inodes[i] = 1
    BY <2>1, <2>3, <2>4 DEF GoodTable, Named
  <2>6. PICK q \in Paths : MadeFrom(inodes[i], q)
    BY <2>1, <2>3, <2>4 DEF GoodTable, Placed
  <2>7. q = p
    BY <2>3, <2>6 DEF MadeFrom, PlainNames
  <2>8. inodes[i].directory_path = get_path_padre(p)
    <3>1. CASE inodes[i].type = "FS_FILE"
      BY <2>6, <2>7, <3>1 DEF MadeFrom
    <3>2. CASE inodes[i].type = "FS_DIR"
      <4>1. p \in DirPaths /\ inodes[i].directory_path = ROOT_PATH
        BY <2>6, <2>7, <3>2 DEF MadeFrom
      <4>0. Len(p) = 1
        BY <4>1 DEF PlainNames
      <4>2. Len(get_path_padre(p)) = 0 /\ get_path_padre(p) \in Seq(STRING)
        <5>1. /\ Len(get_path_padre(p)) = Len(p) - 1
              /\ get_path_padre(p) \in Seq(STRING)
          BY ParentIsPath
        <5> QED BY <4>0, <5>1
      <4>3. get_path_padre(p) = ROOT_PATH
        BY <4>2, EmptySeq DEF ROOT_PATH
      <4>4. QED BY <4>1, <4>3
    <3>3. inodes[i].type \in {"FS_FILE", "FS_DIR"}
      BY <2>1, <2>3 DEF GoodTable, TableType, InodeType
    <3>4. QED BY <3>1, <3>2, <3>3
  <2>9. inodes[i].directory_path = inodes[get_index_inodo(get_path_padre(p))].path
    BY <2>1, <2>8, ParentFound
  <2>10. QED BY <2>3, <2>4, <2>5, <2>9 DEF fisopfs_readdir
<1>2. QED BY <1>1, FsSafe, PTL

-----------------------------------------------------------------------------
(* Threads in one directory.                                               *)

\* All the files that programs create, write and remove are in one directory,
\* so that the kernel's lock of it is held for each creation and removal.  With
\* two directories the creations race for the same free inode.
OneParent == \A p, q \in FilePaths : get_path_padre(p) = get_path_padre(q)

\* Where a thread holds the lock of the directory.
LockedPCs == {"scan", "store", "set_bit", "clear_bit", "clear_name"}

TPCs == {"idle", "scan", "store", "set_bit", "clear_bit", "clear_name", "copy"}

\* Inode i is the file of p.
FileAt(i, p) == inodes[i].type = "FS_FILE" /\ inodes[i].path = remove_slash(p)

ThreadTypes ==
    /\ TableType(inodes, bitmap_inodes)
    /\ open \subseteq FilePaths
    /\ made \subseteq FilePaths
    /\ pc \in [Threads -> TPCs]
    /\ slot \in [Threads -> Inodes]
    /\ req \in [Threads -> FilePaths \cup {ROOT_PATH}]
    /\ \A t \in Threads : pc[t] # "idle" => req[t] \in FilePaths

\* The lock of the directory.
OneLocker ==
    \A t, u \in Threads : pc[t] \in LockedPCs /\ pc[u] \in LockedPCs => t = u

\* A file has a name that no other inode has.
FilesUnique ==
    \A i, j \in Inodes :
        /\ inodes[i].type = "FS_FILE"
        /\ inodes[i].path # EmptyString
        /\ inodes[j].path = inodes[i].path
        => i = j

\* What a thread knows of its inode.
ThreadKnows(t) ==
    /\ pc[t] = "store" =>
          /\ bitmap_inodes[slot[t]] = 0
          /\ \A i \in Inodes : inodes[i].path # remove_slash(req[t])
    /\ pc[t] = "set_bit" => FileAt(slot[t], req[t]) /\ bitmap_inodes[slot[t]] = 0
    /\ pc[t] = "clear_bit" =>
          FileAt(slot[t], req[t]) /\ bitmap_inodes[slot[t]] = 1 /\ req[t] \notin open
    /\ pc[t] = "clear_name" =>
          /\ FileAt(slot[t], req[t])
          /\ bitmap_inodes[slot[t]] = 0
          /\ req[t] \notin open \cup made
    /\ pc[t] = "copy" =>
          FileAt(slot[t], req[t]) /\ bitmap_inodes[slot[t]] = 1 /\ req[t] \in open

\* A file that was made, or that is open, is in the table.
FilesHeld ==
    \A p \in made \cup open : \E i \in Inodes : FileAt(i, p) /\ bitmap_inodes[i] = 1

\* A file whose bit is not set is being made or removed.
UnsetIsServed ==
    \A i \in Inodes :
        /\ inodes[i].type = "FS_FILE"
        /\ inodes[i].path # EmptyString
        /\ bitmap_inodes[i] = 0
        => \E t \in Threads : slot[t] = i /\ pc[t] \in {"set_bit", "clear_name"}

ThreadInv ==
    /\ ThreadTypes
    /\ OneLocker
    /\ FilesUnique
    /\ \A t \in Threads : ThreadKnows(t)
    /\ FilesHeld
    /\ UnsetIsServed

\* In one directory a name is one path.
LEMMA NameIsPath ==
    ASSUME OneParent, NEW p \in FilePaths, NEW q \in FilePaths,
           remove_slash(p) = remove_slash(q)
    PROVE  p = q
<1>1. p \in Seq(STRING) /\ q \in Seq(STRING) /\ Len(p) > 0 /\ Len(q) > 0
  BY FsAssumption
<1>2. p[Len(p)] = q[Len(q)]
  BY DEF remove_slash
<1>3. get_path_padre(p) = get_path_padre(q)
  BY DEF OneParent
<1>4. Len(p) \in Nat /\ Len(q) \in Nat
  BY <1>1
<1>5. Len(p) = Len(q)
  <2>1. p \in Paths /\ q \in Paths
    BY DEF Paths
  <2>2. /\ Len(get_path_padre(p)) = Len(p) - 1
        /\ Len(get_path_padre(q)) = Len(q) - 1
    BY <2>1, ParentIsPath
  <2>3. Len(p) - 1 = Len(q) - 1
    BY <1>3, <2>2
  <2>4. QED BY <1>4, <2>3
<1>6. ASSUME NEW k \in 1..Len(p), k # Len(p) PROVE p[k] = q[k]
  <2> DEFINE n == Len(p) - 1
  <2>1. n \in Int /\ k \in 1..n /\ 1 \in Int
    BY <1>4, <1>6
  <2>2. /\ \A i \in 1..n : p[i] \in STRING
        /\ \A i \in 1..n : q[i] \in STRING
    BY <1>1, <1>4, <1>5
  <2>3. SubSeq(p, 1, n) = SubSeq(q, 1, n)
    BY <1>3, <1>5, Zenon DEF get_path_padre
  <2> HIDE DEF n
  <2>4. \A i \in 1..(n - 1 + 1) : SubSeq(p, 1, n)[i] = p[1 + i - 1]
    BY <2>1, <2>2, SubSeqProperties
  <2>5. \A i \in 1..(n - 1 + 1) : SubSeq(q, 1, n)[i] = q[1 + i - 1]
    BY <2>1, <2>2, SubSeqProperties
  <2>6. k \in 1..(n - 1 + 1) /\ 1 + k - 1 = k
    BY <2>1
  <2>7. SubSeq(p, 1, n)[k] = p[1 + k - 1] /\ SubSeq(q, 1, n)[k] = q[1 + k - 1]
    BY <2>4, <2>5, <2>6
  <2>8. QED BY <2>3, <2>6, <2>7
<1>7. \A k \in 1..Len(p) : p[k] = q[k]
  BY <1>2, <1>5, <1>6
<1>8. QED BY <1>1, <1>5, <1>7, SeqEqual

\* The kernel takes the lock of the directory when nobody has it.
LEMMA LockIsFree ==
    ASSUME OneParent, ThreadTypes, NEW p \in FilePaths, ~ParentLocked(p)
    PROVE  \A u \in Threads : pc[u] \notin LockedPCs
<1> SUFFICES ASSUME NEW u \in Threads, pc[u] \in LockedPCs PROVE FALSE
  OBVIOUS
<1>1. req[u] \in FilePaths
  BY DEF ThreadTypes, LockedPCs
<1>2. get_path_padre(req[u]) = get_path_padre(p)
  BY <1>1 DEF OneParent
<1>3. QED BY <1>2 DEF ParentLocked, LockedPCs

\* The inode that get_index_inodo finds for a file.
LEMMA FileFound ==
    ASSUME NEW p \in FilePaths, IsFile(p)
    PROVE  get_index_inodo(p) \in Inodes /\ FileAt(get_index_inodo(p), p)
<1>1. p \in Paths
  BY DEF Paths
<1>2. QED BY <1>1, LookupIs DEF IsFile, get_index_inodo, FileAt

\* A file name is not the empty string.
LEMMA FileNameSet == ASSUME NEW p \in FilePaths PROVE remove_slash(p) # EmptyString
BY NameOfPath DEF Paths

\* The kernel sends a creation.
LEMMA CreateStep ==
    ASSUME OneParent, ThreadInv, NEW t \in Threads, NEW p \in FilePaths, Create(t, p)
    PROVE  ThreadInv'
<1>1. /\ pc' = [pc EXCEPT ![t] = "scan"]
      /\ req' = [req EXCEPT ![t] = p]
      /\ UNCHANGED <<inodes, bitmap_inodes, open, made, slot>>
      /\ pc[t] = "idle" /\ ~ParentLocked(p)
  BY DEF Create, Request, vars
<1>2. ThreadTypes
  BY DEF ThreadInv
<1>3. \A u \in Threads : pc[u] \notin LockedPCs
  BY <1>1, <1>2, LockIsFree
<1>4. pc'[t] = "scan" /\ \A u \in Threads : u # t => pc'[u] = pc[u] /\ req'[u] = req[u]
  BY <1>1, <1>2 DEF ThreadTypes
<1>5. ThreadTypes'
  BY <1>1, <1>2 DEF ThreadTypes, TPCs, TableType
<1>6. OneLocker'
  BY <1>3, <1>4 DEF OneLocker
<1>7. FilesUnique'
  BY <1>1 DEF ThreadInv, FilesUnique
<1>8. ASSUME NEW u \in Threads PROVE ThreadKnows(u)'
  <2>1. CASE u = t
    BY <1>4, <2>1 DEF ThreadKnows
  <2>2. CASE u # t
    BY <1>1, <1>4, <2>2 DEF ThreadInv, ThreadKnows, FileAt
  <2>3. QED BY <2>1, <2>2
<1>9. FilesHeld'
  BY <1>1 DEF ThreadInv, FilesHeld, FileAt
<1>10. UnsetIsServed'
  BY <1>1, <1>4 DEF ThreadInv, UnsetIsServed
<1>11. QED BY <1>5, <1>6, <1>7, <1>8, <1>9, <1>10 DEF ThreadInv

\* next_free_inodo.
LEMMA ScanStep ==
    ASSUME ThreadInv, NEW t \in Threads, Scan(t)
    PROVE  ThreadInv'
<1>1. /\ UNCHANGED <<inodes, bitmap_inodes, open, made, req>>
      /\ pc[t] = "scan"
  BY DEF Scan, vars
<1>2. ThreadTypes
  BY DEF ThreadInv
<1>3. PICK i \in Inodes, l \in {"idle", "store"} :
        /\ slot' = [slot EXCEPT ![t] = i]
        /\ pc' = [pc EXCEPT ![t] = l]
        /\ l = "store" =>
              /\ bitmap_inodes[i] = 0
              /\ \A j \in Inodes : inodes[j].path # remove_slash(req[t])
  <2>1. CASE NameTaken(remove_slash(req[t])) \/ FreeInodes = {}
    <3>1. slot[t] \in Inodes /\ slot' = [slot EXCEPT ![t] = slot[t]]
      BY <1>2, <2>1 DEF Scan, ThreadTypes
    <3>2. pc' = [pc EXCEPT ![t] = "idle"]
      BY <2>1 DEF Scan
    <3>3. QED BY <3>1, <3>2
  <2>2. CASE ~(NameTaken(remove_slash(req[t])) \/ FreeInodes = {})
    <3>1. LowestOf(FreeInodes) \in Inodes /\ bitmap_inodes[LowestOf(FreeInodes)] = 0
      BY <2>2, LowestFree
    <3>2. \A j \in Inodes : inodes[j].path # remove_slash(req[t])
      BY <2>2 DEF NameTaken
    <3>3. /\ slot' = [slot EXCEPT ![t] = LowestOf(FreeInodes)]
          /\ pc' = [pc EXCEPT ![t] = "store"]
      BY <2>2 DEF Scan
    <3>4. QED BY <3>1, <3>2, <3>3
  <2>3. QED BY <2>1, <2>2
<1>4. /\ pc'[t] = l /\ slot'[t] = i
      /\ \A u \in Threads : u # t => pc'[u] = pc[u] /\ slot'[u] = slot[u]
  BY <1>2, <1>3 DEF ThreadTypes
<1>5. ThreadTypes'
  BY <1>1, <1>2, <1>3 DEF ThreadTypes, TPCs, TableType
<1>6. OneLocker'
  BY <1>1, <1>4 DEF ThreadInv, OneLocker, LockedPCs
<1>7. FilesUnique'
  BY <1>1 DEF ThreadInv, FilesUnique
<1>8. ASSUME NEW u \in Threads PROVE ThreadKnows(u)'
  <2>1. CASE u = t
    BY <1>1, <1>3, <1>4, <2>1 DEF ThreadKnows
  <2>2. CASE u # t
    BY <1>1, <1>4, <2>2 DEF ThreadInv, ThreadKnows, FileAt
  <2>3. QED BY <2>1, <2>2
<1>9. FilesHeld'
  BY <1>1 DEF ThreadInv, FilesHeld, FileAt
<1>10. UnsetIsServed'
  BY <1>1, <1>4 DEF ThreadInv, UnsetIsServed
<1>11. QED BY <1>5, <1>6, <1>7, <1>8, <1>9, <1>10 DEF ThreadInv

\* The store of the inode.
LEMMA StoreStep ==
    ASSUME ThreadInv, NEW t \in Threads, Store(t)
    PROVE  ThreadInv'
<1>1. /\ UNCHANGED <<bitmap_inodes, open, made, req, slot>>
      /\ pc[t] = "store"
      /\ pc' = [pc EXCEPT ![t] = "set_bit"]
      /\ inodes' = [inodes EXCEPT ![slot[t]] = NewInode(req[t], "FS_FILE")]
  BY DEF Store
<1>2. ThreadTypes
  BY DEF ThreadInv
<1>3. PICK i : i = slot[t]
  OBVIOUS
<1>4. PICK p : p = req[t]
  OBVIOUS
<1>5. i \in Inodes /\ p \in FilePaths /\ p \in Paths
  BY <1>1, <1>2, <1>3, <1>4 DEF ThreadTypes, Paths
<1>6. PICK n : n = NewInode(p, "FS_FILE")
  OBVIOUS
<1>7. n \in InodeType /\ n.path = remove_slash(p) /\ n.type = "FS_FILE"
  BY <1>5, <1>6, NewInodeIs
<1>8. inodes' = [inodes EXCEPT ![i] = n]
  BY <1>1, <1>3, <1>4, <1>6
<1>9. inodes'[i] = n /\ SameBut(inodes, inodes', i)
  BY <1>2, <1>5, <1>8 DEF ThreadTypes, TableType, SameBut
<1>10. /\ bitmap_inodes[i] = 0
       /\ \A j \in Inodes : inodes[j].path # remove_slash(p)
  BY <1>1, <1>3, <1>4 DEF ThreadInv, ThreadKnows
<1>11. /\ pc'[t] = "set_bit"
       /\ \A u \in Threads : u # t => pc'[u] = pc[u] /\ pc[u] \notin LockedPCs
  BY <1>1, <1>2 DEF ThreadTypes, ThreadInv, OneLocker, LockedPCs
<1>12. ThreadTypes'
  BY <1>1, <1>2, <1>7, <1>8 DEF ThreadTypes, TPCs, TableType
<1>13. OneLocker'
  BY <1>11 DEF OneLocker
<1>14. FilesUnique'
  BY <1>7, <1>9, <1>10 DEF ThreadInv, FilesUnique, SameBut
<1>15. ASSUME NEW u \in Threads PROVE ThreadKnows(u)'
  <2>1. CASE u = t
    BY <1>1, <1>3, <1>4, <1>7, <1>9, <1>10, <1>11, <2>1 DEF ThreadKnows, FileAt
  <2>2. CASE u # t
    <3>1. pc'[u] = pc[u] /\ pc[u] \in {"idle", "copy"}
      BY <1>2, <1>11, <2>2 DEF ThreadTypes, LockedPCs, TPCs
    <3>2. CASE pc[u] = "copy"
      <4>1. FileAt(slot[u], req[u]) /\ bitmap_inodes[slot[u]] = 1 /\ req[u] \in open
        BY <3>2 DEF ThreadInv, ThreadKnows
      <4>2. slot[u] # i /\ slot[u] \in Inodes
        BY <1>2, <1>10, <4>1 DEF ThreadTypes
      <4>3. FileAt(slot[u], req[u])'
        BY <1>1, <1>9, <4>1, <4>2 DEF FileAt, SameBut
      <4>4. QED BY <1>1, <3>1, <3>2, <4>1, <4>3 DEF ThreadKnows
    <3>3. QED BY <3>1, <3>2 DEF ThreadKnows
  <2>3. QED BY <2>1, <2>2
<1>16. FilesHeld'
  <2>1. SUFFICES ASSUME NEW q \in made \cup open
                 PROVE  \E j \in Inodes : FileAt(j, q)' /\ bitmap_inodes'[j] = 1
    BY <1>1 DEF FilesHeld
  <2>2. PICK j \in Inodes : FileAt(j, q) /\ bitmap_inodes[j] = 1
    BY DEF ThreadInv, FilesHeld
  <2>3. j # i
    BY <1>10, <2>2
  <2>4. FileAt(j, q)'
    BY <1>9, <2>2, <2>3 DEF FileAt, SameBut
  <2>5. QED BY <1>1, <2>2, <2>4
<1>17. UnsetIsServed'
  <2>1. SUFFICES ASSUME NEW j \in Inodes, inodes'[j].type = "FS_FILE",
                        inodes'[j].path # EmptyString, bitmap_inodes'[j] = 0
                 PROVE  \E u \in Threads :
                           slot'[u] = j /\ pc'[u] \in {"set_bit", "clear_name"}
    BY DEF UnsetIsServed
  <2>2. CASE j = i
    BY <1>1, <1>3, <1>11, <2>2
  <2>3. CASE j # i
    <3>1. PICK u \in Threads : slot[u] = j /\ pc[u] \in {"set_bit", "clear_name"}
      BY <1>1, <1>9, <2>1, <2>3 DEF ThreadInv, UnsetIsServed, SameBut
    <3>2. u # t /\ pc[u] \in LockedPCs
      BY <1>1, <3>1 DEF LockedPCs
    <3>3. QED BY <1>11, <3>2
  <2>4. QED BY <2>2, <2>3
<1>18. QED BY <1>12, <1>13, <1>14, <1>15, <1>16, <1>17 DEF ThreadInv

\* The store of the bit, and the reply.
LEMMA SetBitStep ==
    ASSUME OneParent, ThreadInv, NEW t \in Threads, SetBit(t)
    PROVE  ThreadInv'
<1>1. /\ UNCHANGED <<inodes, req, slot>>
      /\ pc[t] = "set_bit"
      /\ pc' = [pc EXCEPT ![t] = "idle"]
      /\ bitmap_inodes' = [bitmap_inodes EXCEPT ![slot[t]] = 1]
      /\ made' = made \cup {req[t]}
      /\ open' = open \cup {req[t]}
  BY DEF SetBit
<1>2. ThreadTypes
  BY DEF ThreadInv
<1>3. PICK i : i = slot[t]
  OBVIOUS
<1>4. PICK p : p = req[t]
  OBVIOUS
<1>5. i \in Inodes /\ p \in FilePaths
  BY <1>1, <1>2, <1>3, <1>4 DEF ThreadTypes
<1>6. FileAt(i, p)
  BY <1>1, <1>3, <1>4 DEF ThreadInv, ThreadKnows
<1>7. bitmap_inodes'[i] = 1 /\ SameBut(bitmap_inodes, bitmap_inodes', i)
  BY <1>1, <1>2, <1>3, <1>5 DEF ThreadTypes, TableType, SameBut
<1>8. /\ pc'[t] = "idle"
      /\ \A u \in Threads : u # t => pc'[u] = pc[u] /\ pc[u] \notin LockedPCs
  BY <1>1, <1>2 DEF ThreadTypes, ThreadInv, OneLocker, LockedPCs
<1>9. ThreadTypes'
  BY <1>1, <1>2, <1>4, <1>5 DEF ThreadTypes, TPCs, TableType
<1>10. OneLocker'
  BY <1>8 DEF OneLocker, LockedPCs
<1>11. FilesUnique'
  BY <1>1 DEF ThreadInv, FilesUnique
<1>12. ASSUME NEW u \in Threads PROVE ThreadKnows(u)'
  <2>1. CASE u = t
    BY <1>8, <2>1 DEF ThreadKnows
  <2>2. CASE u # t
    <3>1. pc'[u] = pc[u] /\ pc[u] \in {"idle", "copy"}
      BY <1>2, <1>8, <2>2 DEF ThreadTypes, LockedPCs, TPCs
    <3>2. CASE pc[u] = "copy"
      <4>1. FileAt(slot[u], req[u]) /\ bitmap_inodes[slot[u]] = 1 /\ req[u] \in open
        BY <3>2 DEF ThreadInv, ThreadKnows
      <4>2. slot[u] \in Inodes
        BY <1>2 DEF ThreadTypes
      <4>3. bitmap_inodes'[slot[u]] = 1
        BY <1>7, <4>1, <4>2 DEF SameBut
      <4>4. QED BY <1>1, <3>1, <3>2, <4>1, <4>3 DEF ThreadKnows, FileAt
    <3>3. QED BY <3>1, <3>2 DEF ThreadKnows
  <2>3. QED BY <2>1, <2>2
<1>13. FilesHeld'
  <2>1. SUFFICES ASSUME NEW q \in made' \cup open'
                 PROVE  \E j \in Inodes : FileAt(j, q)' /\ bitmap_inodes'[j] = 1
    BY DEF FilesHeld
  <2>2. CASE q = p
    BY <1>1, <1>5, <1>6, <1>7, <2>2 DEF FileAt
  <2>3. CASE q # p
    <3>1. q \in made \cup open
      BY <1>1, <1>4, <2>3
    <3>2. PICK j \in Inodes : FileAt(j, q) /\ bitmap_inodes[j] = 1
      BY <3>1 DEF ThreadInv, FilesHeld
    <3>3. bitmap_inodes'[j] = 1
      BY <1>7, <3>2 DEF SameBut
    <3>4. QED BY <1>1, <3>2, <3>3 DEF FileAt
  <2>4. QED BY <2>2, <2>3
<1>14. UnsetIsServed'
  <2>1. SUFFICES ASSUME NEW j \in Inodes, inodes'[j].type = "FS_FILE",
                        inodes'[j].path # EmptyString, bitmap_inodes'[j] = 0
                 PROVE  \E u \in Threads :
                           slot'[u] = j /\ pc'[u] \in {"set_bit", "clear_name"}
    BY DEF UnsetIsServed
  <2>2. j # i
    BY <1>7, <2>1
  <2>3. PICK u \in Threads : slot[u] = j /\ pc[u] \in {"set_bit", "clear_name"}
    BY <1>1, <1>7, <2>1, <2>2 DEF ThreadInv, UnsetIsServed, SameBut
  <2>4. u # t
    BY <1>3, <2>2, <2>3
  <2>5. QED BY <1>1, <1>8, <2>3, <2>4
<1>15. QED BY <1>9, <1>10, <1>11, <1>12, <1>13, <1>14 DEF ThreadInv

\* The search of unlink.
LEMMA UnlinkStep ==
    ASSUME OneParent, ThreadInv, NEW t \in Threads, NEW p \in FilePaths, Unlink(t, p)
    PROVE  ThreadInv'
<1>1. /\ pc' = [pc EXCEPT ![t] = "clear_bit"]
      /\ req' = [req EXCEPT ![t] = p]
      /\ slot' = [slot EXCEPT ![t] = get_index_inodo(p)]
      /\ UNCHANGED <<inodes, bitmap_inodes, open, made>>
      /\ pc[t] = "idle" /\ ~ParentLocked(p) /\ p \notin open /\ IsFile(p)
  BY DEF Unlink, Request, vars
<1>2. ThreadTypes
  BY DEF ThreadInv
<1>3. \A u \in Threads : pc[u] \notin LockedPCs
  BY <1>1, <1>2, LockIsFree
<1>4. PICK i : i = get_index_inodo(p)
  OBVIOUS
<1>5. i \in Inodes /\ FileAt(i, p)
  BY <1>1, <1>4, FileFound
<1>6. bitmap_inodes[i] = 1
  <2>1. inodes[i].type = "FS_FILE" /\ inodes[i].path # EmptyString
    BY <1>5, FileNameSet DEF FileAt
  <2>2. bitmap_inodes[i] # 0
    BY <1>3, <1>5, <2>1 DEF ThreadInv, UnsetIsServed, LockedPCs
  <2>3. bitmap_inodes[i] \in {0, 1}
    BY <1>2, <1>5 DEF ThreadTypes, TableType
  <2>4. QED BY <2>2, <2>3
<1>7. /\ pc'[t] = "clear_bit" /\ req'[t] = p /\ slot'[t] = i
      /\ \A u \in Threads :
            u # t => pc'[u] = pc[u] /\ req'[u] = req[u] /\ slot'[u] = slot[u]
  BY <1>1, <1>2, <1>4 DEF ThreadTypes
<1>8. ThreadTypes'
  BY <1>1, <1>2, <1>4, <1>5 DEF ThreadTypes, TPCs, TableType
<1>9. OneLocker'
  BY <1>3, <1>7 DEF OneLocker
<1>10. FilesUnique'
  BY <1>1 DEF ThreadInv, FilesUnique
<1>11. ASSUME NEW u \in Threads PROVE ThreadKnows(u)'
  <2>1. CASE u = t
    BY <1>1, <1>5, <1>6, <1>7, <2>1 DEF ThreadKnows, FileAt
  <2>2. CASE u # t
    BY <1>1, <1>7, <2>2 DEF ThreadInv, ThreadKnows, FileAt
  <2>3. QED BY <2>1, <2>2
<1>12. FilesHeld'
  BY <1>1 DEF ThreadInv, FilesHeld, FileAt
<1>13. UnsetIsServed'
  BY <1>1, <1>7 DEF ThreadInv, UnsetIsServed
<1>14. QED BY <1>8, <1>9, <1>10, <1>11, <1>12, <1>13 DEF ThreadInv

\* unlink clears the bit.
LEMMA ClearBitStep ==
    ASSUME OneParent, ThreadInv, NEW t \in Threads, ClearBit(t)
    PROVE  ThreadInv'
<1>1. /\ UNCHANGED <<inodes, req, slot, open>>
      /\ pc[t] = "clear_bit"
      /\ pc' = [pc EXCEPT ![t] = "clear_name"]
      /\ bitmap_inodes' = [bitmap_inodes EXCEPT ![slot[t]] = 0]
      /\ made' = made \ {req[t]}
  BY DEF ClearBit
<1>2. ThreadTypes
  BY DEF ThreadInv
<1>3. PICK i : i = slot[t]
  OBVIOUS
<1>4. PICK p : p = req[t]
  OBVIOUS
<1>5. i \in Inodes /\ p \in FilePaths
  BY <1>1, <1>2, <1>3, <1>4 DEF ThreadTypes
<1>6. FileAt(i, p) /\ p \notin open
  BY <1>1, <1>3, <1>4 DEF ThreadInv, ThreadKnows
<1>7. bitmap_inodes'[i] = 0 /\ SameBut(bitmap_inodes, bitmap_inodes', i)
  BY <1>1, <1>2, <1>3, <1>5 DEF ThreadTypes, TableType, SameBut
<1>8. /\ pc'[t] = "clear_name"
      /\ \A u \in Threads : u # t => pc'[u] = pc[u] /\ pc[u] \notin LockedPCs
  BY <1>1, <1>2 DEF ThreadTypes, ThreadInv, OneLocker, LockedPCs
<1>9. ThreadTypes'
  BY <1>1, <1>2 DEF ThreadTypes, TPCs, TableType
<1>10. OneLocker'
  BY <1>8 DEF OneLocker
<1>11. FilesUnique'
  BY <1>1 DEF ThreadInv, FilesUnique
<1>12. ASSUME NEW q \in FilePaths, NEW j \in Inodes, FileAt(j, q), q # p
       PROVE  j # i
  BY <1>5, <1>6, <1>12, NameIsPath DEF FileAt
<1>13. ASSUME NEW u \in Threads PROVE ThreadKnows(u)'
  <2>1. CASE u = t
    BY <1>1, <1>3, <1>4, <1>6, <1>7, <1>8, <2>1 DEF ThreadKnows, FileAt
  <2>2. CASE u # t
    <3>1. pc'[u] = pc[u] /\ pc[u] \in {"idle", "copy"}
      BY <1>2, <1>8, <2>2 DEF ThreadTypes, LockedPCs, TPCs
    <3>2. CASE pc[u] = "copy"
      <4>1. FileAt(slot[u], req[u]) /\ bitmap_inodes[slot[u]] = 1 /\ req[u] \in open
        BY <3>2 DEF ThreadInv, ThreadKnows
      <4>2. slot[u] \in Inodes /\ req[u] \in FilePaths /\ req[u] # p
        BY <1>2, <1>6, <3>2, <4>1 DEF ThreadTypes
      <4>3. slot[u] # i
        BY <1>12, <4>1, <4>2
      <4>4. bitmap_inodes'[slot[u]] = 1
        BY <1>7, <4>1, <4>2, <4>3 DEF SameBut
      <4>5. QED BY <1>1, <3>1, <3>2, <4>1, <4>4 DEF ThreadKnows, FileAt
    <3>3. QED BY <3>1, <3>2 DEF ThreadKnows
  <2>3. QED BY <2>1, <2>2
<1>14. FilesHeld'
  <2>1. SUFFICES ASSUME NEW q \in made' \cup open'
                 PROVE  \E j \in Inodes : FileAt(j, q)' /\ bitmap_inodes'[j] = 1
    BY DEF FilesHeld
  <2>2. q \in made \cup open /\ q # p /\ q \in FilePaths
    BY <1>1, <1>2, <1>4, <1>6 DEF ThreadTypes
  <2>3. PICK j \in Inodes : FileAt(j, q) /\ bitmap_inodes[j] = 1
    BY <2>2 DEF ThreadInv, FilesHeld
  <2>4. j # i
    BY <1>12, <2>2, <2>3
  <2>5. bitmap_inodes'[j] = 1
    BY <1>7, <2>3, <2>4 DEF SameBut
  <2>6. QED BY <1>1, <2>3, <2>5 DEF FileAt
<1>15. UnsetIsServed'
  <2>1. SUFFICES ASSUME NEW j \in Inodes, inodes'[j].type = "FS_FILE",
                        inodes'[j].path # EmptyString, bitmap_inodes'[j] = 0
                 PROVE  \E u \in Threads :
                           slot'[u] = j /\ pc'[u] \in {"set_bit", "clear_name"}
    BY DEF UnsetIsServed
  <2>2. CASE j = i
    BY <1>1, <1>3, <1>8, <2>2
  <2>3. CASE j # i
    <3>1. PICK u \in Threads : slot[u] = j /\ pc[u] \in {"set_bit", "clear_name"}
      BY <1>1, <1>7, <2>1, <2>3 DEF ThreadInv, UnsetIsServed, SameBut
    <3>2. u # t
      BY <1>3, <2>3, <3>1
    <3>3. QED BY <1>1, <1>8, <3>1, <3>2
  <2>4. QED BY <2>2, <2>3
<1>16. QED BY <1>9, <1>10, <1>11, <1>13, <1>14, <1>15 DEF ThreadInv

\* unlink clears the name and the content.
LEMMA ClearNameStep ==
    ASSUME OneParent, ThreadInv, NEW t \in Threads, ClearName(t)
    PROVE  ThreadInv'
<1>1. /\ UNCHANGED <<bitmap_inodes, req, slot, open, made>>
      /\ pc[t] = "clear_name"
      /\ pc' = [pc EXCEPT ![t] = "idle"]
  BY DEF ClearName
<1>2. ThreadTypes
  BY DEF ThreadInv
<1>3. PICK i : i = slot[t]
  OBVIOUS
<1>4. PICK p : p = req[t]
  OBVIOUS
<1>5. i \in Inodes /\ p \in FilePaths
  BY <1>1, <1>2, <1>3, <1>4 DEF ThreadTypes
<1>6. FileAt(i, p) /\ p \notin open \cup made /\ bitmap_inodes[i] = 0
  BY <1>1, <1>3, <1>4 DEF ThreadInv, ThreadKnows
<1>7. inodes' = [inodes EXCEPT ![i].content = NoContent, ![i].path = EmptyString]
  BY <1>3 DEF ClearName
<1>8. inodes \in [Inodes -> InodeType] /\ inodes[i] \in InodeType
  BY <1>2, <1>5 DEF ThreadTypes, TableType
<1>9. inodes'[i] = [inodes[i] EXCEPT !.content = NoContent, !.path = EmptyString]
  BY <1>5, <1>7, <1>8
<1>10. inodes'[i] \in InodeType /\ inodes'[i].path = EmptyString
  <2>1. EmptyString \in Seq(STRING)
    BY InodeTypes DEF InodeType
  <2>2. QED BY <1>8, <1>9, <2>1, InodeTypes DEF InodeType
<1>11. SameBut(inodes, inodes', i)
  BY <1>7, <1>8 DEF SameBut
<1>12. inodes' \in [Inodes -> InodeType]
  BY <1>7, <1>8, <1>9, <1>10
<1>13. /\ pc'[t] = "idle"
       /\ \A u \in Threads : u # t => pc'[u] = pc[u] /\ pc[u] \notin LockedPCs
  BY <1>1, <1>2 DEF ThreadTypes, ThreadInv, OneLocker, LockedPCs
<1>14. ThreadTypes'
  BY <1>1, <1>2, <1>12 DEF ThreadTypes, TPCs, TableType
<1>15. OneLocker'
  BY <1>13 DEF OneLocker, LockedPCs
<1>16. FilesUnique'
  BY <1>10, <1>11 DEF ThreadInv, FilesUnique, SameBut
<1>17. ASSUME NEW u \in Threads PROVE ThreadKnows(u)'
  <2>1. CASE u = t
    BY <1>13, <2>1 DEF ThreadKnows
  <2>2. CASE u # t
    <3>1. pc'[u] = pc[u] /\ pc[u] \in {"idle", "copy"}
      BY <1>2, <1>13, <2>2 DEF ThreadTypes, LockedPCs, TPCs
    <3>2. CASE pc[u] = "copy"
      <4>1. FileAt(slot[u], req[u]) /\ bitmap_inodes[slot[u]] = 1 /\ req[u] \in open
        BY <3>2 DEF ThreadInv, ThreadKnows
      <4>2. slot[u] # i /\ slot[u] \in Inodes
        BY <1>2, <1>6, <4>1 DEF ThreadTypes
      <4>3. FileAt(slot[u], req[u])'
        BY <1>1, <1>11, <4>1, <4>2 DEF FileAt, SameBut
      <4>4. QED BY <1>1, <3>1, <3>2, <4>1, <4>3 DEF ThreadKnows
    <3>3. QED BY <3>1, <3>2 DEF ThreadKnows
  <2>3. QED BY <2>1, <2>2
<1>18. FilesHeld'
  <2>1. SUFFICES ASSUME NEW q \in made \cup open
                 PROVE  \E j \in Inodes : FileAt(j, q)' /\ bitmap_inodes'[j] = 1
    BY <1>1 DEF FilesHeld
  <2>2. PICK j \in Inodes : FileAt(j, q) /\ bitmap_inodes[j] = 1
    BY DEF ThreadInv, FilesHeld
  <2>3. j # i
    BY <1>6, <2>2
  <2>4. FileAt(j, q)'
    BY <1>11, <2>2, <2>3 DEF FileAt, SameBut
  <2>5. QED BY <1>1, <2>2, <2>4
<1>19. UnsetIsServed'
  <2>1. SUFFICES ASSUME NEW j \in Inodes, inodes'[j].type = "FS_FILE",
                        inodes'[j].path # EmptyString, bitmap_inodes'[j] = 0
                 PROVE  \E u \in Threads :
                           slot'[u] = j /\ pc'[u] \in {"set_bit", "clear_name"}
    BY DEF UnsetIsServed
  <2>2. j # i
    BY <1>10, <2>1
  <2>3. PICK u \in Threads : slot[u] = j /\ pc[u] \in {"set_bit", "clear_name"}
    BY <1>1, <1>11, <2>1, <2>2 DEF ThreadInv, UnsetIsServed, SameBut
  <2>4. u # t
    BY <1>3, <2>2, <2>3
  <2>5. QED BY <1>1, <1>13, <2>3, <2>4
<1>20. QED BY <1>14, <1>15, <1>16, <1>17, <1>18, <1>19 DEF ThreadInv

\* The search of write_file.
LEMMA WriteStep ==
    ASSUME ThreadInv, NEW t \in Threads, NEW p \in FilePaths, Write(t, p)
    PROVE  ThreadInv'
<1>1. /\ pc' = [pc EXCEPT ![t] = "copy"]
      /\ req' = [req EXCEPT ![t] = p]
      /\ slot' = [slot EXCEPT ![t] = get_index_inodo(p)]
      /\ UNCHANGED <<inodes, bitmap_inodes, open, made>>
      /\ pc[t] = "idle" /\ p \in open /\ IsFile(p)
  BY DEF Write, Request, vars
<1>2. ThreadTypes
  BY DEF ThreadInv
<1>3. PICK i : i = get_index_inodo(p)
  OBVIOUS
<1>4. i \in Inodes /\ FileAt(i, p)
  BY <1>1, <1>3, FileFound
<1>5. bitmap_inodes[i] = 1
  <2>1. PICK j \in Inodes : FileAt(j, p) /\ bitmap_inodes[j] = 1
    BY <1>1 DEF ThreadInv, FilesHeld
  <2>2. i = j
    BY <1>4, <2>1, FileNameSet DEF ThreadInv, FilesUnique, FileAt
  <2>3. QED BY <2>1, <2>2
<1>6. /\ pc'[t] = "copy" /\ req'[t] = p /\ slot'[t] = i
      /\ \A u \in Threads :
            u # t => pc'[u] = pc[u] /\ req'[u] = req[u] /\ slot'[u] = slot[u]
  BY <1>1, <1>2, <1>3 DEF ThreadTypes
<1>7. ThreadTypes'
  BY <1>1, <1>2, <1>3, <1>4 DEF ThreadTypes, TPCs, TableType
<1>8. OneLocker'
  BY <1>6 DEF ThreadInv, OneLocker, LockedPCs
<1>9. FilesUnique'
  BY <1>1 DEF ThreadInv, FilesUnique
<1>10. ASSUME NEW u \in Threads PROVE ThreadKnows(u)'
  <2>1. CASE u = t
    BY <1>1, <1>4, <1>5, <1>6, <2>1 DEF ThreadKnows, FileAt
  <2>2. CASE u # t
    BY <1>1, <1>6, <2>2 DEF ThreadInv, ThreadKnows, FileAt
  <2>3. QED BY <2>1, <2>2
<1>11. FilesHeld'
  BY <1>1 DEF ThreadInv, FilesHeld, FileAt
<1>12. UnsetIsServed'
  BY <1>1, <1>6 DEF ThreadInv, UnsetIsServed
<1>13. QED BY <1>7, <1>8, <1>9, <1>10, <1>11, <1>12 DEF ThreadInv

\* The copy of write_file.
LEMMA CopyStep ==
    ASSUME ThreadInv, NEW t \in Threads, Copy(t)
    PROVE  ThreadInv'
<1>1. /\ UNCHANGED <<bitmap_inodes, req, slot, open, made>>
      /\ pc[t] = "copy"
      /\ pc' = [pc EXCEPT ![t] = "idle"]
  BY DEF Copy
<1>2. ThreadTypes
  BY DEF ThreadInv
<1>3. PICK i : i = slot[t]
  OBVIOUS
<1>4. i \in Inodes /\ inodes \in [Inodes -> InodeType] /\ inodes[i] \in InodeType
  BY <1>2, <1>3 DEF ThreadTypes, TableType
<1>5. PICK buf \in Buffers : inodes' = [inodes EXCEPT ![i] = Written(inodes[i], 0, buf)]
  BY <1>3 DEF Copy
<1>6. PICK w : w = Written(inodes[i], 0, buf)
  OBVIOUS
<1>7. w \in InodeType /\ w.path = inodes[i].path /\ w.type = inodes[i].type
  BY <1>4, <1>6, WrittenIs
<1>8. inodes' = [inodes EXCEPT ![i] = w]
  BY <1>5, <1>6
<1>9. \A j \in Inodes : /\ inodes'[j].path = inodes[j].path
                        /\ inodes'[j].type = inodes[j].type
  BY <1>4, <1>7, <1>8
<1>10. pc'[t] = "idle" /\ \A u \in Threads : u # t => pc'[u] = pc[u]
  BY <1>1, <1>2 DEF ThreadTypes
<1>11. ThreadTypes'
  BY <1>1, <1>2, <1>7, <1>8 DEF ThreadTypes, TPCs, TableType
<1>12. OneLocker'
  BY <1>10 DEF ThreadInv, OneLocker, LockedPCs
<1>13. FilesUnique'
  BY <1>9 DEF ThreadInv, FilesUnique
<1>14. \A j \in Inodes, q \in FilePaths : FileAt(j, q)' <=> FileAt(j, q)
  BY <1>9 DEF FileAt
<1>15. ASSUME NEW u \in Threads PROVE ThreadKnows(u)'
  <2>1. CASE u = t
    BY <1>10, <2>1 DEF ThreadKnows
  <2>2. CASE u # t
    <3>1. slot[u] \in Inodes
      BY <1>2 DEF ThreadTypes
    <3>2. inodes'[slot[u]].path = inodes[slot[u]].path
          /\ inodes'[slot[u]].type = inodes[slot[u]].type
      BY <1>9, <3>1
    <3>3. ThreadKnows(u)
      BY DEF ThreadInv
    <3>4. QED BY <1>1, <1>9, <1>10, <2>2, <3>2, <3>3 DEF ThreadKnows, FileAt
  <2>3. QED BY <2>1, <2>2
<1>16. FilesHeld'
  BY <1>1, <1>9 DEF ThreadInv, FilesHeld, FileAt
<1>17. UnsetIsServed'
  <2>1. SUFFICES ASSUME NEW j \in Inodes, inodes'[j].type = "FS_FILE",
                        inodes'[j].path # EmptyString, bitmap_inodes'[j] = 0
                 PROVE  \E u \in Threads :
                           slot'[u] = j /\ pc'[u] \in {"set_bit", "clear_name"}
    BY DEF UnsetIsServed
  <2>2. PICK u \in Threads : slot[u] = j /\ pc[u] \in {"set_bit", "clear_name"}
    BY <1>1, <1>9, <2>1 DEF ThreadInv, UnsetIsServed
  <2>3. u # t
    BY <1>1, <2>2
  <2>4. QED BY <1>1, <1>10, <2>2, <2>3
<1>18. QED BY <1>11, <1>12, <1>13, <1>15, <1>16, <1>17 DEF ThreadInv

\* close, which waits for the writes in progress.
LEMMA CloseStep ==
    ASSUME ThreadInv, NEW p \in FilePaths, TClose(p)
    PROVE  ThreadInv'
<1>1. /\ UNCHANGED <<inodes, bitmap_inodes, pc, req, slot, made>>
      /\ open' = open \ {p}
      /\ \A t \in Threads : pc[t] = "copy" => req[t] # p
  BY DEF TClose, Close, thrVars
<1>2. ThreadTypes'
  BY <1>1 DEF ThreadInv, ThreadTypes, TableType
<1>3. OneLocker' /\ FilesUnique' /\ UnsetIsServed'
  BY <1>1 DEF ThreadInv, OneLocker, FilesUnique, UnsetIsServed
<1>4. ASSUME NEW u \in Threads PROVE ThreadKnows(u)'
  BY <1>1 DEF ThreadInv, ThreadKnows, FileAt
<1>5. FilesHeld'
  BY <1>1 DEF ThreadInv, FilesHeld, FileAt
<1>6. QED BY <1>2, <1>3, <1>4, <1>5 DEF ThreadInv

\* open.
LEMMA OpenStep ==
    ASSUME OneParent, ThreadInv, NEW p \in FilePaths, TOpen(p)
    PROVE  ThreadInv'
<1>1. /\ UNCHANGED <<inodes, bitmap_inodes, pc, req, slot, made>>
      /\ open' = open \cup {p}
      /\ ~ParentLocked(p) /\ IsFile(p)
  BY DEF TOpen, Open, thrVars
<1>2. ThreadTypes
  BY DEF ThreadInv
<1>3. \A u \in Threads : pc[u] \notin LockedPCs
  BY <1>1, <1>2, LockIsFree
<1>4. PICK i : i = get_index_inodo(p)
  OBVIOUS
<1>5. i \in Inodes /\ FileAt(i, p)
  BY <1>1, <1>4, FileFound
<1>6. bitmap_inodes[i] = 1
  <2>1. inodes[i].type = "FS_FILE" /\ inodes[i].path # EmptyString
    BY <1>5, FileNameSet DEF FileAt
  <2>2. bitmap_inodes[i] # 0
    BY <1>3, <1>5, <2>1 DEF ThreadInv, UnsetIsServed, LockedPCs
  <2>3. bitmap_inodes[i] \in {0, 1}
    BY <1>2, <1>5 DEF ThreadTypes, TableType
  <2>4. QED BY <2>2, <2>3
<1>7. ThreadTypes'
  BY <1>1, <1>2 DEF ThreadTypes, TableType
<1>8. OneLocker' /\ FilesUnique' /\ UnsetIsServed'
  BY <1>1 DEF ThreadInv, OneLocker, FilesUnique, UnsetIsServed
<1>9. ASSUME NEW u \in Threads PROVE ThreadKnows(u)'
  <2>1. pc[u] \in {"idle", "copy"}
    BY <1>2, <1>3 DEF ThreadTypes, TPCs, LockedPCs
  <2>2. QED BY <1>1, <2>1 DEF ThreadInv, ThreadKnows, FileAt
<1>10. FilesHeld'
  BY <1>1, <1>5, <1>6 DEF ThreadInv, FilesHeld, FileAt
<1>11. QED BY <1>7, <1>8, <1>9, <1>10 DEF ThreadInv

\* The table with the directories of Setup.
LEMMA ThreadsStart == TInit => ThreadInv
<1> SUFFICES ASSUME TInit PROVE ThreadInv
  OBVIOUS
<1>1. PICK order \in [Setup -> Inodes \ {0}] :
        /\ inodes = [i \in Inodes |->
              IF i = 0 THEN RootInode
              ELSE IF \E p \in Setup : order[p] = i
              THEN NewInode(CHOOSE p \in Setup : order[p] = i, "FS_DIR")
              ELSE ZeroInode]
        /\ bitmap_inodes = [i \in Inodes |->
              IF i = 0 \/ \E p \in Setup : order[p] = i THEN 1 ELSE 0]
  BY DEF TInit
<1>2. ASSUME NEW i \in Inodes
      PROVE  inodes[i] \in InodeType /\ inodes[i].type = "FS_DIR"
  <2>1. CASE i = 0
    BY <1>1, <2>1, InodeTypes
  <2>2. CASE i # 0 /\ \E p \in Setup : order[p] = i
    <3>1. PICK q : q = CHOOSE p \in Setup : order[p] = i
      OBVIOUS
    <3>2. q \in Setup
      BY <2>2, <3>1
    <3>3. inodes[i] = NewInode(q, "FS_DIR")
      BY <1>1, <2>2, <3>1
    <3>4. q \in Paths
      BY <3>2, SetupAssumption DEF Paths
    <3>5. QED BY <3>3, <3>4, NewInodeIs
  <2>3. CASE i # 0 /\ ~(\E p \in Setup : order[p] = i)
    <3>1. inodes[i] = ZeroInode
      BY <1>1, <2>3
    <3>2. ZeroInode.type = "FS_DIR"
      BY DEF ZeroInode
    <3>3. QED BY <3>1, <3>2, InodeTypes
  <2>4. QED BY <2>1, <2>2, <2>3
<1>3. TableType(inodes, bitmap_inodes)
  <2>1. inodes = [i \in Inodes |-> inodes[i]]
    BY <1>1
  <2>2. inodes \in [Inodes -> InodeType]
    BY <1>2, <2>1
  <2>3. bitmap_inodes \in [Inodes -> {0, 1}]
    BY <1>1
  <2>4. QED BY <2>2, <2>3 DEF TableType
<1>4. /\ open = {} /\ made = {}
      /\ pc = [t \in Threads |-> "idle"]
      /\ req = [t \in Threads |-> ROOT_PATH]
      /\ slot = [t \in Threads |-> 0]
  BY DEF TInit
<1>5. ThreadTypes
  BY <1>3, <1>4, InodesAreNat DEF ThreadTypes, TPCs
<1>6. OneLocker
  BY <1>4 DEF OneLocker, LockedPCs
<1>7. FilesUnique /\ UnsetIsServed
  BY <1>2 DEF FilesUnique, UnsetIsServed
<1>8. \A t \in Threads : ThreadKnows(t)
  BY <1>4 DEF ThreadKnows
<1>9. FilesHeld
  BY <1>4 DEF FilesHeld
<1>10. QED BY <1>5, <1>6, <1>7, <1>8, <1>9 DEF ThreadInv

\* What the threads know of the table stays true, for every number of threads,
\* when all files are in one directory.
THEOREM ThreadsSafe == ASSUME OneParent PROVE TSpec => []ThreadInv
<1>1. TInit => ThreadInv
  BY ThreadsStart
<1>2. ThreadInv /\ [TNext]_allVars => ThreadInv'
  <2> SUFFICES ASSUME ThreadInv, [TNext]_allVars PROVE ThreadInv'
    OBVIOUS
  <2>1. CASE UNCHANGED allVars
    <3>1. UNCHANGED <<inodes, bitmap_inodes, open, pc, req, slot, made>>
      BY <2>1 DEF allVars, vars, thrVars
    <3>2. QED
      BY <3>1 DEF ThreadInv, ThreadTypes, TableType, OneLocker, FilesUnique,
                  ThreadKnows, FileAt, FilesHeld, UnsetIsServed
  <2>2. CASE TNext
    BY <2>2, CreateStep, ScanStep, StoreStep, SetBitStep, UnlinkStep, ClearBitStep,
       ClearNameStep, WriteStep, CopyStep, CloseStep, OpenStep DEF TNext
  <2>3. QED BY <2>1, <2>2
<1>3. QED BY <1>1, <1>2, PTL DEF TSpec

\* A file whose creation was acknowledged and that nobody removed is found
\* (NoLostFile), though create_file finds its inode, stores it and sets the bit
\* in three steps that others interleave with.
THEOREM FilesAreKept == ASSUME OneParent PROVE TSpec => []NoLostFile
<1>1. ThreadInv => NoLostFile
  <2> SUFFICES ASSUME ThreadInv, NEW p \in made PROVE IsFile(p)
    BY DEF NoLostFile
  <2>1. p \in FilePaths /\ p \in Paths
    BY DEF ThreadInv, ThreadTypes, Paths
  <2>2. PICK i \in Inodes : FileAt(i, p)
    BY DEF ThreadInv, FilesHeld
  <2>3. Lookup(inodes, p) \in Inodes /\ Lookup(inodes, p) >= 0
        /\ inodes[Lookup(inodes, p)].path = remove_slash(p)
    BY <2>1, <2>2, LookupIs DEF FileAt
  <2>4. Lookup(inodes, p) = i
    BY <2>1, <2>2, <2>3, FileNameSet DEF ThreadInv, FilesUnique, FileAt
  <2>5. QED BY <2>2, <2>3, <2>4 DEF IsFile, get_index_inodo, FileAt
<1>2. QED BY <1>1, ThreadsSafe, PTL

\* A write copies into the inode of its file, though write_file looked the
\* inode up some steps before (WriteHitsItsFile).
THEOREM WritesHit == ASSUME OneParent PROVE TSpec => []WriteHitsItsFile
<1>1. ThreadInv => WriteHitsItsFile
  BY DEF ThreadInv, ThreadKnows, FileAt, WriteHitsItsFile
<1>2. QED BY <1>1, ThreadsSafe, PTL

-----------------------------------------------------------------------------
(* The table as a tree of files and directories.                           *)

\* A content that has n bytes of text.
EndsAt(c, n) == \A k \in Positions : c[k] = NUL <=> k >= n

\* The sequence of the first n bytes of a content.
Holds(s, c, n) == s \in Seq(STRING) /\ Len(s) = n /\ \A k \in 1..n : s[k] = c[k - 1]

\* Where a file of n bytes ends after a write of l bytes at off.
EndOf(n, off, l) == IF n > off + l THEN n ELSE off + l

\* A file that is in use leaves room for a NUL, and what it holds ends at the
\* first one.
CleanFile(inode) ==
    inode.path # EmptyString /\ inode.type = "FS_FILE" =>
        inode.size < MAX_CONTENT /\ EndsAt(inode.content, inode.size)

Clean(t) ==
    /\ t[0].directory_path = EmptyString
    /\ \A i \in Inodes : CleanFile(t[i])

\* The buffers of a program that writes text.
TextBuffers == \A buf \in Buffers : \A j \in 1..Len(buf) : buf[j] # NUL

\* The tree that programs see, and the one that the next mount finds.
Tree == TreeOf(IF mnt = "mounted" THEN inodes ELSE ZeroTable)
Saved == TreeOf(IF mnt = "saving" THEN inodes ELSE disk.inodes)

\* FsInv, and: all files are clean, and what programs have open is a file.
StoreInv ==
    /\ FsInv
    /\ mnt # "down" => Clean(inodes)
    /\ mnt # "saving" => Clean(disk.inodes)
    /\ \A p \in open : Tree[p].kind = "file"

FileStep == [Files!Next]_(Files!vars)

None == [kind |-> "none", data |-> <<>>]
Dir == [kind |-> "dir", data |-> <<>>]
File(data) == [kind |-> "file", data |-> data]

\* The first inode with a name is the only one.
LEMMA LookupAt ==
    ASSUME NEW t, Unique(t), NEW p \in Paths, NEW i \in Inodes,
           t[i].path = remove_slash(p)
    PROVE  Lookup(t, p) = i
<1>1. remove_slash(p) # EmptyString
  BY NameOfPath
<1>2. Lookup(t, p) \in Inodes /\ t[Lookup(t, p)].path = remove_slash(p)
  BY LookupIs
<1>3. QED BY <1>1, <1>2 DEF Unique

\* What is under a path is the inode with its name.
LEMMA ObjectIs ==
    ASSUME NEW t, Unique(t), NEW p \in Paths
    PROVE  /\ (\A i \in Inodes : t[i].path # remove_slash(p)) => ObjectAt(t, p) = None
           /\ \A i \in Inodes : t[i].path = remove_slash(p) =>
                 ObjectAt(t, p) = IF t[i].type = "FS_DIR" THEN Dir
                                  ELSE File(fisopfs_read(t, i))
<1>1. ASSUME \A i \in Inodes : t[i].path # remove_slash(p)
      PROVE  ObjectAt(t, p) = None
  <2>1. Lookup(t, p) = -1
    BY <1>1, LookupIs
  <2>2. QED BY <2>1 DEF ObjectAt, None
<1>2. ASSUME NEW i \in Inodes, t[i].path = remove_slash(p)
      PROVE  ObjectAt(t, p) = IF t[i].type = "FS_DIR" THEN Dir
                              ELSE File(fisopfs_read(t, i))
  <2>1. Lookup(t, p) = i /\ ~(i < 0)
    BY <1>2, LookupAt, InodesAreNat
  <2>2. QED BY <2>1 DEF ObjectAt, Dir, File
<1>3. QED BY <1>1, <1>2

\* The three kinds of objects.
LEMMA KindsOf ==
    /\ None # Dir
    /\ \A d : None # File(d) /\ Dir # File(d) /\ File(d).kind = "file" /\ File(d).data = d
    /\ None.kind # "file" /\ Dir.kind # "file"
<1>1. None.kind = "none" /\ Dir.kind = "dir" /\ \A d : File(d).kind = "file" /\ File(d).data = d
  BY DEF None, Dir, File
<1>2. "none" # "dir" /\ "none" # "file" /\ "dir" # "file"
  OBVIOUS
<1>3. QED BY <1>1, <1>2

\* A table that has no names is an empty tree.
LEMMA NoNames ==
    ASSUME NEW t, \A i \in Inodes, p \in Paths : t[i].path # remove_slash(p)
    PROVE  TreeOf(t) = [p \in Paths |-> None]
<1>1. ASSUME NEW p \in Paths PROVE ObjectAt(t, p) = None
  <2>1. Lookup(t, p) = -1
    BY LookupIs
  <2>2. QED BY <2>1 DEF ObjectAt, None
<1>2. QED BY <1>1 DEF TreeOf

\* The table of a process that is not there, and the one that it starts with.
LEMMA EmptyTrees ==
    /\ TreeOf(ZeroTable) = [p \in Paths |-> None]
    /\ TreeOf(FreshImage.inodes) = [p \in Paths |-> None]
<1>1. \A p \in Paths : remove_slash(p) # EmptyString /\ remove_slash(p) # ROOT_PATH
  BY NameOfPath
<1>2. \A i \in Inodes : ZeroTable[i].path = EmptyString
  BY InodeTypes DEF ZeroTable
<1>3. \A i \in Inodes : FreshImage.inodes[i].path \in {EmptyString, ROOT_PATH}
  <2>1. FreshImage.inodes = [ZeroTable EXCEPT ![0] = RootInode]
    BY DEF FreshImage, Image
  <2>2. QED BY <1>2, <2>1, InodeTypes DEF ZeroTable
<1>4. \A i \in Inodes, p \in Paths : ZeroTable[i].path # remove_slash(p)
  BY <1>1, <1>2
<1>5. \A i \in Inodes, p \in Paths : FreshImage.inodes[i].path # remove_slash(p)
  BY <1>1, <1>3
<1>6. QED BY <1>4, <1>5, NoNames

\* An operation that touches the inode of one path, or makes or frees it, leaves
\* the rest of the tree.
LEMMA TreeChange ==
    ASSUME PlainNames, NEW t, NEW u, NEW p \in Paths, NEW i \in Inodes, SameBut(t, u, i),
           t[i].path \in {EmptyString, remove_slash(p)},
           u[i].path \in {EmptyString, remove_slash(p)}
    PROVE  TreeOf(u) = [TreeOf(t) EXCEPT ![p] = ObjectAt(u, p)]
<1>1. ASSUME NEW q \in Paths, q # p PROVE ObjectAt(u, q) = ObjectAt(t, q)
  <2>1. remove_slash(q) # EmptyString /\ remove_slash(q) # remove_slash(p) /\ q # ROOT_PATH
    BY <1>1, NameOfPath DEF PlainNames
  <2>2. \A j \in Inodes : u[j].path = remove_slash(q) <=> t[j].path = remove_slash(q)
    BY <2>1 DEF SameBut
  <2>3. {j \in Inodes : u[j].path = remove_slash(q)} = {j \in Inodes : t[j].path = remove_slash(q)}
    BY <2>2
  <2>4. Lookup(u, q) = Lookup(t, q)
    BY <2>3 DEF Lookup
  <2>5. PICK j : j = Lookup(t, q)
    OBVIOUS
  <2>6. CASE j = -1
    BY <2>4, <2>5, <2>6 DEF ObjectAt
  <2>7. CASE j # -1
    <3>1. j \in Inodes /\ t[j].path = remove_slash(q)
      BY <2>5, <2>7, LookupIs
    <3>2. u[j] = t[j]
      BY <2>1, <3>1 DEF SameBut
    <3>3. fisopfs_read(u, j) = fisopfs_read(t, j)
      BY <3>2 DEF fisopfs_read
    <3>4. QED BY <2>4, <2>5, <3>2, <3>3 DEF ObjectAt
  <2>8. QED BY <2>6, <2>7
<1>2. QED BY <1>1 DEF TreeOf

\* The tree is full exactly when no inode is free: each inode in use, the root
\* apart, is under one path.
LEMMA FullIs ==
    ASSUME PlainNames, GoodTable(inodes, bitmap_inodes), mnt = "mounted"
    PROVE  Files!IsFull <=> FreeInodes = {}
<1> DEFINE U == {p \in Paths : ObjectAt(inodes, p) # None}
           W == 1..(MAX_INODES - 1)
           f == [p \in U |-> Lookup(inodes, p)]
<1>1. Unique(inodes)
  BY DEF GoodTable
<1>2. ASSUME NEW p \in U
      PROVE  f[p] \in W /\ inodes[f[p]].path = remove_slash(p)
  <2>1. ~\A i \in Inodes : inodes[i].path # remove_slash(p)
    BY <1>1, ObjectIs
  <2>2. Lookup(inodes, p) \in Inodes /\ inodes[Lookup(inodes, p)].path = remove_slash(p)
    BY <2>1, LookupIs
  <2>3. Lookup(inodes, p) # 0
    BY <2>2, NameOfPath DEF GoodTable, Rooted
  <2>4. \A i \in Inodes : i # 0 => i \in W
    BY FsAssumption DEF Inodes
  <2>5. QED BY <2>2, <2>3, <2>4
<1>3. f \in Injection(U, W)
  <2>1. f \in [U -> W]
    BY <1>2
  <2>2. ASSUME NEW p \in U, NEW q \in U, f[p] = f[q] PROVE p = q
    BY <1>2, <2>2 DEF PlainNames
  <2> HIDE DEF f, U, W
  <2>3. IsInjective(f)
    BY <2>1, <2>2 DEF IsInjective
  <2>4. QED BY <2>1, <2>3 DEF Injection
<1>4. ASSUME NEW i \in W
      PROVE  bitmap_inodes[i] = 1 <=> \E p \in U : f[p] = i
  <2>1. i \in Inodes /\ i # 0
    BY FsAssumption DEF Inodes
  <2>2. ASSUME bitmap_inodes[i] = 1 PROVE \E p \in U : f[p] = i
    <3>1. inodes[i].path # EmptyString
      BY <2>1, <2>2 DEF GoodTable, Named
    <3>2. PICK p \in Paths : MadeFrom(inodes[i], p)
      BY <2>1, <3>1 DEF GoodTable, Placed
    <3>3. inodes[i].path = remove_slash(p)
      BY <3>2 DEF MadeFrom
    <3>4. Lookup(inodes, p) = i
      BY <1>1, <2>1, <3>3, LookupAt
    <3>5. ObjectAt(inodes, p) = IF inodes[i].type = "FS_DIR" THEN Dir
                                ELSE File(fisopfs_read(inodes, i))
      BY <1>1, <2>1, <3>3, ObjectIs
    <3>6. ObjectAt(inodes, p) # None
      BY <3>5, KindsOf
    <3>7. QED BY <3>4, <3>6
  <2>3. ASSUME NEW p \in U, f[p] = i PROVE bitmap_inodes[i] = 1
    <3>1. inodes[i].path # EmptyString
      BY <1>2, <2>3, NameOfPath
    <3>2. QED BY <2>1, <3>1 DEF GoodTable, Named
  <2>4. QED BY <2>2, <2>3
<1>5. IsFiniteSet(W) /\ Cardinality(W) = MAX_INODES - 1
  <2>1. MAX_INODES - 1 \in Int /\ MAX_INODES - 1 >= 0
    BY FsAssumption
  <2>2. QED BY <2>1, FS_Interval
<1>6. /\ IsFiniteSet(U) /\ Cardinality(U) <= Cardinality(W)
      /\ Cardinality(U) = Cardinality(W) <=> f \in Surjection(U, W)
  <2> HIDE DEF f, U, W
  <2>1. QED BY <1>3, <1>5, FS_Injection
<1>7. f \in Surjection(U, W) <=> \A i \in W : \E p \in U : f[p] = i
  <2>1. f \in [U -> W]
    BY <1>2
  <2> HIDE DEF f, U, W
  <2>2. QED BY <2>1 DEF Surjection
<1>8. (\A i \in W : bitmap_inodes[i] = 1) <=> FreeInodes = {}
  <2>1. bitmap_inodes[0] = 1 /\ bitmap_inodes \in [Inodes -> {0, 1}]
    BY DEF GoodTable, Rooted, TableType
  <2>2. \A i : i \in Inodes <=> i = 0 \/ i \in W
    BY FsAssumption DEF Inodes
  <2> HIDE DEF W
  <2>3. QED BY <2>1, <2>2 DEF FreeInodes
<1>9. Files!IsFull <=> Cardinality(U) >= MAX_INODES - 1
  <2>1. {p \in Paths : TreeOf(inodes)[p] # None} = U
    BY DEF TreeOf
  <2>2. \A S : Files!Cardinality(S) = Cardinality(S)
    BY DEF Files!Cardinality, Cardinality
  <2>3. QED BY <2>1, <2>2 DEF Files!IsFull, Files!Paths, Files!None, Paths, None
<1>10. Cardinality(U) \in Nat
  BY <1>6, FS_CardinalityType
<1> HIDE DEF U, W, f
<1>11. QED BY <1>4, <1>5, <1>6, <1>7, <1>8, <1>9, <1>10, FsAssumption

\* What is read from a file that is in use: its bytes, as many as its size says.
LEMMA ReadIs ==
    ASSUME NEW t \in [Inodes -> InodeType], Clean(t), NEW i \in Inodes,
           t[i].path # EmptyString, t[i].type = "FS_FILE"
    PROVE  /\ Holds(fisopfs_read(t, i), t[i].content, t[i].size)
           /\ t[i].size \in Nat /\ t[i].size < MAX_CONTENT
<1> DEFINE n == t[i].size
           c == t[i].content
           s == [k \in 1..n |-> c[k - 1]]
<1>1. /\ n \in Nat /\ n < MAX_CONTENT /\ MAX_CONTENT \in Nat
      /\ c \in [Positions -> STRING]
      /\ \A k \in Positions : c[k] = NUL <=> k >= n
  BY FsAssumption DEF Clean, CleanFile, EndsAt, InodeType
<1>2. ASSUME NEW k \in 1..n
      PROVE  /\ ~\E j \in Positions : j < k /\ c[j] = NUL
             /\ k <= MAX_CONTENT
             /\ k - 1 \in Positions /\ c[k - 1] \in STRING
  <2>1. k - 1 \in Positions /\ k <= MAX_CONTENT
    BY <1>1 DEF Positions
  <2>2. \A j \in Positions : j < k => ~(j >= n)
    BY <1>1 DEF Positions
  <2>3. QED BY <1>1, <2>1, <2>2
<1> HIDE DEF n, c
<1>3. s \in Seq(STRING) /\ Len(s) = n
  <2>1. s \in [1..n -> STRING]
    BY <1>2
  <2> HIDE DEF s
  <2>2. QED BY <1>1, <2>1
<1>4. fisopfs_read(t, i) = s
  BY <1>2 DEF fisopfs_read, n, c
<1>5. Holds(s, c, n)
  <2>1. \A k \in 1..n : s[k] = c[k - 1]
    OBVIOUS
  <2> HIDE DEF s
  <2>2. QED BY <1>3, <2>1 DEF Holds
<1>6. QED BY <1>1, <1>4, <1>5 DEF n, c

\* strncpy of a text that fits.
LEMMA TextCopied ==
    ASSUME TextBuffers, NEW c, NEW off \in Nat, NEW buf \in Buffers,
           NEW k \in Positions
    PROVE  strncpy(c, off, buf)[k] =
              IF k < off \/ k >= off + Len(buf) THEN c[k] ELSE buf[k - off + 1]
<1>1. buf \in Seq(STRING) /\ Len(buf) \in Nat /\ k \in Nat
  BY FsAssumption, PositionsAreNat
<1>2. ~(k < off \/ k >= off + Len(buf)) =>
         /\ k - off + 1 \in 1..Len(buf)
         /\ \A j \in 1..(k - off + 1) : j \in 1..Len(buf)
  BY <1>1
<1>3. ~(k < off \/ k >= off + Len(buf)) => ~\E j \in 1..(k - off + 1) : buf[j] = NUL
  BY <1>2 DEF TextBuffers
<1>4. QED BY <1>3 DEF strncpy

\* A write of text at or before the end of a clean content, with room for a NUL:
\* the size is where the longer of the two ends.
LEMMA LongerOf ==
    ASSUME TextBuffers, NEW c \in [Positions -> STRING], NEW n \in Nat, n < MAX_CONTENT,
           EndsAt(c, n), NEW off \in Nat, off <= n,
           NEW buf \in Buffers, off + Len(buf) < MAX_CONTENT, NEW d
    PROVE  /\ EndOf(n, off, Len(buf)) \in Nat /\ EndOf(n, off, Len(buf)) < MAX_CONTENT
           /\ EndsAt(strncpy(c, off, buf), EndOf(n, off, Len(buf)))
           /\ strlen(strncpy(c, off, buf), d) = EndOf(n, off, Len(buf))
<1> DEFINE M == EndOf(n, off, Len(buf))
<1>0. M = (IF n > off + Len(buf) THEN n ELSE off + Len(buf))
  BY DEF EndOf
<1> HIDE DEF M
<1>1. buf \in Seq(STRING) /\ Len(buf) \in Nat /\ MAX_CONTENT \in Nat
  BY FsAssumption
<1>2. M \in Nat /\ M < MAX_CONTENT /\ M \in Positions
  BY <1>0, <1>1 DEF Positions
<1>t. ASSUME NEW k \in Positions
      PROVE  strncpy(c, off, buf)[k] =
                IF k < off \/ k >= off + Len(buf) THEN c[k] ELSE buf[k - off + 1]
  <2>1. TextBuffers
    OBVIOUS
  <2>2. QED BY ONLY <2>1, TextCopied, k \in Positions, off \in Nat, buf \in Buffers
<1>3. PICK x : x = strncpy(c, off, buf)
  OBVIOUS
<1>4. ASSUME NEW k \in Positions PROVE x[k] = NUL <=> k >= M
  <2>1. x[k] = IF k < off \/ k >= off + Len(buf) THEN c[k] ELSE buf[k - off + 1]
    <3>1. strncpy(c, off, buf)[k] =
             IF k < off \/ k >= off + Len(buf) THEN c[k] ELSE buf[k - off + 1]
      BY <1>t
    <3>2. QED BY <1>3, <3>1, Zenon
  <2>2. k \in Nat
    BY PositionsAreNat
  <2>3. CASE k < off \/ k >= off + Len(buf)
    <3>1. k >= n <=> k >= M
      BY <1>0, <1>1, <2>2, <2>3
    <3>2. QED BY <2>1, <2>3, <3>1 DEF EndsAt
  <2>4. CASE ~(k < off \/ k >= off + Len(buf))
    <3>1. k - off + 1 \in 1..Len(buf) /\ ~(k >= M)
      BY <1>0, <1>1, <2>2, <2>4
    <3>2. buf[k - off + 1] # NUL
      BY <3>1 DEF TextBuffers
    <3>3. QED BY <2>1, <2>4, <3>1, <3>2
  <2>5. QED BY <2>3, <2>4
<1>5. strlen(x, d) = M
  <2> DEFINE nuls == {k \in Positions : x[k] = NUL}
  <2>1. M \in nuls /\ nuls \subseteq Nat /\ \A k \in nuls : k >= M
    <3>1. M >= M
      BY <1>2
    <3>2. x[M] = NUL
      BY <1>2, <1>4, <3>1
    <3>3. \A k \in nuls : k \in Positions /\ k \in Nat /\ k >= M
      BY <1>4, PositionsAreNat
    <3>4. QED BY <1>2, <3>2, <3>3
  <2>2. strlen(x, d) = LowestOf(nuls)
    BY <2>1 DEF strlen
  <2> HIDE DEF nuls
  <2>3. LowestOf(nuls) \in nuls /\ LowestOf(nuls) <= M
    BY <2>1, LowestIs
  <2>4. LowestOf(nuls) \in Nat /\ LowestOf(nuls) >= M
    BY <2>1, <2>3
  <2>5. QED BY <1>2, <2>2, <2>3, <2>4
<1>6. EndsAt(x, M)
  BY <1>4 DEF EndsAt
<1>7. QED BY <1>2, <1>3, <1>5, <1>6 DEF M

\* Overwriting a sequence, byte by byte.
LEMMA OverwriteIs ==
    ASSUME NEW s \in Seq(STRING), NEW n, n = Len(s), NEW off \in Nat, off <= n,
           NEW buf \in Seq(STRING), NEW l, l = Len(buf), NEW w, w = Files!Overwrite(s, off, buf)
    PROVE  /\ w \in Seq(STRING) /\ Len(w) = EndOf(n, off, l)
           /\ \A k \in 1..EndOf(n, off, l) :
                 w[k] = IF k <= off \/ k > off + l THEN s[k] ELSE buf[k - off]
<1>0. PICK M : M = EndOf(n, off, l)
  OBVIOUS
<1>e. M = IF n > off + l THEN n ELSE off + l
  BY <1>0 DEF EndOf
<1>1. n \in Nat /\ l \in Nat /\ M \in Nat
  BY <1>e
<1>2. \A k \in 1..n : s[k] \in STRING
  BY ElementOfSeq
<1>3. PICK a : a = SubSeq(s, 1, off)
  OBVIOUS
<1>4. a \in Seq(STRING) /\ Len(a) = off /\ \A k \in 1..off : a[k] = s[k]
  <2>1. 1 \in Int /\ off \in Int /\ \A k \in 1..off : s[k] \in STRING
    BY <1>1, <1>2
  <2>2. /\ SubSeq(s, 1, off) \in Seq(STRING)
        /\ Len(SubSeq(s, 1, off)) = IF 1 <= off THEN off - 1 + 1 ELSE 0
        /\ \A k \in 1..(off - 1 + 1) : SubSeq(s, 1, off)[k] = s[1 + k - 1]
    BY <2>1, SubSeqProperties
  <2>3. QED BY <1>3, <2>2
<1>5. PICK z : z = SubSeq(s, off + l + 1, n)
  OBVIOUS
<1>6. /\ z \in Seq(STRING) /\ Len(z) = M - (off + l)
      /\ \A k \in 1..(M - (off + l)) : z[k] = s[off + l + k]
  <2> DEFINE q == off + l + 1
  <2>1. q \in Int /\ n \in Int /\ \A k \in q..n : s[k] \in STRING
    BY <1>1, <1>2
  <2>2. q = off + l + 1
    OBVIOUS
  <2> HIDE DEF q
  <2>3. /\ SubSeq(s, q, n) \in Seq(STRING)
        /\ Len(SubSeq(s, q, n)) = IF q <= n THEN n - q + 1 ELSE 0
        /\ \A k \in 1..(n - q + 1) : SubSeq(s, q, n)[k] = s[q + k - 1]
    BY <2>1, SubSeqProperties
  <2>4. z = SubSeq(s, q, n)
    BY <1>5, <2>2
  <2>5. (IF q <= n THEN n - q + 1 ELSE 0) = M - (off + l)
    BY <1>1, <1>e, <2>2
  <2>6. \A k \in 1..(M - (off + l)) : k \in 1..(n - q + 1) /\ q + k - 1 = off + l + k
    BY <1>1, <1>e, <2>2
  <2>7. QED BY <2>3, <2>4, <2>5, <2>6
<1>7. PICK y : y = a \o buf
  OBVIOUS
<1>8. /\ y \in Seq(STRING) /\ Len(y) = off + l
      /\ \A k \in 1..(off + l) : y[k] = IF k <= off THEN s[k] ELSE buf[k - off]
  <2>1. /\ a \o buf \in Seq(STRING) /\ Len(a \o buf) = Len(a) + Len(buf)
        /\ \A k \in 1..(Len(a) + Len(buf)) :
              (a \o buf)[k] = IF k <= Len(a) THEN a[k] ELSE buf[k - Len(a)]
    BY <1>4, ConcatProperties
  <2>2. \A k \in 1..(off + l) : k <= off => k \in 1..off
    BY <1>1
  <2>3. QED BY <1>4, <1>7, <2>1, <2>2
<1>9. w = y \o z
  BY <1>3, <1>5, <1>7 DEF Files!Overwrite
<1>10. /\ y \o z \in Seq(STRING) /\ Len(y \o z) = Len(y) + Len(z)
       /\ \A k \in 1..(Len(y) + Len(z)) :
             (y \o z)[k] = IF k <= Len(y) THEN y[k] ELSE z[k - Len(y)]
  <2>1. y \in Seq(STRING) /\ z \in Seq(STRING)
    BY <1>6, <1>8
  <2>2. QED BY <2>1, ConcatProperties
<1>11. Len(y) = off + l /\ Len(y) + Len(z) = M
  <2>1. Len(y) = off + l /\ Len(z) = M - (off + l)
    BY <1>6, <1>8
  <2>2. \A e, m \in Int : e + (m - e) = m
    OBVIOUS
  <2>3. off + l \in Int /\ M \in Int
    BY <1>1
  <2>4. Len(y) + Len(z) = (off + l) + (M - (off + l))
    BY <2>1, Zenon
  <2>5. (off + l) + (M - (off + l)) = M
    BY <2>2, <2>3, Zenon
  <2>6. QED BY <2>1, <2>4, <2>5, Zenon
<1>12. ASSUME NEW k \in 1..M
       PROVE  (y \o z)[k] = IF k <= off \/ k > off + l THEN s[k] ELSE buf[k - off]
  <2>1. CASE k <= off + l
    <3>1. k \in 1..(off + l)
      BY <1>1, <2>1
    <3>2. (y \o z)[k] = y[k]
      BY <1>8, <1>10, <1>11, <2>1
    <3>3. QED BY <1>1, <1>8, <2>1, <3>1, <3>2
  <2>2. CASE k > off + l
    <3>1. k - (off + l) \in 1..(M - (off + l)) /\ off + l + (k - (off + l)) = k /\ ~(k <= off + l)
      BY <1>1, <1>e, <2>2
    <3>2. (y \o z)[k] = z[k - (off + l)]
      BY <1>10, <1>11, <3>1
    <3>3. z[k - (off + l)] = s[off + l + (k - (off + l))]
      BY <1>6, <3>1
    <3>4. QED BY <2>2, <3>1, <3>2, <3>3
  <2>3. k <= off + l \/ k > off + l
    BY <1>1
  <2>4. QED BY <2>1, <2>2, <2>3
<1>13. QED BY <1>0, <1>9, <1>10, <1>11, <1>12

\* What kind of object a path is, and what the code looks for in the table.
LEMMA KindIs ==
    ASSUME NEW t \in [Inodes -> InodeType], Unique(t), NEW p \in Paths
    PROVE  /\ TreeOf(t)[p] = ObjectAt(t, p)
           /\ Lookup(t, p) = -1 <=> TreeOf(t)[p] = None
           /\ Lookup(t, p) >= 0 /\ t[Lookup(t, p)].type = "FS_DIR" <=> TreeOf(t)[p] = Dir
           /\ Lookup(t, p) >= 0 /\ t[Lookup(t, p)].type = "FS_FILE"
                 <=> TreeOf(t)[p].kind = "file"
<1>1. TreeOf(t)[p] = ObjectAt(t, p)
  BY DEF TreeOf
<1>2. CASE Lookup(t, p) = -1
  <2>1. ObjectAt(t, p) = None
    BY <1>2 DEF ObjectAt, None
  <2>2. ~(Lookup(t, p) >= 0)
    BY <1>2
  <2>3. QED BY <1>1, <1>2, <2>1, <2>2, KindsOf, Zenon
<1>3. CASE Lookup(t, p) # -1
  <2>1. PICK i : i = Lookup(t, p)
    OBVIOUS
  <2>2. i \in Inodes /\ i >= 0 /\ i # -1 /\ ~(i < 0)
    <3>1. i \in Inodes
      BY <1>3, <2>1, LookupIs
    <3>2. QED BY <3>1, InodesAreNat
  <2>3. t[i].type \in {"FS_FILE", "FS_DIR"}
    BY <2>2 DEF InodeType
  <2>4. ObjectAt(t, p) = IF t[i].type = "FS_DIR" THEN Dir ELSE File(fisopfs_read(t, i))
    BY <2>1, <2>2 DEF ObjectAt, Dir, File
  <2>5. CASE t[i].type = "FS_DIR"
    <3>1. ObjectAt(t, p) = Dir /\ t[i].type # "FS_FILE"
      BY <2>4, <2>5
    <3>2. QED BY <1>1, <2>1, <2>2, <2>5, <3>1, KindsOf, Zenon
  <2>6. CASE t[i].type = "FS_FILE"
    <3>1. ObjectAt(t, p) = File(fisopfs_read(t, i)) /\ t[i].type # "FS_DIR"
      BY <2>4, <2>6
    <3>2. QED BY <1>1, <2>1, <2>2, <2>6, <3>1, KindsOf, Zenon
  <2>7. QED BY <2>3, <2>5, <2>6
<1>4. QED BY <1>2, <1>3

\* A change of one inode that leaves it clean.
LEMMA CleanChange ==
    ASSUME NEW t, NEW u, NEW i \in Inodes, i # 0, SameBut(t, u, i), Clean(t), CleanFile(u[i])
    PROVE  Clean(u)
BY InodesAreNat DEF Clean, SameBut

\* What create_file stores is clean, and so is a table without files.
LEMMA NewIsClean ==
    /\ \A p, type : CleanFile(NewInode(p, type))
    /\ Clean(FreshImage.inodes)
<1>1. 0 < MAX_CONTENT /\ \A k \in Positions : k >= 0 /\ NoContent[k] = NUL
  BY FsAssumption, PositionsAreNat DEF NoContent
<1>2. ASSUME NEW p, NEW type PROVE CleanFile(NewInode(p, type))
  <2>1. NewInode(p, type).size = 0 /\ NewInode(p, type).content = NoContent
    BY DEF NewInode
  <2>2. QED BY <1>1, <2>1 DEF CleanFile, EndsAt
<1>3. FreshImage.inodes = [ZeroTable EXCEPT ![0] = RootInode]
  BY DEF FreshImage, Image
<1>4. ZeroInode.directory_path = EmptyString
  BY DEF ZeroInode
<1>5. RootInode.directory_path = EmptyString
  <2>1. RootInode = [ZeroInode EXCEPT !.path = ROOT_PATH, !.size = MAX_CONTENT]
    BY DEF RootInode
  <2>2. RootInode.directory_path = ZeroInode.directory_path
    BY <2>1 DEF ZeroInode
  <2>3. QED BY <1>4, <2>2
<1>6. CleanFile(RootInode) /\ CleanFile(ZeroInode)
  BY InodeTypes DEF CleanFile
<1>7. FreshImage.inodes[0] = RootInode
      /\ \A i \in Inodes : FreshImage.inodes[i] \in {RootInode, ZeroInode}
  BY <1>3, InodesAreNat DEF ZeroTable
<1>8. QED BY <1>2, <1>5, <1>6, <1>7 DEF Clean

\* While the file system stays mounted, the tree is that of the table.
LEMMA MountedTree ==
    ASSUME mnt = "mounted", mnt' = mnt, disk' = disk
    PROVE  /\ Tree = TreeOf(inodes) /\ Tree' = TreeOf(inodes')
           /\ Saved' = Saved
           /\ mnt # "saving" /\ mnt' # "saving"
<1>1. mnt' = "mounted"
  OBVIOUS
<1>2. Tree = TreeOf(inodes) /\ Tree' = TreeOf(inodes')
  BY <1>1 DEF Tree
<1>3. Saved' = Saved
  BY <1>1 DEF Saved
<1>4. QED BY <1>1, <1>2, <1>3

\* An operation that leaves the table, the image and the mount.
LEMMA SameTree ==
    ASSUME StoreInv, FsInv', UNCHANGED <<inodes, disk, mnt>>,
           \A q \in open' : q \in open \/ Tree[q].kind = "file"
    PROVE  StoreInv' /\ Tree' = Tree /\ Saved' = Saved
<1>1. Tree' = Tree /\ Saved' = Saved
  BY DEF Tree, Saved
<1>2. \A q \in open' : Tree'[q].kind = "file"
  BY <1>1 DEF StoreInv
<1>3. QED BY <1>1, <1>2 DEF StoreInv

\* An operation on the inode of one path, and what it does to the tree.
LEMMA InodeChange ==
    ASSUME PlainNames, StoreInv, FsInv', mnt = "mounted", UNCHANGED <<disk, mnt>>,
           NEW p \in Paths, NEW i \in Inodes, i # 0, SameBut(inodes, inodes', i),
           inodes[i].path \in {EmptyString, remove_slash(p)},
           inodes'[i].path \in {EmptyString, remove_slash(p)},
           CleanFile(inodes'[i]),
           \A q \in open' : q \in open \/ q = p,
           p \in open' => ObjectAt(inodes', p).kind = "file"
    PROVE  StoreInv' /\ Tree' = [Tree EXCEPT ![p] = ObjectAt(inodes', p)]
<1>1. Tree = TreeOf(inodes) /\ Tree' = TreeOf(inodes')
  BY MountedTree
<1>2. TreeOf(inodes') = [TreeOf(inodes) EXCEPT ![p] = ObjectAt(inodes', p)]
  BY TreeChange
<1>3. Clean(inodes')
  <2>1. Clean(inodes)
    BY DEF StoreInv
  <2>2. QED BY <2>1, CleanChange
<1>4. ASSUME NEW q \in open' PROVE Tree'[q].kind = "file"
  <2>1. q \in Paths
    BY DEF FsInv, Paths
  <2>2. Tree[q] = TreeOf(inodes)[q] /\ q \in DOMAIN TreeOf(inodes)
    BY <1>1, <2>1 DEF TreeOf
  <2>3. CASE q = p
    <3>1. Tree'[q] = ObjectAt(inodes', p)
      BY <1>1, <1>2, <2>2, <2>3
    <3>2. QED BY <2>3, <3>1
  <2>4. CASE q # p
    <3>1. Tree'[q] = Tree[q] /\ q \in open
      BY <1>1, <1>2, <2>2, <2>4
    <3>2. QED BY <3>1 DEF StoreInv
  <2>5. QED BY <2>3, <2>4
<1>5. Clean(disk.inodes)'
  <2>1. Clean(disk.inodes)
    BY DEF StoreInv
  <2>2. QED BY <2>1
<1>6. StoreInv'
  <2>1. Clean(inodes)'
    BY <1>3
  <2>2. QED BY <1>4, <1>5, <2>1 DEF StoreInv
<1>7. QED BY <1>1, <1>2, <1>6

\* The inode of a path that is found is not the root.
LEMMA FoundInode ==
    ASSUME GoodTable(inodes, bitmap_inodes), NEW p \in Paths, get_index_inodo(p) >= 0,
           NEW i, i = get_index_inodo(p)
    PROVE  /\ i \in Inodes /\ i # 0 /\ inodes[i] \in InodeType
           /\ inodes[i].path = remove_slash(p)
           /\ Lookup(inodes, p) = i /\ Lookup(inodes, p) >= 0
<1>1. Lookup(inodes, p) = i /\ Lookup(inodes, p) >= 0 /\ Lookup(inodes, p) # -1
  <2>1. Lookup(inodes, p) = i /\ Lookup(inodes, p) >= 0
    BY DEF get_index_inodo
  <2>2. QED BY <2>1
<1>2. i \in Inodes /\ inodes[i].path = remove_slash(p)
  BY <1>1, LookupIs
<1>3. i # 0
  BY <1>2, NameOfPath DEF GoodTable, Rooted
<1>4. inodes[i] \in InodeType
  BY <1>2 DEF GoodTable, TableType
<1>5. QED BY <1>1, <1>2, <1>3, <1>4

\* Who opens a file finds it in the tree.
LEMMA OpenFiles ==
    ASSUME StoreInv, FsInv', NEW p \in FilePaths, Open(p)
    PROVE  StoreInv' /\ FileStep
<1>1. /\ mnt = "mounted" /\ IsFile(p) /\ open' = open \cup {p} /\ p \in Paths
      /\ UNCHANGED <<inodes, bitmap_inodes, disk, mnt, ret>>
  BY DEF Open, Walk, Paths
<1>2. Tree[p].kind = "file"
  <2>1. Tree = TreeOf(inodes)
    BY <1>1, MountedTree
  <2>2. inodes \in [Inodes -> InodeType] /\ Unique(inodes)
    BY <1>1 DEF StoreInv, FsInv, GoodTable, TableType
  <2>3. Lookup(inodes, p) >= 0 /\ inodes[Lookup(inodes, p)].type = "FS_FILE"
    BY <1>1 DEF IsFile, get_index_inodo
  <2>4. QED BY <1>1, <2>1, <2>2, <2>3, KindIs
<1>3. StoreInv' /\ Tree' = Tree /\ Saved' = Saved
  BY <1>1, <1>2, SameTree
<1>4. Files!Open(p)
  BY <1>1, <1>2, <1>3 DEF Files!Open, Tree, Saved
<1>5. QED BY <1>3, <1>4 DEF FileStep, Files!Next

\* A close changes nothing else.
LEMMA CloseFiles ==
    ASSUME StoreInv, FsInv', NEW p \in FilePaths, Close(p)
    PROVE  StoreInv' /\ FileStep
<1>1. open' = open \ {p} /\ UNCHANGED <<inodes, bitmap_inodes, disk, mnt, ret>>
  BY DEF Close
<1>2. StoreInv' /\ Tree' = Tree /\ Saved' = Saved
  BY <1>1, SameTree
<1>3. Files!Close(p)
  BY <1>1, <1>2 DEF Files!Close, Tree, Saved
<1>4. QED BY <1>2, <1>3 DEF FileStep, Files!Next

\* Nothing is left under a path whose inode lost its name.
LEMMA NothingLeft ==
    ASSUME NEW t, Unique(t), NEW u, Unique(u), NEW p \in Paths, NEW i \in Inodes,
           SameBut(t, u, i), t[i].path = remove_slash(p), u[i].path = EmptyString
    PROVE  ObjectAt(u, p) = None
<1>1. remove_slash(p) # EmptyString
  BY NameOfPath
<1>2. ASSUME NEW j \in Inodes PROVE u[j].path # remove_slash(p)
  <2>1. CASE j = i
    BY <1>1, <2>1
  <2>2. CASE j # i
    <3>1. u[j] = t[j]
      BY <2>2 DEF SameBut
    <3>2. QED BY <1>1, <2>2, <3>1 DEF Unique
  <2>3. QED BY <2>1, <2>2
<1>3. QED BY <1>2, ObjectIs

\* unlink takes the file out of the tree.
LEMMA UnlinkFiles ==
    ASSUME PlainNames, StoreInv, FsInv', NEW p \in FilePaths, fisopfs_unlink(p)
    PROVE  StoreInv' /\ FileStep
<1>1. PICK i : i = get_index_inodo(p)
  OBVIOUS
<1>2. /\ mnt = "mounted" /\ mnt' = mnt /\ p \in Paths /\ p \notin open
      /\ IsFile(p) /\ ret' = "OK" /\ disk' = disk /\ open' = open
      /\ inodes' = [inodes EXCEPT ![i].content = NoContent, ![i].path = EmptyString]
  BY <1>1 DEF fisopfs_unlink, Walk, Paths
<1>3. GoodTable(inodes, bitmap_inodes) /\ GoodTable(inodes, bitmap_inodes)'
  BY <1>2 DEF StoreInv, FsInv
<1>4. inodes \in [Inodes -> InodeType] /\ Unique(inodes)
  BY <1>3 DEF GoodTable, TableType
<1>5. inodes' \in [Inodes -> InodeType] /\ Unique(inodes')
  BY <1>3 DEF GoodTable, TableType
<1>6. get_index_inodo(p) >= 0 /\ inodes[get_index_inodo(p)].type = "FS_FILE"
  BY <1>2 DEF IsFile
<1>7. /\ i \in Inodes /\ i # 0 /\ inodes[i] \in InodeType
      /\ inodes[i].path = remove_slash(p)
      /\ Lookup(inodes, p) = i /\ Lookup(inodes, p) >= 0
  BY <1>1, <1>2, <1>3, <1>6, FoundInode
<1>8. SameBut(inodes, inodes', i)
  BY <1>2, <1>4 DEF SameBut
<1>9. inodes'[i].path = EmptyString
  BY <1>2, <1>4, <1>7 DEF InodeType
<1>10. CleanFile(inodes'[i])
  BY <1>9 DEF CleanFile
<1>11. ObjectAt(inodes', p) = None
  BY <1>2, <1>4, <1>5, <1>7, <1>8, <1>9, NothingLeft
<1>12. StoreInv' /\ Tree' = [Tree EXCEPT ![p] = ObjectAt(inodes', p)]
  <2>1. /\ inodes[i].path \in {EmptyString, remove_slash(p)}
        /\ inodes'[i].path \in {EmptyString, remove_slash(p)}
        /\ UNCHANGED <<disk, mnt>> /\ p \notin open'
        /\ \A q \in open' : q \in open \/ q = p
    BY <1>2, <1>7, <1>9
  <2>2. p \in Paths /\ i \in Inodes /\ i # 0 /\ SameBut(inodes, inodes', i)
    BY <1>2, <1>7, <1>8
  <2>3. QED BY <1>2, <1>10, <2>1, <2>2, InodeChange
<1>13. Tree = TreeOf(inodes) /\ Saved' = Saved
  BY <1>2, MountedTree
<1>14. Tree[p].kind = "file"
  BY <1>1, <1>2, <1>4, <1>6, <1>7, <1>13, KindIs
<1>15. Files!Set(p, Files!None)
  BY <1>2, <1>11, <1>12 DEF Files!Set, Files!None, None, Tree
<1>16. Files!Remove(p)
  BY <1>2, <1>13, <1>14, <1>15 DEF Files!Remove, Tree, Saved
<1>17. QED BY <1>12, <1>16 DEF FileStep, Files!Next

\* A truncate to the present size changes nothing; one that is too long fails.
LEMMA TruncateFiles ==
    ASSUME Usage = {}, StoreInv, FsInv', NEW p \in FilePaths,
           NEW size \in 0..(MAX_CONTENT + 1), fisopfs_truncate(p, size)
    PROVE  StoreInv' /\ FileStep
<1>1. PICK i : i = get_index_inodo(p)
  OBVIOUS
<1>2. /\ mnt = "mounted" /\ mnt' = mnt /\ p \in Paths /\ disk' = disk /\ open' = open
      /\ IsFile(p) /\ "resize" \notin Usage
  BY DEF fisopfs_truncate, Walk, Paths
<1>3. get_index_inodo(p) >= 0 /\ inodes[get_index_inodo(p)].type = "FS_FILE"
  BY <1>2 DEF IsFile
<1>4. GoodTable(inodes, bitmap_inodes)
  BY <1>2 DEF StoreInv, FsInv
<1>5. inodes \in [Inodes -> InodeType] /\ Unique(inodes)
  BY <1>4 DEF GoodTable, TableType
<1>6. /\ i \in Inodes /\ i # 0 /\ inodes[i] \in InodeType
      /\ inodes[i].path = remove_slash(p)
      /\ Lookup(inodes, p) = i /\ Lookup(inodes, p) >= 0
  BY <1>1, <1>2, <1>3, <1>4, FoundInode
<1>7. inodes' = inodes /\ ret' \in {"OK", "ENOENT"}
  <2>1. CASE Fails("ENOENT")
    BY <2>1 DEF Fails
  <2>2. CASE ~(size > MAX_CONTENT) /\ inodes' = [inodes EXCEPT ![i].size = size] /\ ret' = "OK"
    <3>1. inodes[i].size = size
      BY <1>1, <1>2, <2>2 DEF fisopfs_truncate
    <3>2. [inodes[i] EXCEPT !.size = size] = inodes[i]
      BY <1>6, <3>1 DEF InodeType
    <3>3. [inodes EXCEPT ![i].size = size] = inodes
      BY <1>5, <1>6, <3>2
    <3>4. QED BY <2>2, <3>3
  <2>3. QED BY <1>1, <2>1, <2>2, Zenon DEF fisopfs_truncate
<1>8. StoreInv' /\ Tree' = Tree /\ Saved' = Saved
  <2>1. UNCHANGED <<inodes, disk, mnt>> /\ \A q \in open' : q \in open \/ Tree[q].kind = "file"
    BY <1>2, <1>7
  <2>2. QED BY <2>1, SameTree
<1>9. Tree[p].kind = "file"
  <2>1. Tree = TreeOf(inodes)
    BY <1>2, MountedTree
  <2>2. QED BY <1>1, <1>2, <1>3, <1>5, <1>6, <2>1, KindIs
<1>10. Files!Truncate(p)
  BY <1>2, <1>7, <1>8, <1>9 DEF Files!Truncate, Tree, Saved
<1>11. QED BY <1>8, <1>10 DEF FileStep, Files!Next

\* What fisopfs_init finds is the tree of the last unmount.
LEMMA MountFiles ==
    ASSUME StoreInv, FsInv', fisopfs_init
    PROVE  StoreInv' /\ FileStep
<1>1. /\ mnt = "down" /\ mnt' = "mounted" /\ inodes' = disk.inodes
      /\ disk' = disk /\ open' = open /\ ret' = ret
  BY DEF fisopfs_init
<1>2. open = {}
  BY <1>1 DEF StoreInv, FsInv
<1>3. Clean(inodes)' /\ Clean(disk.inodes)'
  BY <1>1 DEF StoreInv
<1>4. StoreInv'
  BY <1>1, <1>2, <1>3 DEF StoreInv
<1>5. Tree' = TreeOf(disk.inodes) /\ Saved' = TreeOf(disk.inodes) /\ Saved = TreeOf(disk.inodes)
  BY <1>1 DEF Tree, Saved
<1>6. Files!Mount
  BY <1>1, <1>5 DEF Files!Mount, Tree, Saved
<1>7. QED BY <1>4, <1>6 DEF FileStep, Files!Next

\* An unmount makes the tree safe before the first byte is out: from then on
\* nothing but the end of the save can happen.
LEMMA UnmountFiles ==
    ASSUME StoreInv, FsInv', SaveStart
    PROVE  StoreInv' /\ FileStep
<1>1. /\ mnt = "mounted" /\ mnt' = "saving" /\ inodes' = inodes /\ open = {}
      /\ open' = open /\ ret' = ret
  BY DEF SaveStart
<1>2. Clean(inodes)'
  BY <1>1 DEF StoreInv
<1>3. StoreInv'
  BY <1>1, <1>2 DEF StoreInv
<1>4. Tree = TreeOf(inodes) /\ Tree' = TreeOf(ZeroTable) /\ Saved' = TreeOf(inodes)
  BY <1>1 DEF Tree, Saved
<1>5. Tree' = Files!Empty
  BY <1>4, EmptyTrees DEF Files!Empty, Files!Paths, Files!None, Paths, None
<1>6. Files!Unmount
  BY <1>1, <1>4, <1>5 DEF Files!Unmount, Tree, Saved
<1>7. QED BY <1>3, <1>6 DEF FileStep, Files!Next

\* The end of a save changes nothing that a program could see.
LEMMA SavedFiles ==
    ASSUME StoreInv, FsInv', SaveEnd
    PROVE  StoreInv' /\ FileStep
<1>1. /\ mnt = "saving" /\ mnt' = "down" /\ disk' = Image(inodes, bitmap_inodes, TRUE)
      /\ open' = open /\ ret' = ret
  BY DEF SaveEnd
<1>2. disk'.inodes = inodes
  BY <1>1 DEF Image
<1>3. Clean(disk.inodes)'
  BY <1>1, <1>2 DEF StoreInv
<1>4. open = {}
  BY <1>1 DEF StoreInv, FsInv
<1>5. StoreInv'
  BY <1>1, <1>3, <1>4 DEF StoreInv
<1>6. /\ Tree = TreeOf(ZeroTable) /\ Tree' = TreeOf(ZeroTable)
      /\ Saved = TreeOf(inodes) /\ Saved' = TreeOf(inodes)
  BY <1>1, <1>2 DEF Tree, Saved
<1>7. UNCHANGED Files!vars
  BY <1>1, <1>6 DEF Files!vars, Tree, Saved
<1>8. QED BY <1>5, <1>7 DEF FileStep

\* A crash of the mounted process brings back the last unmount.
LEMMA CrashFiles ==
    ASSUME Usage = {}, StoreInv, FsInv', Crash
    PROVE  StoreInv' /\ FileStep
<1>1. /\ mnt = "mounted" /\ mnt' = "down" /\ disk' = disk /\ open' = {} /\ ret' = ret
  BY DEF Crash
<1>2. Clean(disk.inodes)'
  BY <1>1 DEF StoreInv
<1>3. StoreInv'
  BY <1>1, <1>2 DEF StoreInv
<1>4. Tree' = TreeOf(ZeroTable) /\ Saved = TreeOf(disk.inodes) /\ Saved' = TreeOf(disk.inodes)
  BY <1>1 DEF Tree, Saved
<1>5. Tree' = Files!Empty
  BY <1>4, EmptyTrees DEF Files!Empty, Files!Paths, Files!None, Paths, None
<1>6. Files!Crash
  BY <1>1, <1>4, <1>5 DEF Files!Crash, Tree, Saved
<1>7. QED BY <1>3, <1>6 DEF FileStep, Files!Next

\* The kernel has found the directory in which the tree says a new object goes.
LEMMA ParentInTree ==
    ASSUME GoodTable(inodes, bitmap_inodes), PlainNames, mnt = "mounted",
           NEW p \in Paths, Walk(p)
    PROVE  Files!HasParent(p)
<1>1. PICK d : d = get_path_padre(p)
  OBVIOUS
<1>2. Files!Parent(p) = d
  BY <1>1, Zenon DEF Files!Parent, get_path_padre
<1>3. CASE d = ROOT_PATH
  BY <1>2, <1>3 DEF Files!HasParent, ROOT_PATH
<1>4. CASE d # ROOT_PATH
  <2>1. PICK j : j = Lookup(inodes, d)
    OBVIOUS
  <2>2. /\ d \in Seq(STRING) /\ Len(d) = 1 /\ remove_slash(d) = d /\ IsDir(d)
        /\ Lookup(inodes, d) \in Inodes /\ inodes[Lookup(inodes, d)].path = d
    BY <1>1, <1>4, ParentOf
  <2>3. d # EmptyString
    <3>1. p \in Seq(STRING) /\ Len(p) > 0 /\ \A k \in 1..Len(p) : p[k] # NUL
      BY FsAssumption DEF Paths
    <3>2. Len(d) = Len(p) - 1
      BY <1>1, ParentIsPath
    <3>3. PICK n : n = Len(p) - 1
      OBVIOUS
    <3>4. n = 1
      BY <2>2, <3>2, <3>3, Zenon
    <3>5. \A k \in 1..n : p[k] \in STRING
      BY <3>1, <3>3
    <3>6. d = SubSeq(p, 1, n)
      BY <1>1, <3>3, Zenon DEF get_path_padre
    <3>7. \A k \in 1..(n - 1 + 1) : SubSeq(p, 1, n)[k] = p[1 + k - 1]
      <4>1. n \in Int /\ 1 \in Int
        BY <3>4
      <4>2. QED BY <3>5, <4>1, SubSeqProperties
    <3>8. d[1] = p[1]
      BY <3>4, <3>6, <3>7
    <3>9. p[1] # NUL
      BY <3>1
    <3>10. EmptyString[1] = NUL
      BY DEF EmptyString
    <3>11. QED BY <3>8, <3>9, <3>10
  <2>4. j \in Inodes /\ inodes[j].path = d /\ inodes[j].type = "FS_DIR" /\ j >= 0
    BY <2>1, <2>2 DEF IsDir, get_index_inodo
  <2>5. j # 0
    BY <1>4, <2>4 DEF GoodTable, Rooted
  <2>6. PICK q \in Paths : MadeFrom(inodes[j], q)
    BY <2>3, <2>4, <2>5 DEF GoodTable, Placed
  <2>7. q \in DirPaths /\ remove_slash(q) = d
    BY <2>4, <2>6 DEF MadeFrom
  <2>8. q \in Seq(STRING) /\ Len(q) = 1
    <3>1. q \in Seq(STRING)
      BY <2>6, FsAssumption DEF Paths
    <3>2. QED BY <2>7, <3>1 DEF PlainNames
  <2>9. q = d
    BY <2>7, <2>8, OneName
  <2>10. TreeOf(inodes)[d] = Dir
    <3>1. inodes \in [Inodes -> InodeType] /\ Unique(inodes)
      BY DEF GoodTable, TableType
    <3>2. d \in Paths /\ Lookup(inodes, d) >= 0 /\ inodes[Lookup(inodes, d)].type = "FS_DIR"
      BY <2>1, <2>4, <2>6, <2>9
    <3>3. QED BY <3>1, <3>2, KindIs
  <2>11. QED BY <1>2, <2>10 DEF Files!HasParent, Files!Dir, Dir
<1>5. QED BY <1>3, <1>4

\* create_file puts an object into the tree, or finds it full.
LEMMA AddFiles ==
    ASSUME PlainNames, StoreInv, FsInv', NEW p \in Paths, Walk(p), get_index_inodo(p) = -1,
           NEW type \in {"FS_FILE", "FS_DIR"}, create_file(p, type), UNCHANGED <<disk, mnt>>,
           NEW o, o = IF type = "FS_DIR" THEN Dir ELSE File(<<>>),
           \A q \in open' : q \in open \/ (q = p /\ type = "FS_FILE" /\ ret' = "OK")
    PROVE  /\ StoreInv'
           /\ Files!Add(p, o)
           /\ ret' = "OK" <=> ~Files!IsFull
<1>1. mnt = "mounted" /\ mnt' = mnt /\ disk' = disk
  BY DEF Walk
<1>2. GoodTable(inodes, bitmap_inodes) /\ GoodTable(inodes, bitmap_inodes)'
  BY <1>1 DEF StoreInv, FsInv
<1>3. inodes \in [Inodes -> InodeType] /\ Unique(inodes)
  BY <1>2 DEF GoodTable, TableType
<1>4. inodes' \in [Inodes -> InodeType] /\ Unique(inodes')
  BY <1>2 DEF GoodTable, TableType
<1>5. Tree = TreeOf(inodes) /\ Tree' = TreeOf(inodes') /\ Saved' = Saved
  BY <1>1, MountedTree
<1>6. Tree[p] = None /\ p \notin open
  <2>1. Tree[p] = None
    BY <1>3, <1>5, KindIs DEF get_index_inodo
  <2>2. QED BY <2>1, KindsOf DEF StoreInv
<1>7. \A i \in Inodes : inodes[i].path # remove_slash(p)
  <2>1. Lookup(inodes, p) = -1
    BY DEF get_index_inodo
  <2>2. QED BY <2>1, LookupIs, InodesAreNat
<1>8. Files!HasParent(p)
  BY <1>1, <1>2, ParentInTree
<1>9. Files!IsFull <=> FreeInodes = {}
  BY <1>1, <1>2, FullIs
<1>10. ~NameTaken(remove_slash(p))
  BY <1>7 DEF NameTaken
<1>11. CASE FreeInodes = {} /\ Fails("ENOSPC")
  <2>1. inodes' = inodes /\ ret' = "ENOSPC"
    BY <1>11 DEF Fails
  <2>2. "ENOSPC" # "OK"
    OBVIOUS
  <2>3. \A q \in open' : q \in open \/ Tree[q].kind = "file"
    BY <2>1, <2>2
  <2>4. StoreInv' /\ Tree' = Tree
    BY <1>1, <2>1, <2>3, SameTree
  <2>5. Files!Fail("ENOSPC")
    BY <2>1, <2>4 DEF Files!Fail, Tree
  <2>6. Files!Add(p, o)
    BY <1>1, <1>5, <1>6, <1>8, <1>9, <1>11, <2>5 DEF Files!Add, Files!None, None, Tree, Saved
  <2>7. QED BY <1>9, <1>11, <2>1, <2>2, <2>4, <2>6
<1>12. CASE /\ FreeInodes # {}
            /\ inodes' = [inodes EXCEPT ![LowestOf(FreeInodes)] = NewInode(p, type)]
            /\ ret' = "OK"
  <2>1. PICK i : i = LowestOf(FreeInodes)
    OBVIOUS
  <2>2. i \in Inodes /\ bitmap_inodes[i] = 0
    BY <1>12, <2>1, LowestFree
  <2>3. i # 0 /\ inodes[i].path = EmptyString
    BY <1>2, <2>2 DEF GoodTable, Rooted, Named
  <2>4. inodes' = [inodes EXCEPT ![i] = NewInode(p, type)]
    BY <1>12, <2>1
  <2>5. inodes'[i] = NewInode(p, type) /\ SameBut(inodes, inodes', i)
    BY <1>3, <2>2, <2>4 DEF SameBut
  <2>6. /\ inodes'[i].path = remove_slash(p) /\ inodes'[i].type = type
        /\ inodes'[i].size = 0 /\ CleanFile(inodes'[i])
    <3>1. NewInode(p, type).size = 0
      BY DEF NewInode
    <3>2. QED BY <2>5, <3>1, NewInodeIs, NewIsClean
  <2>7. ObjectAt(inodes', p) = IF type = "FS_DIR" THEN Dir ELSE File(fisopfs_read(inodes', i))
    BY <1>4, <2>2, <2>6, ObjectIs
  <2>8. \A q \in open' : q \in open \/ q = p
    OBVIOUS
  <2>9. p \in open' => ObjectAt(inodes', p).kind = "file"
    <3>1. SUFFICES ASSUME p \in open' PROVE ObjectAt(inodes', p).kind = "file"
      OBVIOUS
    <3>2. type = "FS_FILE" /\ type # "FS_DIR"
      BY <1>6, <3>1
    <3>3. ObjectAt(inodes', p) = File(fisopfs_read(inodes', i))
      BY <2>7, <3>2
    <3>4. QED BY <3>3, KindsOf
  <2>10. StoreInv' /\ Tree' = [Tree EXCEPT ![p] = ObjectAt(inodes', p)]
    BY <1>1, <2>2, <2>3, <2>5, <2>6, <2>8, <2>9, InodeChange
  <2>11. ObjectAt(inodes', p) = o
    <3>1. CASE type = "FS_DIR"
      BY <2>7, <3>1
    <3>2. CASE type = "FS_FILE"
      <4>1. type # "FS_DIR" /\ inodes'[i].path # EmptyString /\ inodes'[i].type = "FS_FILE"
        BY <2>6, <3>2, NameOfPath
      <4>2. Clean(inodes')
        BY <1>1, <2>10 DEF StoreInv
      <4>3. Holds(fisopfs_read(inodes', i), inodes'[i].content, inodes'[i].size)
        BY <1>4, <2>2, <4>1, <4>2, ReadIs
      <4>4. fisopfs_read(inodes', i) = <<>>
        BY <2>6, <4>3, EmptySeq DEF Holds
      <4>5. QED BY <2>7, <4>1, <4>4
    <3>3. QED BY <3>1, <3>2
  <2>12. Files!Set(p, o)
    BY <1>12, <2>10, <2>11 DEF Files!Set, Tree
  <2>13. Files!Add(p, o)
    BY <1>1, <1>5, <1>6, <1>8, <1>9, <1>12, <2>12 DEF Files!Add, Files!None, None, Tree, Saved
  <2>14. QED BY <1>9, <1>12, <2>10, <2>13
<1>13. QED BY <1>10, <1>11, <1>12, Zenon DEF create_file

\* touch makes an empty file and opens it.
LEMMA TouchFiles ==
    ASSUME PlainNames, StoreInv, FsInv', NEW p \in FilePaths, fisopfs_touch(p)
    PROVE  StoreInv' /\ FileStep
<1>1. /\ Walk(p) /\ get_index_inodo(p) = -1 /\ create_file(p, "FS_FILE")
      /\ open' = (IF ret' = "OK" THEN open \cup {p} ELSE open)
      /\ UNCHANGED <<disk, mnt>> /\ p \in Paths
  BY DEF fisopfs_touch, Paths
<1>2. PICK o : o = File(<<>>)
  OBVIOUS
<1>3. "FS_FILE" # "FS_DIR"
  OBVIOUS
<1>4. StoreInv' /\ Files!Add(p, o) /\ (ret' = "OK" <=> ~Files!IsFull)
  <2>1. \A q \in open' : q \in open \/ (q = p /\ "FS_FILE" = "FS_FILE" /\ ret' = "OK")
    BY <1>1
  <2>2. o = IF "FS_FILE" = "FS_DIR" THEN Dir ELSE File(<<>>)
    BY <1>2, <1>3
  <2>3. "FS_FILE" \in {"FS_FILE", "FS_DIR"}
    OBVIOUS
  <2>4. QED BY <1>1, <2>1, <2>2, <2>3, AddFiles
<1>5. Files!CreateFile(p)
  <2>1. o = Files!File(<<>>)
    BY <1>2 DEF File, Files!File
  <2>2. open' = IF Files!IsFull THEN open ELSE open \cup {p}
    BY <1>1, <1>4
  <2>3. QED BY <1>4, <2>1, <2>2 DEF Files!CreateFile
<1>6. QED BY <1>4, <1>5 DEF FileStep, Files!Next

\* mkdir makes a directory.
LEMMA MkdirFiles ==
    ASSUME PlainNames, StoreInv, FsInv', NEW p \in DirPaths, fisopfs_mkdir(p)
    PROVE  StoreInv' /\ FileStep
<1>1. /\ Walk(p) /\ get_index_inodo(p) = -1 /\ create_file(p, "FS_DIR")
      /\ open' = open /\ UNCHANGED <<disk, mnt>> /\ p \in Paths
  BY DEF fisopfs_mkdir, Paths
<1>2. StoreInv' /\ Files!Add(p, Dir)
  <2>1. \A q \in open' : q \in open \/ (q = p /\ "FS_DIR" = "FS_FILE" /\ ret' = "OK")
    BY <1>1
  <2>2. Dir = IF "FS_DIR" = "FS_DIR" THEN Dir ELSE File(<<>>)
    OBVIOUS
  <2>3. "FS_DIR" \in {"FS_FILE", "FS_DIR"}
    OBVIOUS
  <2>4. QED BY <1>1, <2>1, <2>2, <2>3, AddFiles
<1>3. Files!MakeDir(p)
  BY <1>1, <1>2 DEF Files!MakeDir, Files!Dir, Dir
<1>4. QED BY <1>2, <1>3 DEF FileStep, Files!Next

\* What is read after a write is what was there with the buffer in place.
LEMMA ReadAfter ==
    ASSUME TextBuffers, NEW c \in [Positions -> STRING], NEW n \in Nat, n < MAX_CONTENT,
           NEW off \in Nat, off <= n, NEW buf \in Buffers, off + Len(buf) < MAX_CONTENT,
           NEW s, Holds(s, c, n),
           NEW r, Holds(r, strncpy(c, off, buf), EndOf(n, off, Len(buf)))
    PROVE  r = Files!Overwrite(s, off, buf)
<1>1. buf \in Seq(STRING) /\ MAX_CONTENT \in Nat
  BY FsAssumption
<1>2. PICK l : l = Len(buf)
  OBVIOUS
<1>0. PICK M : M = EndOf(n, off, l)
  OBVIOUS
<1>3. l \in Nat /\ M \in Nat /\ off + l < MAX_CONTENT /\ M < MAX_CONTENT
      /\ M = (IF n > off + l THEN n ELSE off + l)
  BY <1>0, <1>1, <1>2 DEF EndOf
<1>s. s \in Seq(STRING) /\ Len(s) = n /\ \A k \in 1..n : s[k] = c[k - 1]
  BY DEF Holds
<1>r. r \in Seq(STRING) /\ Len(r) = M /\ \A k \in 1..M : r[k] = strncpy(c, off, buf)[k - 1]
  BY <1>0, <1>2 DEF Holds
<1>4. PICK w : w = Files!Overwrite(s, off, buf)
  OBVIOUS
<1>5. /\ w \in Seq(STRING) /\ Len(w) = EndOf(n, off, l)
      /\ \A k \in 1..EndOf(n, off, l) :
            w[k] = IF k <= off \/ k > off + l THEN s[k] ELSE buf[k - off]
  <2>1. s \in Seq(STRING) /\ n = Len(s) /\ buf \in Seq(STRING) /\ l = Len(buf)
    BY <1>1, <1>2, <1>s
  <2>2. QED BY ONLY <1>4, <2>1, off \in Nat, off <= n, OverwriteIs
<1>6. ASSUME NEW k \in 1..M PROVE r[k] = w[k]
  <2>1. w[k] = IF k <= off \/ k > off + l THEN s[k] ELSE buf[k - off]
    BY <1>0, <1>5
  <2>2. k \in Nat /\ k >= 1 /\ k <= M /\ k - 1 \in Positions
    BY <1>1, <1>3 DEF Positions
  <2>3. PICK x : x = k - 1
    OBVIOUS
  <2>4. strncpy(c, off, buf)[x] =
           IF x < off \/ x >= off + Len(buf) THEN c[x] ELSE buf[x - off + 1]
    <3>1. TextBuffers /\ x \in Positions
      BY <2>2, <2>3
    <3>2. QED BY ONLY <3>1, TextCopied, off \in Nat, buf \in Buffers
  <2>5. r[k] = IF x < off \/ x >= off + l THEN c[x] ELSE buf[x - off + 1]
    BY <1>2, <1>r, <2>3, <2>4
  <2>6. (x < off <=> k <= off) /\ (x >= off + l <=> k > off + l)
    BY <1>3, <2>2, <2>3
  <2>7. CASE k <= off \/ k > off + l
    <3>1. k \in 1..n
      BY <1>3, <2>2, <2>7
    <3>2. s[k] = c[x]
      BY <1>s, <2>3, <3>1
    <3>3. QED BY <2>1, <2>5, <2>6, <2>7, <3>2
  <2>8. CASE ~(k <= off \/ k > off + l)
    <3>1. x - off + 1 = k - off
      BY <2>2, <2>3
    <3>2. QED BY <2>1, <2>5, <2>6, <2>8, <3>1
  <2>9. QED BY <2>7, <2>8
<1>7. w \in Seq(STRING) /\ Len(w) = M
  BY <1>0, <1>5
<1>8. r = w
  BY <1>6, <1>7, <1>r, SeqEqual
<1>9. QED BY <1>4, <1>8

\* A write replaces bytes of the file or makes it longer, and keeps it clean.
LEMMA WriteFiles ==
    ASSUME Usage = {}, PlainNames, TextBuffers, StoreInv, FsInv', NEW p \in FilePaths,
           NEW off \in 0..MAX_CONTENT, NEW buf \in Buffers, fisopfs_write(p, off, buf)
    PROVE  StoreInv' /\ FileStep
<1>1. /\ p \in open /\ p \in Paths /\ mnt = "mounted" /\ mnt' = mnt /\ disk' = disk
      /\ open' = open /\ off + Len(buf) # MAX_CONTENT /\ write_file(p, off, buf)
  BY DEF fisopfs_write, Paths, StoreInv, FsInv
<1>2. GoodTable(inodes, bitmap_inodes) /\ GoodTable(inodes, bitmap_inodes)'
  BY <1>1 DEF StoreInv, FsInv
<1>3. inodes \in [Inodes -> InodeType] /\ Unique(inodes)
  BY <1>2 DEF GoodTable, TableType
<1>4. inodes' \in [Inodes -> InodeType] /\ Unique(inodes')
  BY <1>2 DEF GoodTable, TableType
<1>5. Tree = TreeOf(inodes) /\ Tree' = TreeOf(inodes') /\ Saved' = Saved
  BY <1>1, MountedTree
<1>6. Tree[p].kind = "file"
  BY <1>1 DEF StoreInv
<1>7. Lookup(inodes, p) >= 0 /\ inodes[Lookup(inodes, p)].type = "FS_FILE"
  BY <1>1, <1>3, <1>5, <1>6, KindIs
<1>8. PICK i : i = get_index_inodo(p)
  OBVIOUS
<1>9. get_index_inodo(p) >= 0
  BY <1>7 DEF get_index_inodo
<1>10. /\ i \in Inodes /\ i # 0 /\ inodes[i] \in InodeType
       /\ inodes[i].path = remove_slash(p)
       /\ Lookup(inodes, p) = i /\ Lookup(inodes, p) >= 0
  BY <1>1, <1>2, <1>8, <1>9, FoundInode
<1>11. /\ inodes[i].type = "FS_FILE" /\ inodes[i].type # "FS_DIR"
       /\ inodes[i].path # EmptyString
  BY <1>1, <1>7, <1>10, NameOfPath
<1>12. Clean(inodes)
  BY <1>1 DEF StoreInv
<1> DEFINE n == inodes[i].size
           c == inodes[i].content
           s == fisopfs_read(inodes, i)
<1>13. Holds(s, c, n) /\ Len(s) = n /\ n \in Nat /\ n < MAX_CONTENT
  <2>1. Holds(s, c, n) /\ n \in Nat /\ n < MAX_CONTENT
    BY <1>3, <1>10, <1>11, <1>12, ReadIs
  <2>2. QED BY <2>1 DEF Holds
<1>14. Tree[p] = File(s) /\ Tree[p].data = s
  <2>1. TreeOf(inodes)[p] = ObjectAt(inodes, p)
    BY <1>1, <1>3, KindIs
  <2>2. ObjectAt(inodes, p) = File(s)
    BY <1>1, <1>3, <1>10, <1>11, ObjectIs
  <2>3. QED BY <1>5, <2>1, <2>2, KindsOf
<1>15. off \in Nat /\ MAX_CONTENT \in Nat /\ buf \in Seq(STRING)
  BY FsAssumption
<1>16. CASE off + Len(buf) > MAX_CONTENT
  <2>1. inodes' = inodes /\ ret' = "EFBIG"
    BY <1>1, <1>16 DEF write_file, Fails
  <2>2. StoreInv' /\ Tree' = Tree
    BY <1>1, <2>1, SameTree
  <2>3. Files!Fail("EFBIG")
    BY <2>1, <2>2 DEF Files!Fail, Tree
  <2>4. Files!Write(p, off, buf)
    BY <1>1, <1>5, <1>16, <2>3 DEF Files!Write, Saved
  <2>5. QED BY <2>2, <2>4 DEF FileStep, Files!Next
<1>17. CASE ~(off + Len(buf) > MAX_CONTENT)
  <2>1. WriteInode(inodes, i, off, buf)
    BY <1>1, <1>8, <1>9, <1>17 DEF write_file
  <2>2. CASE n < off
    <3>1. inodes' = inodes /\ ret' = "EINVAL"
      BY <2>1, <2>2 DEF WriteInode
    <3>2. StoreInv' /\ Tree' = Tree
      BY <1>1, <3>1, SameTree
    <3>3. Files!Fail("EINVAL")
      BY <3>1, <3>2 DEF Files!Fail, Tree
    <3>4. off > Len(Tree[p].data)
      BY <1>13, <1>14, <1>15, <2>2
    <3>5. Files!Write(p, off, buf)
      BY <1>1, <1>5, <1>17, <3>3, <3>4 DEF Files!Write, Saved, Tree
    <3>6. QED BY <3>2, <3>5 DEF FileStep, Files!Next
  <2>3. CASE ~(n < off)
    <3> DEFINE d == inodes[i].directory_path
               M == EndOf(n, off, Len(buf))
               e == strncpy(c, off, buf)
               r == fisopfs_read(inodes', i)
    <3>1. inodes' = [inodes EXCEPT ![i] = Written(inodes[i], off, buf)] /\ ret' = "OK"
      BY <1>11, <2>1, <2>3 DEF WriteInode
    <3>2. /\ c \in [Positions -> STRING] /\ off <= n /\ off + Len(buf) < MAX_CONTENT
          /\ EndsAt(c, n)
      <4>1. c \in [Positions -> STRING]
        BY <1>10 DEF InodeType
      <4>2. off <= n /\ off + Len(buf) < MAX_CONTENT
        <5>1. PICK l : l = Len(buf)
          OBVIOUS
        <5>2. l \in Nat /\ off + l # MAX_CONTENT /\ ~(off + l > MAX_CONTENT)
          BY <1>1, <1>15, <1>17, <5>1
        <5>3. off <= n /\ off + l < MAX_CONTENT
          BY <1>13, <1>15, <2>3, <5>2
        <5>4. QED BY <5>1, <5>3
      <4>3. EndsAt(c, n)
        BY <1>10, <1>11, <1>12 DEF Clean, CleanFile
      <4>4. QED BY <4>1, <4>2, <4>3
    <3> HIDE DEF n, c
    <3>3. /\ M \in Nat /\ M < MAX_CONTENT
          /\ EndsAt(e, M)
          /\ strlen(e, d) = M
      BY ONLY <1>13, <1>15, <3>2, TextBuffers, buf \in Buffers, LongerOf
    <3>4. inodes'[i] = [inodes[i] EXCEPT !.content = e, !.size = strlen(e, d)]
          /\ SameBut(inodes, inodes', i)
      BY <1>3, <1>10, <3>1 DEF SameBut, Written, c
    <3> HIDE DEF M, e, d
    <3>5. /\ inodes'[i].path = inodes[i].path /\ inodes'[i].type = inodes[i].type
          /\ inodes'[i].content = e /\ inodes'[i].size = M
      BY <1>10, <3>3, <3>4 DEF InodeType
    <3>6. CleanFile(inodes'[i])
      BY <3>3, <3>5 DEF CleanFile
    <3>7. ObjectAt(inodes', p) = File(r)
      <4>1. inodes'[i].path = remove_slash(p) /\ inodes'[i].type # "FS_DIR"
        BY <1>10, <1>11, <3>5
      <4>2. QED BY <1>1, <1>4, <1>10, <4>1, ObjectIs
    <3>8. StoreInv' /\ Tree' = [Tree EXCEPT ![p] = ObjectAt(inodes', p)]
      <4>1. ObjectAt(inodes', p).kind = "file"
        BY <3>7, KindsOf
      <4>2. inodes'[i].path \in {EmptyString, remove_slash(p)}
            /\ inodes[i].path \in {EmptyString, remove_slash(p)}
        BY <1>10, <3>5
      <4>3. \A q \in open' : q \in open \/ q = p
        BY <1>1
      <4>4. QED BY <1>1, <1>10, <3>4, <3>6, <4>1, <4>2, <4>3, InodeChange
    <3>9. Holds(r, e, M)
      <4>1. Clean(inodes')
        BY <1>1, <3>8 DEF StoreInv
      <4>2. inodes'[i].path # EmptyString /\ inodes'[i].type = "FS_FILE"
        BY <1>11, <3>5
      <4>3. Holds(r, inodes'[i].content, inodes'[i].size)
        BY <1>4, <1>10, <4>1, <4>2, ReadIs
      <4>4. QED BY <3>5, <4>3
    <3>10. r = Files!Overwrite(s, off, buf)
      <4>1. Holds(r, strncpy(c, off, buf), EndOf(n, off, Len(buf)))
        BY <3>9 DEF e, M
      <4> HIDE DEF r, s
      <4>2. QED BY ONLY <1>13, <1>15, <3>2, <4>1, TextBuffers, buf \in Buffers, ReadAfter
    <3>11. Files!Set(p, Files!File(Files!Overwrite(Tree[p].data, off, buf)))
      BY <1>14, <3>1, <3>7, <3>8, <3>10 DEF Files!Set, Files!File, File, Tree
    <3>12. ~(off > Len(Tree[p].data))
      BY <1>13, <1>14, <1>15, <3>2
    <3>13. Files!Write(p, off, buf)
      BY <1>1, <1>5, <1>17, <3>11, <3>12 DEF Files!Write, Saved, Tree
    <3>14. QED BY <3>8, <3>13 DEF FileStep, Files!Next
  <2>4. QED BY <2>2, <2>3
<1>18. QED BY <1>16, <1>17

\* What delete_dir takes for the content of a directory is what the tree has
\* below it, as long as all of it is in use.
LEMMA BelowIs ==
    ASSUME GoodTable(inodes, bitmap_inodes), Clean(inodes), PlainNames, mnt = "mounted",
           NEW p \in DirPaths, \A j \in ChildInodes(p) : bitmap_inodes[j] = 1
    PROVE  Files!Below(p) = {} <=> ChildInodes(p) = {}
<1>1. inodes \in [Inodes -> InodeType] /\ Unique(inodes)
  BY DEF GoodTable, TableType
<1>2. Tree = TreeOf(inodes)
  BY DEF Tree
<1>3. p \in Paths /\ Len(p) = 1 /\ p \in Seq(STRING)
  BY FsAssumption DEF Paths, PlainNames
<1>4. remove_slash(p) = p /\ p # ROOT_PATH /\ p # EmptyString
  <2>1. remove_slash(p) = p /\ p # ROOT_PATH
    BY <1>3, OneName
  <2>2. remove_slash(p) # EmptyString
    BY <1>3, NameOfPath
  <2>3. QED BY <2>1, <2>2
<1>5. ASSUME NEW q \in Files!Below(p) PROVE ChildInodes(p) # {}
  <2>1. q \in Paths /\ get_path_padre(q) = p /\ Tree[q] # None
    BY DEF Files!Below, Files!Paths, Paths, Files!Parent, get_path_padre, Files!None, None, Tree
  <2>2. PICK j : j = Lookup(inodes, q)
    OBVIOUS
  <2>3. Lookup(inodes, q) # -1
    BY <1>1, <1>2, <2>1, KindIs
  <2>4. j \in Inodes /\ inodes[j].path = remove_slash(q)
    BY <2>1, <2>2, <2>3, LookupIs
  <2>5. j # 0 /\ inodes[j].path # EmptyString
    BY <2>1, <2>4, NameOfPath DEF GoodTable, Rooted
  <2>6. PICK r \in Paths : MadeFrom(inodes[j], r)
    BY <2>4, <2>5 DEF GoodTable, Placed
  <2>7. r = q
    BY <2>1, <2>4, <2>6 DEF MadeFrom, PlainNames
  <2>8. inodes[j].type \in {"FS_FILE", "FS_DIR"}
    BY <1>1, <2>4 DEF InodeType
  <2>9. CASE inodes[j].type = "FS_FILE"
    <3>1. inodes[j].directory_path = p
      BY <2>1, <2>6, <2>7, <2>9 DEF MadeFrom
    <3>2. QED BY <1>4, <2>4, <3>1 DEF ChildInodes
  <2>10. CASE inodes[j].type = "FS_DIR"
    <3>1. q \in DirPaths
      BY <2>6, <2>7, <2>10 DEF MadeFrom
    <3>2. Len(q) = 1
      BY <3>1 DEF PlainNames
    <3>3. Len(get_path_padre(q)) = Len(q) - 1
      BY <2>1, ParentIsPath
    <3>4. Len(p) = 0
      BY <2>1, <3>2, <3>3
    <3>5. QED BY <1>3, <3>4
  <2>11. QED BY <2>8, <2>9, <2>10
<1>6. ASSUME NEW j \in ChildInodes(p) PROVE Files!Below(p) # {}
  <2>1. j \in Inodes /\ inodes[j].directory_path = p /\ bitmap_inodes[j] = 1
    BY <1>4 DEF ChildInodes
  <2>2. j # 0 /\ inodes[j].path # EmptyString
    BY <1>4, <2>1 DEF Clean, GoodTable, Named
  <2>3. PICK q \in Paths : MadeFrom(inodes[j], q)
    BY <2>1, <2>2 DEF GoodTable, Placed
  <2>4. inodes[j].type \in {"FS_FILE", "FS_DIR"}
    BY <1>1, <2>1 DEF InodeType
  <2>5. inodes[j].type # "FS_DIR"
    BY <1>4, <2>1, <2>3 DEF MadeFrom
  <2>6. get_path_padre(q) = p /\ inodes[j].path = remove_slash(q)
    BY <2>1, <2>3, <2>4, <2>5 DEF MadeFrom
  <2>7. ObjectAt(inodes, q) = File(fisopfs_read(inodes, j))
    BY <1>1, <2>1, <2>3, <2>5, <2>6, ObjectIs
  <2>8. Tree[q] # None
    BY <1>2, <2>3, <2>7, KindsOf DEF TreeOf
  <2>9. q \in Files!Below(p)
    BY <2>3, <2>6, <2>8
       DEF Files!Below, Files!Paths, Paths, Files!Parent, get_path_padre, Files!None, None, Tree
  <2>10. QED BY <2>9
<1>7. QED BY <1>5, <1>6

\* rmdir takes an empty directory out of the tree and refuses any other.
LEMMA RmdirFiles ==
    ASSUME Usage = {}, PlainNames, StoreInv, FsInv', NEW p \in DirPaths, fisopfs_rmdir(p)
    PROVE  StoreInv' /\ FileStep
<1>1. PICK i : i = get_index_inodo(p)
  OBVIOUS
<1>2. /\ mnt = "mounted" /\ mnt' = mnt /\ disk' = disk /\ open' = open
      /\ p \in Paths /\ IsDir(p) /\ "reuse" \notin Usage
  BY DEF fisopfs_rmdir, Walk, Paths
<1>3. \A j \in ChildInodes(p) : bitmap_inodes[j] = 1
  BY <1>2 DEF fisopfs_rmdir
<1>4. GoodTable(inodes, bitmap_inodes) /\ GoodTable(inodes, bitmap_inodes)'
  BY <1>2 DEF StoreInv, FsInv
<1>5. inodes \in [Inodes -> InodeType] /\ Unique(inodes)
  BY <1>4 DEF GoodTable, TableType
<1>6. inodes' \in [Inodes -> InodeType] /\ Unique(inodes')
  BY <1>4 DEF GoodTable, TableType
<1>7. Tree = TreeOf(inodes) /\ Saved' = Saved
  BY <1>2, MountedTree
<1>8. get_index_inodo(p) >= 0 /\ inodes[get_index_inodo(p)].type = "FS_DIR"
  BY <1>2 DEF IsDir
<1>9. /\ i \in Inodes /\ i # 0 /\ inodes[i].path = remove_slash(p)
      /\ Lookup(inodes, p) = i /\ Lookup(inodes, p) >= 0
  BY <1>1, <1>2, <1>4, <1>8, FoundInode
<1>10. Tree[p] = Dir
  BY <1>1, <1>2, <1>5, <1>7, <1>8, <1>9, KindIs
<1>11. p \notin open
  BY <1>10, KindsOf DEF StoreInv
<1>12. Files!Below(p) = {} <=> ChildInodes(p) = {}
  <2>1. Clean(inodes)
    BY <1>2 DEF StoreInv
  <2>2. QED BY <1>2, <1>3, <1>4, <2>1, BelowIs
<1>13. CASE ChildInodes(p) # {} /\ Fails("ENOTEMPTY")
  <2>1. inodes' = inodes /\ ret' = "ENOTEMPTY"
    BY <1>13 DEF Fails
  <2>2. StoreInv' /\ Tree' = Tree
    BY <1>2, <2>1, SameTree
  <2>3. Files!Fail("ENOTEMPTY")
    BY <2>1, <2>2 DEF Files!Fail, Tree
  <2>4. Files!RemoveDir(p)
    BY <1>2, <1>7, <1>10, <1>12, <1>13, <2>3 DEF Files!RemoveDir, Files!Dir, Dir, Tree, Saved
  <2>5. QED BY <2>2, <2>4 DEF FileStep, Files!Next
<1>14. CASE /\ ChildInodes(p) = {} /\ inodes' = [inodes EXCEPT ![i] = ZeroInode] /\ ret' = "OK"
  <2>1. SameBut(inodes, inodes', i) /\ inodes'[i].path = EmptyString
    BY <1>5, <1>9, <1>14, InodeTypes DEF SameBut
  <2>2. CleanFile(inodes'[i])
    BY <2>1 DEF CleanFile
  <2>3. ObjectAt(inodes', p) = None
    BY <1>2, <1>5, <1>6, <1>9, <2>1, NothingLeft
  <2>4. StoreInv' /\ Tree' = [Tree EXCEPT ![p] = ObjectAt(inodes', p)]
    BY <1>2, <1>9, <1>11, <2>1, <2>2, InodeChange
  <2>5. Files!Set(p, Files!None)
    BY <1>14, <2>3, <2>4 DEF Files!Set, Files!None, None, Tree
  <2>6. Files!RemoveDir(p)
    BY <1>2, <1>7, <1>10, <1>12, <1>14, <2>5 DEF Files!RemoveDir, Files!Dir, Dir, Tree, Saved
  <2>7. QED BY <2>4, <2>6 DEF FileStep, Files!Next
<1>15. QED BY <1>1, <1>13, <1>14, Zenon DEF fisopfs_rmdir

\* The fresh image is an empty tree.
LEMMA StoreStarts == Init => StoreInv /\ Files!Init
<1> SUFFICES ASSUME Init PROVE StoreInv /\ Files!Init
  OBVIOUS
<1>1. FsInv
  BY FsStarts
<1>2. mnt = "down" /\ open = {} /\ ret = "OK" /\ disk = FreshImage
  BY DEF Init
<1>3. StoreInv
  BY <1>1, <1>2, NewIsClean DEF StoreInv
<1>4. Tree = TreeOf(ZeroTable) /\ Saved = TreeOf(FreshImage.inodes)
  BY <1>2 DEF Tree, Saved
<1>5. Tree = Files!Empty /\ Saved = Files!Empty
  BY <1>4, EmptyTrees DEF Files!Empty, Files!Paths, Files!None, Paths, None
<1>6. Files!Init
  BY <1>2, <1>5 DEF Files!Init, Tree, Saved
<1>7. QED BY <1>3, <1>6

\* Every step of fisopfs is a step of the file store or changes nothing there.
LEMMA FilesStep ==
    ASSUME Usage = {}, PlainNames, TextBuffers, StoreInv, [Next]_vars
    PROVE  StoreInv' /\ FileStep
<1>1. FsInv'
  <2>1. "torn" \notin Usage /\ FsInv
    BY DEF StoreInv
  <2>2. QED BY <2>1, FsStep
<1>2. CASE UNCHANGED vars
  <2>1. UNCHANGED <<inodes, bitmap_inodes, disk, mnt, open, ret>>
    BY <1>2 DEF vars
  <2>2. StoreInv' /\ Tree' = Tree /\ Saved' = Saved
    BY <1>1, <2>1, SameTree
  <2>3. UNCHANGED Files!vars
    BY <2>1, <2>2 DEF Files!vars, Tree, Saved
  <2>4. QED BY <2>2, <2>3 DEF FileStep
<1>3. CASE Next
  BY <1>1, <1>3, TouchFiles, OpenFiles, CloseFiles, UnlinkFiles, WriteFiles, TruncateFiles,
     MkdirFiles, RmdirFiles, MountFiles, UnmountFiles, SavedFiles, CrashFiles, Zenon DEF Next
<1>4. QED BY <1>2, <1>3

\* fisopfs implements the file store (IsFileStore): for every size of the table
\* and of a content, every set of plain names and every text that is written,
\* each operation has the effect and the reply that the tree of files and
\* directories promises, an unmount keeps the tree and a crash brings back the
\* last one.  Usage = {} excludes what the code is known to do otherwise.
THEOREM FsIsFileStore ==
    ASSUME Usage = {}, PlainNames, TextBuffers PROVE Spec => IsFileStore
<1>1. Init => StoreInv /\ Files!Init
  BY StoreStarts
<1>2. StoreInv /\ [Next]_vars => StoreInv' /\ [Files!Next]_(Files!vars)
  BY FilesStep DEF FileStep
<1>3. QED BY <1>1, <1>2, PTL DEF Spec, IsFileStore, Files!Spec
=============================================================================
