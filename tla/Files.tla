------------------------------- MODULE Files --------------------------------
(***************************************************************************)
(* Files: the descriptors of fs/file.c over the FAT16 driver of            *)
(* fs/fat/fat16.c and the path parser.  The volume is read-only and so a   *)
(* constant.  A byte is named by its position on the disk.                 *)
(*                                                                         *)
(* The callers of the kernel look before they read: a directory is never   *)
(* read, nothing is read beyond the clusters of a file, and a descriptor   *)
(* is not used after fclose.                                               *)
(***************************************************************************)
EXTENDS Integers, Sequences, FiniteSets

CONSTANTS ClusterSize,     \* sectors_per_cluster * COS32_SECTOR_SIZE
          DataStart,       \* root_directory.ending_sector_pos, in bytes
          Cluster,         \* the numbers of the clusters
          fat,             \* cluster -> the entry of the file allocation table
          Failing,         \* the entries that make a read fail: bad, reserved, free
          Root,            \* the entries of the root directory
          Sub,             \* cluster of a directory -> its entries
          Deleted,         \* the name of an entry that is not used any more
          Empty,           \* a path part of no characters
          Part,            \* the parts of a path
          Paths,           \* the paths callers open
          Reads, Offsets,  \* what callers read, as <<size, nmemb>>, and seek to
          MaxPos,          \* bound: the position that seeks get to
          MaxDescriptors,  \* COS32_MAX_FILE_DESCRIPTORS
          NULL

ASSUME FilesAssumption ==
    /\ ClusterSize \in Nat \ {0}
    /\ DataStart \in Nat
    /\ Cluster \subseteq Nat \ {0, 1}
    /\ fat \in [Cluster -> Nat]
    /\ Failing \cap Cluster = {}
    /\ Paths \subseteq [drive : Nat, parts : Seq(Part)]
    /\ Reads \subseteq (Nat \ {0}) \X (Nat \ {0})
    /\ Offsets \subseteq Nat
    /\ MaxPos \in Nat
    /\ MaxDescriptors \in Nat \ {0}

(***************************************************************************)
(* What makes it a FAT16 volume: a directory is a sequence of entries with *)
(* different names, but for those that are deleted, and the cluster of a   *)
(* directory has one.                                                      *)
(***************************************************************************)
Directories == {Root} \cup {Sub[c] : c \in DOMAIN Sub}
Entries == UNION {{dir[i] : i \in 1 .. Len(dir)} : dir \in Directories}

ASSUME VolumeAssumption ==
    /\ \A dir \in Directories :
          /\ dir \in Seq(Entries)
          /\ \A i, j \in DOMAIN dir :
                dir[i].name = dir[j].name /\ dir[i].name # Deleted => i = j
    /\ \A e \in Entries : e.cluster \in Nat /\ (e.dir => e.cluster \in DOMAIN Sub)
    /\ NULL \notin Entries

VARIABLES file_descriptors,  \* file_descriptors, each with its private data
          result             \* what the last call returned

vars == <<file_descriptors, result>>

EIO == -1
Fd == 1 .. MaxDescriptors
IsOpen(fd) == file_descriptors[fd] # NULL /\ file_descriptors[fd].open

Init == /\ file_descriptors = [fd \in Fd |-> NULL]
        /\ result = [call |-> "init"]

-----------------------------------------------------------------------------
(* Paths *)

(* Seeded bug: the count is one short.                                     *)
TotalItemsShort(dir) == Cardinality({i \in DOMAIN dir : dir[i].name # Deleted}) - 1

(* fat16_get_total_items_for_directory skips the entries that are deleted. *)
TotalItems(dir) == Cardinality({i \in DOMAIN dir : dir[i].name # Deleted})

(***************************************************************************)
(* fat16_find_item_in_directory looks at as many entries as were counted,  *)
(* those that were skipped in the count included, and takes the last with  *)
(* the name.                                                               *)
(***************************************************************************)
FindItem(dir, name) ==
    LET matches == {i \in 1 .. TotalItems(dir) : dir[i].name = name}
    IN  IF matches = {} THEN NULL
        ELSE dir[CHOOSE i \in matches : \A j \in matches : j <= i]

(* pathparser_parse: the parts up to the first empty one. *)
Parts(path) ==
    LET empty == {i \in 1 .. Len(path.parts) : path.parts[i] = Empty}
    IN  IF empty = {} THEN path.parts
        ELSE SubSeq(path.parts, 1, (CHOOSE i \in empty : \A j \in empty : i <= j) - 1)

(* fat16_get_directory_entry, part by part.  A part under one that was not *)
(* found is looked for under NULL, which is no directory.                  *)
DirectoryEntry(parts) ==
    LET item[i \in 1 .. Len(parts)] ==
          IF i = 1 THEN FindItem(Root, parts[1])
          ELSE IF item[i - 1] = NULL THEN NULL
          ELSE IF ~item[i - 1].dir THEN NULL
          ELSE FindItem(Sub[item[i - 1].cluster], parts[i])
    IN  item[Len(parts)]

(* The item fopen gets from the file system, or NULL. *)
Opened(path) ==
    IF path.drive = 0 /\ Parts(path) # <<>> THEN DirectoryEntry(Parts(path)) ELSE NULL

-----------------------------------------------------------------------------
(* Bytes *)

(* fat16_cluster_to_sector, in bytes *)
ClusterPos(cluster) == DataStart + (cluster - 2) * ClusterSize

(* fat16_get_cluster_for_offset: n clusters on, or an error.  The marks    *)
(* that end a FAT16 chain are none of those the code looks for.            *)
ClusterAt(first, n) ==
    LET walk[i \in 0 .. n] ==
          IF i = 0 THEN first
          ELSE IF walk[i - 1] \notin Cluster THEN walk[i - 1]
          ELSE IF fat[walk[i - 1]] \in Failing THEN EIO
          ELSE fat[walk[i - 1]]
    IN  walk[n]

(* Where the volume has the byte of the file at offset. *)
ByteAt(item, offset) ==
    ClusterPos(ClusterAt(item.cluster, offset \div ClusterSize)) + (offset % ClusterSize)

(* Seeded bug: what is left is read from the cluster of the first piece.   *)
PieceAtStart(first, offset, k) == ClusterAt(first, offset \div ClusterSize)

(***************************************************************************)
(* fat16_read_internal_from_stream reads the bytes from offset in pieces   *)
(* of a cluster's size, each from where it starts in one cluster, and      *)
(* straight on even where that cluster ends.                               *)
(***************************************************************************)
Piece(first, offset, k) == ClusterAt(first, offset \div ClusterSize + k)

Pieces(total) == 0 .. (total - 1) \div ClusterSize

ReadFails(first, offset, total) ==
    \E k \in Pieces(total) : Piece(first, offset, k) = EIO

ReadByte(first, offset, i) ==
    ClusterPos(Piece(first, offset, i \div ClusterSize))
        + (offset % ClusterSize) + (i % ClusterSize)

(* The file has clusters for all the bytes that are read. *)
HasClusters(item, offset, total) ==
    \A n \in 0 .. (offset + total - 1) \div ClusterSize :
        ClusterAt(item.cluster, n) \in Cluster \cup {EIO}

-----------------------------------------------------------------------------
(* Seeded bug: the slot is not asked whether it is free.                   *)
AnySlot(fd) == fd \in Fd

(* file_new_descriptor: the first slot that was never used. *)
FreeSlot(fd) == /\ fd \in Fd
                /\ file_descriptors[fd] = NULL
                /\ \A f \in 1 .. fd - 1 : file_descriptors[f] # NULL

(* fopen, for reading *)
fopen(path) ==
    \/ /\ Opened(path) # NULL
       /\ \E fd \in Fd :
             /\ FreeSlot(fd)
             /\ file_descriptors' = [file_descriptors EXCEPT
                    ![fd] = [item |-> Opened(path), pos |-> 0, open |-> TRUE]]
             /\ result' = [call |-> "fopen", path |-> path, fd |-> fd]
    \/ /\ Opened(path) = NULL \/ \A fd \in Fd : ~FreeSlot(fd)
       /\ result' = [call |-> "fopen", path |-> path, fd |-> 0]
       /\ UNCHANGED file_descriptors

(* fread of nmemb elements of size bytes.  It leaves the position alone. *)
fread(fd, size, nmemb) ==
    LET d == file_descriptors[fd]
        offset(i) == d.pos + i * size
    IN  /\ IsOpen(fd)
        /\ ~d.item.dir
        /\ HasClusters(d.item, d.pos, size * nmemb)
        /\ result' =
             [call |-> "fread", item |-> d.item, pos |-> d.pos,
              size |-> size, nmemb |-> nmemb,
              ok |-> \A i \in 0 .. nmemb - 1 : ~ReadFails(d.item.cluster, offset(i), size),
              out |-> [j \in 0 .. size * nmemb - 1 |->
                         ReadByte(d.item.cluster, offset(j \div size), j % size)]]
        /\ UNCHANGED file_descriptors

(* fat16_seek asks whether offset is in the file, whence it is counted or not. *)
fseek(fd, offset, whence) ==
    LET d == file_descriptors[fd]
        to == IF whence = "SEEK_CUR" THEN d.pos + offset ELSE offset
        ok == ~d.item.dir /\ offset < d.item.size /\ whence # "SEEK_END"
    IN  /\ IsOpen(fd)
        /\ to <= MaxPos
        /\ file_descriptors' = IF ok THEN [file_descriptors EXCEPT ![fd].pos = to]
                               ELSE file_descriptors
        /\ result' = [call |-> "fseek", ok |-> ok]

(* fclose frees what the descriptor points to, and keeps the descriptor. *)
fclose(fd) ==
    /\ IsOpen(fd)
    /\ file_descriptors' = [file_descriptors EXCEPT ![fd].open = FALSE]
    /\ result' = [call |-> "fclose"]

Next == \/ \E path \in Paths : fopen(path)
        \/ \E fd \in Fd :
              \/ \E r \in Reads : fread(fd, r[1], r[2])
              \/ \E offset \in Offsets, whence \in {"SEEK_SET", "SEEK_CUR", "SEEK_END"} :
                    fseek(fd, offset, whence)
              \/ fclose(fd)

Spec == Init /\ [][Next]_vars
-----------------------------------------------------------------------------
(* The types of the variables. *)
Item == {Opened(path) : path \in Paths}
Descriptor == [item : Item, pos : 0 .. MaxPos, open : BOOLEAN]
TypeOK == file_descriptors \in [Fd -> Descriptor \cup {NULL}]

(* The ways through the directories that path part by part names.          *)
In(e, dir) == \E i \in 1 .. Len(dir) : dir[i] = e
Ways(parts) ==
    {w \in [1 .. Len(parts) -> Entries] :
        /\ In(w[1], Root)
        /\ \A i \in 1 .. Len(parts) : w[i].name = parts[i]
        /\ \A i \in 1 .. Len(parts) - 1 : w[i].dir /\ In(w[i + 1], Sub[w[i].cluster])}
Intact(dir) == \A i \in 1 .. Len(dir) : dir[i].name # Deleted
WayIntact(w, n) == Intact(Root) /\ \A i \in 1 .. n - 1 : Intact(Sub[w[i].cluster])

(* fopen opens the file the path names or none; and if no directory on the *)
(* way has a deleted entry, it opens none only if there is no such file or *)
(* every descriptor has been used (fat16_get_directory_entry).             *)
FindsNamedFile ==
    LET path == result.path
        n    == Len(path.parts)
    IN  result.call = "fopen" /\ path.drive = 0 /\ n > 0 /\ Parts(path) = path.parts =>
          IF result.fd # 0
          THEN \E w \in Ways(path.parts) : w[n] = file_descriptors[result.fd].item
          ELSE \/ \A fd \in Fd : file_descriptors[fd] # NULL
               \/ \A w \in Ways(path.parts) : ~WayIntact(w, n)

(* No element that is read crosses from one cluster into the next from the *)
(* middle of the first.                                                    *)
Straight(offset, size) ==
    offset % ClusterSize = 0 \/ (offset % ClusterSize) + size <= ClusterSize

ReadContents(r) ==
    r.ok => \A j \in DOMAIN r.out : r.out[j] = ByteAt(r.item, r.pos + j)

(* What fread returns are the bytes of the file from the position on,      *)
(* whichever files are read in turn with the same streams; and it fails    *)
(* only if the chain of the file's clusters is broken (fat16_read).        *)
ReadIsContents ==
    LET r == result
    IN  r.call = "fread" /\ (\A i \in 0 .. r.nmemb - 1 : Straight(r.pos + i * r.size, r.size)) =>
          /\ ReadContents(r)
          /\ ~r.ok => \E n \in 0 .. (r.pos + r.size * r.nmemb - 1) \div ClusterSize :
                         ClusterAt(r.item.cluster, n) = EIO

(* A descriptor that is open goes on to stand for the same file until it   *)
(* is closed, and fopen and fread leave its position alone                 *)
(* (file_new_descriptor).                                                  *)
OpenFileIsKept ==
    [][\A fd \in Fd :
          IsOpen(fd) =>
             /\ file_descriptors'[fd].item = file_descriptors[fd].item
             /\ file_descriptors'[fd].pos # file_descriptors[fd].pos => result'.call = "fseek"
             /\ ~file_descriptors'[fd].open => result'.call = "fclose"]_vars

-----------------------------------------------------------------------------
(* What fat16.c:348 says: if reading overlaps the end of a cluster, the    *)
(* next cluster is used.  So what is read are the bytes of the file,       *)
(* wherever in a cluster the read starts.                                  *)
OverlapUsesNextCluster == result.call = "fread" => ReadContents(result)
=============================================================================
