------------------------------ MODULE MCFiles -------------------------------
(***************************************************************************)
(* Files on a small volume, and the closed form of a read against the      *)
(* recursions of the code.                                                 *)
(*                                                                         *)
(* The volume has clusters of two sectors of two bytes.  File a is in      *)
(* clusters 2, 4, 5 and b in 3, between them.  Directory d has c in 6, 8   *)
(* and x, whose chain is broken, behind an entry that was deleted.         *)
(***************************************************************************)
EXTENDS Files

CONSTANT SectorSize    \* COS32_SECTOR_SIZE

ASSUME SectorAssumption == SectorSize \in Nat \ {0}

Entry(name, dir, cluster, size) ==
    [name |-> name, dir |-> dir, cluster |-> cluster, size |-> size]

MCCluster == 2 .. 9
EndOfChain == 65535
Bad == 4087
MCfat == [c \in MCCluster |->
            CASE c = 2 -> 4
              [] c = 4 -> 5
              [] c = 6 -> 8
              [] c = 7 -> Bad
              [] OTHER -> EndOfChain]
MCFailing == {0, Bad, 4080, 4086, 4088, 4095}
MCRoot == <<Entry("a", FALSE, 2, 10), Entry("b", FALSE, 3, 4), Entry("d", TRUE, 9, 0)>>
MCSub == [c \in {9} |->
            <<Entry("c", FALSE, 6, 6), Entry("deleted", FALSE, 0, 0), Entry("x", FALSE, 7, 7)>>]
MCPart == {"a", "b", "c", "d", "x", "z", "empty"}
MCPaths == [drive : {0}, parts : {<<>>, <<"a">>, <<"b">>, <<"d">>, <<"d", "c">>, <<"d", "x">>,
                                  <<"a", "c">>, <<"z", "c">>, <<"d", "empty", "c">>}]
           \cup [drive : {1}, parts : {<<"a">>}]
MCReads == {<<1, 1>>, <<2, 3>>, <<3, 2>>, <<4, 1>>, <<6, 1>>, <<7, 1>>, <<10, 1>>}

-----------------------------------------------------------------------------
(***************************************************************************)
(* diskstreamer_read: the bytes up to the end of the sector, and what is   *)
(* left by a call of itself.                                               *)
(***************************************************************************)
StreamRead(total, pos) ==
    LET read[left \in 0 .. total] ==
          LET at       == pos + total - left
              overflow == (at % SectorSize) + left >= SectorSize
              here     == IF overflow THEN SectorSize - (at % SectorSize) ELSE left
              bytes    == [i \in 1 .. here |-> at + i - 1]
          IN  IF overflow THEN bytes \o read[left - here] ELSE bytes
    IN  read[total]

(* fat16_read_internal_from_stream, from one cluster to the next. *)
ReadLoop(first, start, size) ==
    LET read[total \in 1 .. size] ==
          LET offset  == start + size - total
              cluster == ClusterAt(first, offset \div ClusterSize)
              here    == IF total > ClusterSize THEN ClusterSize ELSE total
              bytes   == StreamRead(here, ClusterPos(cluster) + (offset % ClusterSize))
              rest    == read[total - here]
          IN  IF cluster = EIO THEN <<EIO>>
              ELSE IF total - here > 0 THEN bytes \o rest
              ELSE bytes
    IN  read[size]

(* For every open file, from its position on, the bytes of a read are      *)
(* those the recursions of fat16_read_internal_from_stream and             *)
(* diskstreamer_read arrive at, and it fails where they do.                *)
ReadIsLoop ==
    \A fd \in Fd : IsOpen(fd) /\ ~file_descriptors[fd].item.dir =>
        LET d == file_descriptors[fd]
        IN  \A size \in {r[1] : r \in Reads} :
                HasClusters(d.item, d.pos, size) =>
                    LET loop == ReadLoop(d.item.cluster, d.pos, size)
                    IN  IF ReadFails(d.item.cluster, d.pos, size)
                        THEN loop[Len(loop)] = EIO
                        ELSE loop = [i \in 1 .. size |-> ReadByte(d.item.cluster, d.pos, i - 1)]
=============================================================================
