---------------------------- MODULE FilesProofs -----------------------------
(***************************************************************************)
(* For every volume: the descriptors of module Files, what a descriptor    *)
(* stands for and what a read of it returns, and the closed form of a read *)
(* against the recursions of module MCFiles.  For every disk and any       *)
(* number of descriptors: what module Loader loads and links from it.      *)
(***************************************************************************)
EXTENDS MCFiles, Loader, Lemmas, FiniteSetTheorems

LEMMA InitTypeOK == Init => TypeOK
BY DEF Init, TypeOK

(* The steps of one action at a time. *)
LEMMA FopenStep ==
    ASSUME TypeOK, NEW path \in Paths, fopen(path)
    PROVE  /\ TypeOK'
           /\ \A fd \in Fd : file_descriptors[fd] # NULL =>
                 file_descriptors'[fd] = file_descriptors[fd]
<1>1. CASE UNCHANGED file_descriptors
  BY <1>1 DEF TypeOK
<1>2. ASSUME NEW fd \in Fd, FreeSlot(fd),
             file_descriptors' = [file_descriptors EXCEPT
                 ![fd] = [item |-> Opened(path), pos |-> 0, open |-> TRUE]]
      PROVE  /\ TypeOK'
             /\ \A f \in Fd : file_descriptors[f] # NULL =>
                   file_descriptors'[f] = file_descriptors[f]
  <2>1. 0 \in 0 .. MaxPos
    BY FilesAssumption
  <2>2. [item |-> Opened(path), pos |-> 0, open |-> TRUE] \in Descriptor
    BY <2>1 DEF Descriptor, Item
  <2>3. QED
    BY <1>2, <2>2 DEF TypeOK, FreeSlot
<1>3. QED
  BY <1>1, <1>2 DEF fopen

LEMMA FseekStep ==
    ASSUME TypeOK, NEW fd \in Fd, NEW offset \in Offsets, NEW whence, fseek(fd, offset, whence)
    PROVE  /\ TypeOK'
           /\ result'.call = "fseek"
           /\ \A f \in Fd : IsOpen(f) =>
                 /\ file_descriptors'[f].item = file_descriptors[f].item
                 /\ file_descriptors'[f].open = file_descriptors[f].open
<1>1. result'.call = "fseek"
  BY DEF fseek
<1>2. CASE UNCHANGED file_descriptors
  BY <1>1, <1>2 DEF TypeOK
<1>3. ASSUME NEW to \in Int, to <= MaxPos, to >= 0,
             file_descriptors' = [file_descriptors EXCEPT ![fd].pos = to]
      PROVE  /\ TypeOK'
             /\ \A f \in Fd : IsOpen(f) =>
                   /\ file_descriptors'[f].item = file_descriptors[f].item
                   /\ file_descriptors'[f].open = file_descriptors[f].open
  <2>1. file_descriptors[fd] \in Descriptor
    BY DEF TypeOK, fseek, IsOpen
  <2>2. [file_descriptors[fd] EXCEPT !.pos = to] \in Descriptor
    BY <2>1, <1>3, FilesAssumption DEF Descriptor
  <2>3. QED
    BY <1>3, <2>1, <2>2 DEF TypeOK, IsOpen, Descriptor
<1>4. fseek(fd, offset, whence) =>
         \/ UNCHANGED file_descriptors
         \/ \E to \in Int : /\ to <= MaxPos /\ to >= 0
                            /\ file_descriptors' = [file_descriptors EXCEPT ![fd].pos = to]
  <2>1. offset \in Int /\ offset >= 0
    BY FilesAssumption
  <2>2. file_descriptors[fd].pos \in Int /\ file_descriptors[fd].pos >= 0
    BY FilesAssumption DEF TypeOK, fseek, IsOpen, Descriptor
  <2>3. QED
    BY <2>1, <2>2 DEF fseek
<1>5. QED
  BY <1>1, <1>2, <1>3, <1>4

LEMMA FcloseStep ==
    ASSUME TypeOK, NEW fd \in Fd, fclose(fd)
    PROVE  /\ TypeOK'
           /\ result'.call = "fclose"
           /\ \A f \in Fd : IsOpen(f) =>
                 /\ file_descriptors'[f].item = file_descriptors[f].item
                 /\ file_descriptors'[f].pos = file_descriptors[f].pos
<1>1. file_descriptors[fd] \in Descriptor
  BY DEF TypeOK, fclose, IsOpen
<1>2. [file_descriptors[fd] EXCEPT !.open = FALSE] \in Descriptor
  BY <1>1 DEF Descriptor
<1>3. QED
  BY <1>1, <1>2 DEF TypeOK, fclose, IsOpen, Descriptor

LEMMA StepTypeOK == TypeOK /\ [Next]_vars => TypeOK'
<1> SUFFICES ASSUME TypeOK, [Next]_vars PROVE TypeOK'
  OBVIOUS
<1>1. ASSUME NEW path \in Paths, fopen(path) PROVE TypeOK'
  BY <1>1, FopenStep
<1>2. ASSUME NEW fd \in Fd, NEW r \in Reads, fread(fd, r[1], r[2]) PROVE TypeOK'
  BY <1>2 DEF fread, TypeOK
<1>3. ASSUME NEW fd \in Fd, NEW offset \in Offsets, NEW whence \in {"SEEK_SET", "SEEK_CUR", "SEEK_END"},
             fseek(fd, offset, whence)
      PROVE  TypeOK'
  BY <1>3, FseekStep
<1>4. ASSUME NEW fd \in Fd, fclose(fd) PROVE TypeOK'
  BY <1>4, FcloseStep
<1>5. CASE UNCHANGED vars
  BY <1>5 DEF vars, TypeOK
<1>6. QED
  BY <1>1, <1>2, <1>3, <1>4, <1>5 DEF Next

(* Descriptors keep their types (file_new_descriptor, fat16_seek).         *)
THEOREM FilesTypes == Spec => []TypeOK
<1>1. QED
  BY InitTypeOK, StepTypeOK, PTL DEF Spec

LEMMA StepKeepsFile ==
    ASSUME TypeOK, [Next]_vars, NEW fd \in Fd, IsOpen(fd)
    PROVE  /\ file_descriptors'[fd].item = file_descriptors[fd].item
           /\ file_descriptors'[fd].pos # file_descriptors[fd].pos => result'.call = "fseek"
           /\ ~file_descriptors'[fd].open => result'.call = "fclose"
<1> DEFINE Kept == file_descriptors'[fd] = file_descriptors[fd]
           Goal == /\ file_descriptors'[fd].item = file_descriptors[fd].item
                   /\ file_descriptors'[fd].pos # file_descriptors[fd].pos => result'.call = "fseek"
                   /\ ~file_descriptors'[fd].open => result'.call = "fclose"
<1>0. Kept => Goal
  BY DEF IsOpen
<1>1. ASSUME NEW path \in Paths, fopen(path) PROVE Goal
  BY <1>0, <1>1, FopenStep DEF IsOpen
<1>2. ASSUME NEW f \in Fd, NEW r \in Reads, fread(f, r[1], r[2]) PROVE Goal
  BY <1>0, <1>2 DEF fread
<1>3. ASSUME NEW f \in Fd, NEW offset \in Offsets, NEW whence \in {"SEEK_SET", "SEEK_CUR", "SEEK_END"},
             fseek(f, offset, whence)
      PROVE  Goal
  BY <1>3, FseekStep DEF IsOpen
<1>4. ASSUME NEW f \in Fd, fclose(f) PROVE Goal
  BY <1>4, FcloseStep
<1>5. CASE UNCHANGED vars
  BY <1>0, <1>5 DEF vars
<1>6. QED
  BY <1>1, <1>2, <1>3, <1>4, <1>5 DEF Next

(* An open descriptor stands for the same file until it is closed, and     *)
(* only fseek moves its position (file_new_descriptor, fat16_seek).        *)
THEOREM OpenFilesKept == Spec => OpenFileIsKept
<1>1. TypeOK /\ [Next]_vars =>
         [\A fd \in Fd :
            IsOpen(fd) =>
               /\ file_descriptors'[fd].item = file_descriptors[fd].item
               /\ file_descriptors'[fd].pos # file_descriptors[fd].pos => result'.call = "fseek"
               /\ ~file_descriptors'[fd].open => result'.call = "fclose"]_vars
  BY StepKeepsFile
<1>2. QED
  BY <1>1, FilesTypes, PTL DEF Spec, OpenFileIsKept

-----------------------------------------------------------------------------
(* The directories of the volume, and what looking for a name in one finds. *)
LEMMA DirectoryFacts ==
  ASSUME NEW dir \in Directories
  PROVE  /\ dir \in Seq(Entries)
         /\ Len(dir) \in Nat /\ DOMAIN dir = 1 .. Len(dir)
         /\ \A i \in 1 .. Len(dir) : dir[i] \in Entries
         /\ \A i, j \in 1 .. Len(dir) : dir[i].name = dir[j].name /\ dir[i].name # Deleted => i = j
<1>1. dir \in Seq(Entries)
  BY VolumeAssumption
<1>2. Len(dir) \in Nat /\ DOMAIN dir = 1 .. Len(dir)
  BY <1>1
<1>3. QED
  BY <1>1, <1>2, VolumeAssumption

LEMMA CountedEntries ==
  ASSUME NEW dir \in Directories
  PROVE  /\ TotalItems(dir) \in 0 .. Len(dir)
         /\ Intact(dir) => TotalItems(dir) = Len(dir)
<1> DEFINE counted == {i \in 1 .. Len(dir) : dir[i].name # Deleted}
<1>1. Len(dir) \in Nat /\ TotalItems(dir) = Cardinality(counted)
  BY DirectoryFacts DEF TotalItems
<1>2. IsFiniteSet(1 .. Len(dir)) /\ Cardinality(1 .. Len(dir)) = Len(dir)
  <2>1. \A b \in Int : /\ IsFiniteSet(1 .. b)
                       /\ Cardinality(1 .. b) = IF 1 > b THEN 0 ELSE b - 1 + 1
    BY FS_Interval
  <2>2. IsFiniteSet(1 .. Len(dir))
    BY <1>1, <2>1
  <2>3. Cardinality(1 .. Len(dir)) = Len(dir)
    BY <1>1, <2>1
  <2>4. QED
    BY <2>2, <2>3
<1>3. /\ IsFiniteSet(counted) /\ Cardinality(counted) <= Len(dir)
  BY <1>2, FS_Subset
<1>4. Cardinality(counted) \in Nat
  BY <1>3, FS_CardinalityType
<1>5. Intact(dir) => counted = 1 .. Len(dir)
  BY DEF Intact
<1> HIDE DEF counted
<1>6. TotalItems(dir) \in 0 .. Len(dir)
  BY <1>1, <1>3, <1>4
<1>7. QED
  BY <1>1, <1>2, <1>5, <1>6

(* A set of numbers up to n has a last one. *)
LEMMA LastOf ==
  ASSUME NEW n \in Nat, NEW T \in SUBSET (1 .. n), T # {}
  PROVE  /\ (CHOOSE i \in T : \A j \in T : j <= i) \in T
         /\ \A j \in T : j <= (CHOOSE i \in T : \A k \in T : k <= i)
<1> DEFINE U == {n - i : i \in T}
<1>1. U \in SUBSET Nat /\ U # {}
  <2>1. \A i \in T : n - i \in Nat
    OBVIOUS
  <2>2. QED
    BY <2>1
<1>2. PICK m \in U : \A k \in U : m <= k
  BY <1>1, LeastNat
<1>3. PICK i \in T : m = n - i
  BY <1>2
<1>4. \A j \in T : j <= i
  <2>1. \A j \in T : n - i <= n - j
    BY <1>2, <1>3
  <2>2. QED
    BY <2>1
<1>5. QED
  BY <1>3, <1>4

LEMMA FindItemIs ==
  ASSUME NEW dir \in Directories, NEW name
  PROVE  /\ FindItem(dir, name) # NULL =>
               \E i \in 1 .. Len(dir) : FindItem(dir, name) = dir[i] /\ dir[i].name = name
         /\ \A i \in 1 .. Len(dir) :
               Intact(dir) /\ dir[i].name = name => FindItem(dir, name) = dir[i]
<1> DEFINE matches == {i \in 1 .. TotalItems(dir) : dir[i].name = name}
           last == CHOOSE i \in matches : \A j \in matches : j <= i
<1>1. FindItem(dir, name) = IF matches = {} THEN NULL ELSE dir[last]
  BY DEF FindItem
<1>2. /\ Len(dir) \in Nat /\ TotalItems(dir) \in 0 .. Len(dir)
      /\ Intact(dir) => TotalItems(dir) = Len(dir)
  BY DirectoryFacts, CountedEntries
<1>3. matches \in SUBSET (1 .. Len(dir)) /\ \A i \in matches : dir[i].name = name
  BY <1>2
<1> HIDE DEF matches
<1>4. matches # {} => last \in matches
  BY <1>2, <1>3, LastOf
<1> HIDE DEF last
<1>5. ASSUME NEW i \in 1 .. Len(dir), Intact(dir), dir[i].name = name
      PROVE  FindItem(dir, name) = dir[i]
  <2>1. i \in matches
    BY <1>2, <1>5 DEF matches
  <2>2. last \in matches
    BY <1>4, <2>1
  <2>3. dir[last].name = dir[i].name /\ dir[i].name # Deleted
    BY <1>3, <1>5, <2>2 DEF Intact
  <2>4. last = i
    BY <1>3, <2>2, <2>3, DirectoryFacts
  <2>5. QED
    BY <1>1, <2>1, <2>4
<1>6. QED
  BY <1>1, <1>3, <1>4, <1>5

(* One part of a path, below the item of the part before. *)
ItemBelow(parts, i, above) ==
  IF i = 1 THEN FindItem(Root, parts[1])
  ELSE IF above = NULL THEN NULL
  ELSE IF ~above.dir THEN NULL
  ELSE FindItem(Sub[above.cluster], parts[i])

MaybeEntry == Entries \cup {NULL}

LEMMA BelowIs ==
  ASSUME NEW parts, NEW i, NEW above \in MaybeEntry
  PROVE  ItemBelow(parts, i, above) \in MaybeEntry
<1>1. \A dir \in Directories : \A name : FindItem(dir, name) \in MaybeEntry
  BY FindItemIs, DirectoryFacts DEF MaybeEntry
<1>2. Root \in Directories
  BY DEF Directories
<1>3. ASSUME above # NULL, above.dir PROVE Sub[above.cluster] \in Directories
  BY <1>3, VolumeAssumption DEF MaybeEntry, Directories
<1>4. NULL \in MaybeEntry
  BY DEF MaybeEntry
<1>5. QED
  BY <1>1, <1>2, <1>3, <1>4 DEF ItemBelow

(* fat16_get_directory_entry goes from one part to the next. *)
LEMMA ItemsOfParts ==
  ASSUME NEW n \in Nat \ {0}, NEW parts, Len(parts) = n
  PROVE  \E item \in [1 .. n -> MaybeEntry] :
           /\ DirectoryEntry(parts) = item[n]
           /\ \A i \in 1 .. n : item[i] = ItemBelow(parts, i, item[i - 1])
<1> DEFINE Body(g) == [i \in 1 .. n |->
             IF i = 1 THEN FindItem(Root, parts[1])
             ELSE IF g[i - 1] = NULL THEN NULL
             ELSE IF ~g[i - 1].dir THEN NULL
             ELSE FindItem(Sub[g[i - 1].cluster], parts[i])]
           found == CHOOSE g : g = Body(g)
           step == [i \in 1 .. n |-> [x \in MaybeEntry |-> ItemBelow(parts, i, x)]]
<1>1. DirectoryEntry(parts) = found[n]
  BY DEF DirectoryEntry
<1>2. step \in [1 .. n -> [MaybeEntry -> MaybeEntry]]
  BY BelowIs
<1>3. NULL \in MaybeEntry
  BY DEF MaybeEntry
<1>4. PICK g \in [0 .. n -> MaybeEntry] : Iterates(g, n, NULL, step)
  <2> HIDE DEF step
  <2>1. QED
    BY <1>2, <1>3, Recursion
<1> DEFINE item == [i \in 1 .. n |-> g[i]]
<1>5. item \in [1 .. n -> MaybeEntry]
  BY <1>4
<1>6. ASSUME NEW i \in 1 .. n PROVE item[i] = ItemBelow(parts, i, item[i - 1])
  <2>1. g[i] = step[i][g[i - 1]] /\ g[i - 1] \in MaybeEntry
    BY <1>4 DEF Iterates
  <2>2. g[i] = ItemBelow(parts, i, g[i - 1])
    BY <2>1
  <2>3. i # 1 => item[i - 1] = g[i - 1]
    OBVIOUS
  <2>4. QED
    BY <2>2, <2>3 DEF ItemBelow
<1> HIDE DEF item
<1>7. item = Body(item)
  <2>1. \A i \in 1 .. n : item[i] = Body(item)[i]
    BY <1>6 DEF ItemBelow
  <2>2. QED
    BY <1>5, <2>1
<1>8. found = Body(found)
  BY <1>7
<1> HIDE DEF found
<1>9. \A i \in 1 .. n : found[i] = ItemBelow(parts, i, found[i - 1])
  BY <1>8 DEF ItemBelow
<1> DEFINE T == {i \in 0 .. n : i = 0 \/ found[i] = item[i]}
<1>10. ASSUME NEW i \in 1 .. n, i - 1 \in T PROVE i \in T
  <2>1. i # 1 => found[i - 1] = item[i - 1]
    BY <1>10
  <2>2. QED
    BY <1>6, <1>9, <2>1 DEF ItemBelow
<1>11. found[n] = item[n]
  <2>1. 0 \in T
    OBVIOUS
  <2> HIDE DEF T
  <2>2. 0 .. n \subseteq T
    BY <1>10, <2>1, UpTo
  <2>3. QED
    BY <2>2 DEF T
<1>12. QED
  BY <1>1, <1>5, <1>6, <1>11


(* A file that is found is where the path says, and what the path says is  *)
(* found if nothing on the way to it was deleted.                          *)
LEMMA NamedIsFound ==
  ASSUME NEW path \in Paths, path.drive = 0, Len(path.parts) > 0, Parts(path) = path.parts
  PROVE  /\ Opened(path) # NULL =>
               \E w \in Ways(path.parts) : w[Len(path.parts)] = Opened(path)
         /\ \A w \in Ways(path.parts) :
               WayIntact(w, Len(path.parts)) => Opened(path) = w[Len(path.parts)]
<1> DEFINE parts == path.parts
           n == Len(path.parts)
<1>1. n \in Nat \ {0} /\ parts # <<>> /\ Len(parts) = n
  <2>1. parts \in Seq(Part)
    BY FilesAssumption
  <2>2. QED
    BY <2>1
<1> HIDE DEF parts, n
<1>2. PICK item \in [1 .. n -> MaybeEntry] :
        /\ DirectoryEntry(parts) = item[n]
        /\ \A i \in 1 .. n : item[i] = ItemBelow(parts, i, item[i - 1])
  BY <1>1, ItemsOfParts
<1>3. Opened(path) = item[n]
  BY <1>1, <1>2 DEF Opened, parts
<1>4. Root \in Directories /\ \A c \in DOMAIN Sub : Sub[c] \in Directories
  BY DEF Directories
<1>5. \A e \in MaybeEntry : e # NULL =>
        e \in Entries /\ (e.dir => Sub[e.cluster] \in Directories)
  BY <1>4, VolumeAssumption DEF MaybeEntry
<1>6. ASSUME item[n] # NULL PROVE item \in Ways(parts)
  <2> DEFINE T == {k \in 0 .. n - 1 : item[n - k] # NULL}
  <2>1. 0 \in T
    BY <1>1, <1>6
  <2>2. ASSUME NEW k \in 1 .. n - 1, k - 1 \in T PROVE k \in T
    <3>1. item[n - k + 1] # NULL
      BY <1>1, <2>2
    <3>2. n - k + 1 \in 1 .. n /\ n - k + 1 # 1 /\ (n - k + 1) - 1 = n - k
      BY <1>1
    <3>3. item[n - k] # NULL
      BY <1>2, <3>1, <3>2 DEF ItemBelow
    <3>4. QED
      BY <3>3
  <2>3. 0 .. n - 1 \subseteq T
    <3> HIDE DEF T
    <3>1. n - 1 \in Nat
      BY <1>1
    <3>2. QED
      BY <2>1, <2>2, <3>1, UpTo
  <2>4. ASSUME NEW i \in 1 .. n PROVE item[i] # NULL
    <3>0. n - i \in 0 .. n - 1
      BY <1>1
    <3>1. n - i \in T
      BY <2>3, <3>0
    <3>2. QED
      BY <1>1, <3>1
  <2> HIDE DEF T
  <2>5. ASSUME NEW i \in 1 .. n PROVE item[i] \in Entries
    BY <1>2, <2>4 DEF MaybeEntry
  <2>6. item[1] = FindItem(Root, parts[1]) /\ 1 \in 1 .. n
    BY <1>1, <1>2 DEF ItemBelow
  <2>7. In(item[1], Root) /\ item[1].name = parts[1]
    BY <1>4, <2>4, <2>6, FindItemIs DEF In
  <2>8. ASSUME NEW i \in 1 .. n - 1
        PROVE  /\ item[i].dir
               /\ In(item[i + 1], Sub[item[i].cluster])
               /\ item[i + 1].name = parts[i + 1]
    <3>1. i \in 1 .. n /\ i + 1 \in 1 .. n /\ i + 1 # 1 /\ (i + 1) - 1 = i
      BY <1>1
    <3>2. item[i + 1] = ItemBelow(parts, i + 1, item[i])
      BY <1>2, <3>1
    <3>3. item[i + 1] # NULL /\ item[i] # NULL /\ item[i] \in MaybeEntry
      BY <1>2, <2>4, <3>1
    <3>4. item[i].dir /\ item[i + 1] = FindItem(Sub[item[i].cluster], parts[i + 1])
      BY <3>1, <3>2, <3>3 DEF ItemBelow
    <3>5. Sub[item[i].cluster] \in Directories
      BY <1>5, <3>3, <3>4
    <3>6. QED
      BY <3>3, <3>4, <3>5, FindItemIs DEF In
  <2>9. ASSUME NEW i \in 1 .. n PROVE item[i].name = parts[i]
    <3>1. CASE i = 1
      BY <2>7, <3>1
    <3>2. CASE i # 1
      <4>1. i - 1 \in 1 .. n - 1 /\ (i - 1) + 1 = i
        BY <1>1, <3>2
      <4>2. QED
        BY <2>8, <4>1
    <3>3. QED
      BY <3>1, <3>2
  <2>10. item \in [1 .. n -> Entries]
    BY <1>2, <2>5
  <2>11. QED
    BY <2>7, <2>8, <2>9, <2>10 DEF Ways, n, parts
<1>7. ASSUME NEW w \in Ways(parts), WayIntact(w, n) PROVE item[n] = w[n]
  <2>1. /\ w \in [1 .. n -> Entries]
        /\ In(w[1], Root)
        /\ \A i \in 1 .. n : w[i].name = parts[i]
        /\ \A i \in 1 .. n - 1 : w[i].dir /\ In(w[i + 1], Sub[w[i].cluster])
    BY <1>7 DEF Ways, n, parts
  <2>2. Intact(Root) /\ \A i \in 1 .. n - 1 : Intact(Sub[w[i].cluster])
    BY <1>7 DEF WayIntact
  <2>3. \A dir \in Directories : \A i \in 1 .. n :
          Intact(dir) /\ In(w[i], dir) => FindItem(dir, parts[i]) = w[i]
    BY <2>1, FindItemIs DEF In
  <2> DEFINE T == {i \in 0 .. n : i = 0 \/ item[i] = w[i]}
  <2>4. 0 \in T
    BY <1>1
  <2>5. ASSUME NEW i \in 1 .. n, i - 1 \in T PROVE i \in T
    <3>1. item[i] = ItemBelow(parts, i, item[i - 1])
      BY <1>2
    <3>2. CASE i = 1
      <4>1. item[1] = FindItem(Root, parts[1])
        BY <3>1, <3>2 DEF ItemBelow
      <4>2. item[1] = w[1]
        BY <1>4, <2>1, <2>2, <2>3, <3>2, <4>1
      <4>3. QED
        BY <3>2, <4>2
    <3>3. CASE i # 1
      <4>1. i - 1 \in 1 .. n - 1 /\ (i - 1) + 1 = i
        BY <1>1, <3>3
      <4>2. item[i - 1] = w[i - 1] /\ w[i - 1] \in Entries
        BY <2>1, <2>5, <3>3, <4>1
      <4>3. /\ w[i - 1].dir /\ In(w[i], Sub[w[i - 1].cluster])
            /\ Intact(Sub[w[i - 1].cluster])
        BY <2>1, <2>2, <4>1
      <4>4. w[i - 1] # NULL /\ Sub[w[i - 1].cluster] \in Directories
        BY <1>4, <4>2, <4>3, VolumeAssumption
      <4>5. item[i] = FindItem(Sub[w[i - 1].cluster], parts[i])
        BY <3>1, <3>3, <4>2, <4>3, <4>4 DEF ItemBelow
      <4>6. item[i] = w[i]
        BY <2>3, <4>3, <4>4, <4>5
      <4>7. QED
        BY <4>6
    <3>4. QED
      BY <3>2, <3>3
  <2>6. 0 .. n \subseteq T
    <3> HIDE DEF T
    <3>1. QED
      BY <1>1, <2>4, <2>5, UpTo
  <2>7. n \in T
    BY <1>1, <2>6
  <2>8. QED
    BY <1>1, <2>7
<1>8. QED
  BY <1>3, <1>6, <1>7 DEF parts, n

LEMMA FopenFinds ==
  ASSUME TypeOK, NEW path \in Paths, fopen(path)
  PROVE  FindsNamedFile'
<1> DEFINE n == Len(path.parts)
<1>1. result'.path = path
  BY DEF fopen
<1>2. SUFFICES ASSUME path.drive = 0, n > 0, Parts(path) = path.parts
      PROVE  IF result'.fd # 0
             THEN \E w \in Ways(path.parts) : w[n] = file_descriptors'[result'.fd].item
             ELSE \/ \A fd \in Fd : file_descriptors'[fd] # NULL
                  \/ \A w \in Ways(path.parts) : ~WayIntact(w, n)
  BY <1>1 DEF FindsNamedFile
<1>3. ASSUME NEW fd \in Fd, Opened(path) # NULL, result'.fd = fd,
             file_descriptors' = [file_descriptors EXCEPT
                 ![fd] = [item |-> Opened(path), pos |-> 0, open |-> TRUE]]
      PROVE  /\ result'.fd # 0
             /\ \E w \in Ways(path.parts) : w[n] = file_descriptors'[result'.fd].item
  <2>1. fd # 0
    BY FilesAssumption DEF Fd
  <2>2. file_descriptors'[fd].item = Opened(path)
    BY <1>3 DEF TypeOK
  <2>3. QED
    BY <1>2, <1>3, <2>1, <2>2, NamedIsFound
<1>4. ASSUME Opened(path) = NULL
      PROVE  \A w \in Ways(path.parts) : ~WayIntact(w, n)
  <2>1. ASSUME NEW w \in Ways(path.parts), WayIntact(w, n) PROVE FALSE
    <3>1. w[n] = NULL
      BY <1>2, <1>4, <2>1, NamedIsFound
    <3>2. n \in 1 .. n
      <4>1. path.parts \in Seq(Part)
        BY FilesAssumption
      <4>2. QED
        BY <1>2, <4>1
    <3>3. w[n] \in Entries
      BY <3>2 DEF Ways
    <3>4. QED
      BY <3>1, <3>3, VolumeAssumption
  <2>2. QED
    BY <2>1
<1>5. ASSUME \A fd \in Fd : ~FreeSlot(fd)
      PROVE  \A fd \in Fd : file_descriptors[fd] # NULL
  <2> DEFINE T == {fd \in Fd : file_descriptors[fd] = NULL}
  <2>1. T \in SUBSET Nat /\ T \subseteq Fd
    BY DEF Fd
  <2>2. SUFFICES ASSUME T # {} PROVE FALSE
    OBVIOUS
  <2>3. PICK fd \in T : \A f \in T : fd <= f
    <3> HIDE DEF T
    <3>1. QED
      BY <2>1, <2>2, LeastNat
  <2>4. \A f \in 1 .. fd - 1 : f \in Fd /\ f \notin T
    BY <2>1, <2>3, FilesAssumption DEF Fd
  <2>5. FreeSlot(fd)
    BY <2>3, <2>4 DEF FreeSlot
  <2>6. QED
    BY <1>5, <2>3, <2>5
<1>6. CASE \/ Opened(path) = NULL
           \/ \A fd \in Fd : ~FreeSlot(fd)
  <2>1. CASE result'.fd = 0 /\ UNCHANGED file_descriptors
    BY <1>4, <1>5, <1>6, <2>1
  <2>2. QED
    BY <1>3, <1>6, <2>1 DEF fopen
<1>7. CASE Opened(path) # NULL /\ \E fd \in Fd : FreeSlot(fd)
  BY <1>3, <1>7 DEF fopen
<1>8. QED
  BY <1>6, <1>7

(* fopen opens the file the path names, or there is a deleted entry on the *)
(* way to it or no descriptor left (fat16_get_directory_entry).            *)
THEOREM FindsNamed == Spec => []FindsNamedFile
<1>1. Init => FindsNamedFile
  BY DEF Init, FindsNamedFile
<1>2. TypeOK /\ FindsNamedFile /\ [Next]_vars => FindsNamedFile'
  <2> SUFFICES ASSUME TypeOK, FindsNamedFile, [Next]_vars PROVE FindsNamedFile'
    OBVIOUS
  <2>1. ASSUME NEW path \in Paths, fopen(path) PROVE FindsNamedFile'
    BY <2>1, FopenFinds
  <2>2. ASSUME result'.call \in {"fread", "fseek", "fclose"} PROVE FindsNamedFile'
    BY <2>2 DEF FindsNamedFile
  <2>3. ASSUME NEW fd \in Fd, NEW r \in Reads, fread(fd, r[1], r[2]) PROVE FindsNamedFile'
    BY <2>2, <2>3 DEF fread
  <2>4. ASSUME NEW fd \in Fd, NEW offset \in Offsets,
               NEW whence \in {"SEEK_SET", "SEEK_CUR", "SEEK_END"}, fseek(fd, offset, whence)
        PROVE  FindsNamedFile'
    BY <2>2, <2>4 DEF fseek
  <2>5. ASSUME NEW fd \in Fd, fclose(fd) PROVE FindsNamedFile'
    BY <2>2, <2>5 DEF fclose
  <2>6. CASE UNCHANGED vars
    BY <2>6 DEF vars, FindsNamedFile
  <2>7. QED
    BY <2>1, <2>3, <2>4, <2>5, <2>6 DEF Next
<1>3. QED
  BY <1>1, <1>2, FilesTypes, PTL DEF Spec


-----------------------------------------------------------------------------
(* The clusters of a chain are numbers, or the error. *)
LEMMA ClusterIs ==
  ASSUME NEW first \in Int, NEW n \in Nat
  PROVE  ClusterAt(first, n) \in Int
<1> DEFINE Onward(c) == IF c \notin Cluster THEN c
                        ELSE IF fat[c] \in Failing THEN EIO ELSE fat[c]
           Body(g) == [i \in 0 .. n |->
             IF i = 0 THEN first
             ELSE IF g[i - 1] \notin Cluster THEN g[i - 1]
             ELSE IF fat[g[i - 1]] \in Failing THEN EIO
             ELSE fat[g[i - 1]]]
           walk == CHOOSE g : g = Body(g)
           step == [i \in 1 .. n |-> [c \in Int |-> Onward(c)]]
<1>1. ClusterAt(first, n) = walk[n]
  BY DEF ClusterAt
<1>2. \A c \in Int : Onward(c) \in Int
  BY FilesAssumption DEF EIO
<1> HIDE DEF Onward
<1>3. step \in [1 .. n -> [Int -> Int]]
  BY <1>2
<1>4. PICK g \in [0 .. n -> Int] : Iterates(g, n, first, step)
  <2> HIDE DEF step
  <2>1. QED
    BY <1>3, Recursion
<1>5. g = Body(g)
  <2>1. ASSUME NEW i \in 1 .. n PROVE g[i] = Onward(g[i - 1])
    <3>1. i - 1 \in 0 .. n
      OBVIOUS
    <3>2. g[i] = step[i][g[i - 1]] /\ g[i - 1] \in Int
      BY <1>4, <3>1 DEF Iterates
    <3>3. QED
      BY <3>2
  <2>2. \A i \in 0 .. n : g[i] = Body(g)[i]
    BY <1>4, <2>1 DEF Iterates, Onward
  <2>3. QED
    BY <1>4, <2>2
<1>6. walk = Body(walk)
  BY <1>5
<1> HIDE DEF walk
<1>7. walk[0] = first /\ \A i \in 1 .. n : walk[i] = Onward(walk[i - 1])
  BY <1>6 DEF Onward
<1> DEFINE T == {i \in 0 .. n : walk[i] \in Int}
<1>8. 0 \in T
  BY <1>7
<1>9. ASSUME NEW i \in 1 .. n, i - 1 \in T PROVE i \in T
  <2>1. walk[i] = Onward(walk[i - 1]) /\ walk[i - 1] \in Int
    BY <1>7, <1>9
  <2>2. walk[i] \in Int
    BY <1>2, <2>1
  <2>3. QED
    BY <2>2
<1>10. 0 .. n \subseteq T
  <2> HIDE DEF T
  <2>1. QED
    BY <1>8, <1>9, UpTo
<1>11. QED
  BY <1>1, <1>10

LEMMA ClusterSizeIs == ClusterSize \in Nat \ {0} /\ DataStart \in Nat
BY FilesAssumption

LEMMA ClusterPosIs == ASSUME NEW c \in Int PROVE ClusterPos(c) \in Int
BY ClusterSizeIs DEF ClusterPos

(* Reading on from offset in one cluster is reading the file as long as    *)
(* the cluster has not ended.                                              *)
LEMMA StraightByte ==
  ASSUME NEW item, item.cluster \in Int, NEW offset \in Nat, NEW size \in Nat \ {0},
         Straight(offset, size), NEW i \in 0 .. size - 1
  PROVE  ReadByte(item.cluster, offset, i) = ByteAt(item, offset + i)
<1> DEFINE C == ClusterSize
           q == offset \div C
           r == offset % C
<1>1. C \in Nat \ {0}
  BY ClusterSizeIs
<1>2. q \in Int /\ r \in 0 .. C - 1 /\ offset = C * q + r
  BY <1>1, DivMod
<1>3. i \div C \in Int /\ i % C \in 0 .. C - 1 /\ i = C * (i \div C) + (i % C)
  BY <1>1, DivMod
<1>4. (offset + i) \div C = q + (i \div C) /\ (offset + i) % C = r + (i % C)
  <2>1. r + (i % C) \in 0 .. C - 1
    <3>1. CASE r = 0
      BY <1>1, <1>3, <3>1
    <3>2. CASE r + size <= C
      <4>1. i \in 0 .. C - 1
        BY <1>1, <1>2, <3>2
      <4>2. i % C = i
        BY <1>1, <4>1
      <4>3. QED
        BY <1>1, <1>2, <3>2, <4>2
    <3>3. QED
      BY <3>1, <3>2 DEF Straight
  <2> HIDE DEF C, q, r
  <2>2. offset + i = C * (q + (i \div C)) + (r + (i % C))
    <3>1. C * (q + (i \div C)) = C * q + C * (i \div C)
      BY <1>1, <1>2, <1>3
    <3>2. C * q \in Int /\ C * (i \div C) \in Int
      BY <1>1, <1>2, <1>3
    <3>3. QED
      BY <1>2, <1>3, <3>1, <3>2
  <2> DEFINE Q == q + (i \div C)
             R == r + (i % C)
  <2>3. Q \in Int
    BY <1>2, <1>3
  <2> HIDE DEF Q, R
  <2>4. (C * Q + R) \div C = Q /\ (C * Q + R) % C = R
    BY <1>1, <2>1, <2>3, DivUnique DEF R
  <2>5. QED
    BY <2>2, <2>4 DEF Q, R
<1>5. q + (i \div C) \in Nat
  <2>1. q \in Nat /\ i \div C \in Nat
    BY <1>1
  <2>2. QED
    BY <2>1
<1>6. ClusterPos(ClusterAt(item.cluster, q + (i \div C))) \in Int
  BY <1>5, ClusterIs, ClusterPosIs
<1>7. QED
  BY <1>2, <1>3, <1>4, <1>6 DEF ReadByte, ByteAt, Piece

(* The pieces of a part of a read are clusters the read goes over. *)
LEMMA PieceOfRead ==
  ASSUME NEW offset \in Nat, NEW size \in Nat \ {0}, NEW last \in Nat,
         offset + size - 1 <= last, NEW k \in Pieces(size)
  PROVE  /\ k \in Nat
         /\ offset \div ClusterSize + k \in 0 .. last \div ClusterSize
<1> DEFINE C == ClusterSize
           q == offset \div C
           m == last \div C
           p == (size - 1) \div C
<1>1. C \in Nat \ {0}
  BY ClusterSizeIs
<1>0. \A a \in Nat : /\ a \div C \in Nat /\ a % C \in 0 .. C - 1
                     /\ a = C * (a \div C) + (a % C)
  <2> HIDE DEF C
  <2>1. SUFFICES ASSUME NEW a \in Nat
                 PROVE  /\ a \div C \in Nat /\ a % C \in 0 .. C - 1
                        /\ a = C * (a \div C) + (a % C)
    OBVIOUS
  <2>2. a \div C \in Nat
    BY <1>1
  <2>3. a % C \in 0 .. C - 1 /\ a = C * (a \div C) + (a % C)
    BY <1>1, DivMod
  <2>4. QED
    BY <2>2, <2>3
<1>2. q \in Nat /\ offset % C \in 0 .. C - 1 /\ offset = C * q + (offset % C)
  BY <1>0
<1>3. m \in Nat /\ last % C \in 0 .. C - 1 /\ last = C * m + (last % C)
  BY <1>0
<1>4. p \in Nat /\ (size - 1) % C \in 0 .. C - 1 /\ size - 1 = C * p + ((size - 1) % C)
  <2>1. size - 1 \in Nat
    OBVIOUS
  <2>2. QED
    BY <1>0, <2>1
<1>5. k \in 0 .. p
  BY DEF Pieces
<1> HIDE DEF C, q, m, p
<1>6. ASSUME q + k > m PROVE FALSE
  <2>1. m + 1 <= q + p
    BY <1>2, <1>3, <1>4, <1>5, <1>6
  <2>2. C * (m + 1) <= C * (q + p)
    BY <1>1, <1>2, <1>3, <1>4, <2>1
  <2>3. C * (m + 1) = C * m + C /\ C * (q + p) = C * q + C * p
    BY <1>1, <1>2, <1>3, <1>4
  <2>4. C * m \in Int /\ C * q \in Int /\ C * p \in Int
    BY <1>1, <1>2, <1>3, <1>4
  <2>5. C * q + C * p <= offset + size - 1
    BY <1>2, <1>4, <2>4
  <2>6. last < C * m + C
    BY <1>1, <1>3, <2>4
  <2>7. QED
    BY <1>1, <2>2, <2>3, <2>4, <2>5, <2>6
<1>7. QED
  BY <1>2, <1>3, <1>4, <1>5, <1>6 DEF C, q, m


(* What fopen opens is an entry of a directory. *)
LEMMA OpenedIs ==
  ASSUME NEW path \in Paths, Opened(path) # NULL
  PROVE  Opened(path) \in Entries
<1>1. path.parts \in Seq(Part) /\ Len(path.parts) \in Nat
  <2>1. path.parts \in Seq(Part)
    BY FilesAssumption
  <2>2. QED
    BY <2>1
<1> DEFINE empty == {i \in 1 .. Len(path.parts) : path.parts[i] = Empty}
           least == CHOOSE i \in empty : \A j \in empty : i <= j
<1>2. Parts(path) = IF empty = {} THEN path.parts ELSE SubSeq(path.parts, 1, least - 1)
  BY DEF Parts
<1>3. empty # {} => least \in 1 .. Len(path.parts)
  <2>1. empty \in SUBSET Nat /\ empty \subseteq 1 .. Len(path.parts)
    BY <1>1
  <2> HIDE DEF empty
  <2>2. ASSUME empty # {} PROVE \E i \in empty : \A j \in empty : i <= j
    BY <2>1, <2>2, LeastNat
  <2>3. empty # {} => least \in empty
    BY <2>2
  <2>4. QED
    BY <2>1, <2>3
<1> HIDE DEF empty, least
<1>4. Parts(path) \in Seq(Part)
  <2>1. CASE empty = {}
    BY <1>1, <1>2, <2>1
  <2>2. CASE empty # {}
    <3>1. 1 \in 1 .. Len(path.parts) + 1 /\ least - 1 \in 0 .. Len(path.parts)
      BY <1>1, <1>3, <2>2
    <3>2. SubSeq(path.parts, 1, least - 1) \in Seq(Part)
      BY <1>1, <3>1, SubSeqProperties
    <3>3. QED
      BY <1>2, <2>2, <3>2
  <2>3. QED
    BY <2>1, <2>2
<1>5. Parts(path) # <<>> /\ Opened(path) = DirectoryEntry(Parts(path))
  BY DEF Opened
<1>6. Len(Parts(path)) \in Nat \ {0}
  BY <1>4, <1>5
<1>7. Opened(path) \in MaybeEntry
  BY <1>5, <1>6, ItemsOfParts
<1>8. QED
  BY <1>7 DEF MaybeEntry

(* What a read returned is what fread makes of a file that was opened. *)
ReadOf(r) ==
  r.call = "fread" =>
    /\ r.item \in Entries /\ r.pos \in Nat /\ r.size \in Nat \ {0} /\ r.nmemb \in Nat \ {0}
    /\ r.ok <=> \A i \in 0 .. r.nmemb - 1 :
                   ~ReadFails(r.item.cluster, r.pos + i * r.size, r.size)
    /\ r.out = [j \in 0 .. r.size * r.nmemb - 1 |->
                   ReadByte(r.item.cluster, r.pos + (j \div r.size) * r.size, j % r.size)]

ReadInv == /\ \A fd \in Fd : file_descriptors[fd] # NULL => file_descriptors[fd].item \in Entries
           /\ ReadOf(result)

LEMMA ReadStep == TypeOK /\ ReadInv /\ [Next]_vars => ReadInv'
<1> SUFFICES ASSUME TypeOK, ReadInv, [Next]_vars PROVE ReadInv'
  OBVIOUS
<1> DEFINE Opens(fds) == \A fd \in Fd : fds[fd] # NULL => fds[fd].item \in Entries
<1>0. ReadInv' <=> Opens(file_descriptors') /\ ReadOf(result')
  BY DEF ReadInv, ReadOf
<1>1. ASSUME NEW path \in Paths, fopen(path) PROVE ReadInv'
  <2>1. result'.call = "fopen"
    BY <1>1 DEF fopen
  <2>2. ASSUME NEW fd \in Fd, Opened(path) # NULL,
               file_descriptors' = [file_descriptors EXCEPT
                   ![fd] = [item |-> Opened(path), pos |-> 0, open |-> TRUE]]
        PROVE  Opens(file_descriptors')
    BY <2>2, OpenedIs DEF ReadInv, TypeOK
  <2>3. ASSUME UNCHANGED file_descriptors PROVE Opens(file_descriptors')
    BY <2>3 DEF ReadInv
  <2> HIDE DEF Opens
  <2>4. Opens(file_descriptors')
    BY <1>1, <2>2, <2>3 DEF fopen
  <2>5. QED
    BY <1>0, <2>1, <2>4 DEF ReadOf
<1>2. ASSUME NEW fd \in Fd, NEW rd \in Reads, fread(fd, rd[1], rd[2]) PROVE ReadInv'
  <2>1. rd[1] \in Nat \ {0} /\ rd[2] \in Nat \ {0}
    BY FilesAssumption
  <2>2. UNCHANGED file_descriptors /\ file_descriptors[fd] # NULL
    BY <1>2 DEF fread, IsOpen
  <2>3. file_descriptors[fd].item \in Entries /\ file_descriptors[fd].pos \in Nat
    <3>1. MaxPos \in Nat
      BY FilesAssumption
    <3>2. QED
      BY <2>2, <3>1 DEF ReadInv, TypeOK, Descriptor
  <2>4. ReadOf(result')
    BY <1>2, <2>1, <2>3 DEF fread, ReadOf
  <2>5. QED
    BY <1>0, <2>2, <2>4 DEF ReadInv
<1>3. ASSUME NEW fd \in Fd, NEW offset \in Offsets,
             NEW whence \in {"SEEK_SET", "SEEK_CUR", "SEEK_END"}, fseek(fd, offset, whence)
      PROVE  ReadInv'
  <2>1. result'.call = "fseek"
    BY <1>3 DEF fseek
  <2>2. \A f \in Fd : /\ file_descriptors'[f] # NULL => file_descriptors[f] # NULL
                      /\ file_descriptors'[f] # NULL =>
                            file_descriptors'[f].item = file_descriptors[f].item
    BY <1>3 DEF fseek, IsOpen, TypeOK
  <2>3. QED
    BY <1>0, <2>1, <2>2 DEF ReadInv, ReadOf
<1>4. ASSUME NEW fd \in Fd, fclose(fd) PROVE ReadInv'
  <2>1. result'.call = "fclose"
    BY <1>4 DEF fclose
  <2>2. \A f \in Fd : /\ file_descriptors'[f] # NULL => file_descriptors[f] # NULL
                      /\ file_descriptors'[f] # NULL =>
                            file_descriptors'[f].item = file_descriptors[f].item
    BY <1>4 DEF fclose, IsOpen, TypeOK
  <2>3. QED
    BY <1>0, <2>1, <2>2 DEF ReadInv, ReadOf
<1>5. CASE UNCHANGED vars
  BY <1>0, <1>5 DEF vars, ReadInv
<1>6. QED
  BY <1>1, <1>2, <1>3, <1>4, <1>5 DEF Next

LEMMA ReadContentsOf ==
  ASSUME NEW r, ReadOf(r), r.call = "fread",
         \A i \in 0 .. r.nmemb - 1 : Straight(r.pos + i * r.size, r.size)
  PROVE  /\ ReadContents(r)
         /\ ~r.ok => \E n \in 0 .. (r.pos + r.size * r.nmemb - 1) \div ClusterSize :
                        ClusterAt(r.item.cluster, n) = EIO
<1> DEFINE pos == r.pos
           size == r.size
           nmemb == r.nmemb
           cluster == r.item.cluster
<1>1. pos \in Nat /\ size \in Nat \ {0} /\ nmemb \in Nat \ {0} /\ cluster \in Int
  BY VolumeAssumption DEF ReadOf
<1>0. /\ r.ok <=> \A i \in 0 .. nmemb - 1 : ~ReadFails(cluster, pos + i * size, size)
      /\ r.out = [j \in 0 .. size * nmemb - 1 |->
                    ReadByte(cluster, pos + (j \div size) * size, j % size)]
  BY DEF ReadOf
<1>2. \A i \in 0 .. nmemb - 1 : Straight(pos + i * size, size)
  OBVIOUS
<1> HIDE DEF pos, size, nmemb, cluster
<1>3. ASSUME NEW j \in 0 .. size * nmemb - 1 PROVE r.out[j] = ByteAt(r.item, pos + j)
  <2> DEFINE e == j \div size
             m == j % size
  <2>1. /\ e \in Nat /\ m \in 0 .. size - 1 /\ j = size * e + m
    <3>1. size * nmemb \in Nat
      BY <1>1
    <3>2. j \in Nat
      BY <3>1
    <3>3. e \in Int /\ m \in 0 .. size - 1 /\ j = size * e + m
      BY <1>1, <3>2, DivMod
    <3> HIDE DEF e, m
    <3>4. size * 0 < size * (e + 1)
      <4>1. size * (e + 1) = size * e + size /\ size * e \in Int /\ size * 0 = 0
        BY <1>1, <3>3
      <4>2. QED
        BY <1>1, <3>2, <3>3, <4>1
    <3>5. e + 1 > 0
      BY <1>1, <3>3, <3>4, TimesLess
    <3>6. QED
      BY <3>3, <3>5
  <2> HIDE DEF e, m
  <2>2. size * e \in Nat /\ size * nmemb \in Nat
    BY <1>1, <2>1
  <2>3. size * e < size * nmemb
    BY <2>1, <2>2
  <2>4. e < nmemb
    BY <1>1, <2>1, <2>3, TimesLess
  <2>5. e \in 0 .. nmemb - 1 /\ e * size = size * e
    BY <1>1, <2>1, <2>4
  <2> DEFINE offset == pos + e * size
  <2>6. Straight(offset, size)
    BY <1>2, <2>5
  <2>7. offset = pos + size * e /\ offset \in Nat
    BY <1>1, <2>2, <2>5
  <2>8. r.out[j] = ReadByte(cluster, offset, m)
    BY <1>0, <1>3 DEF e, m
  <2> HIDE DEF offset
  <2>9. ReadByte(cluster, offset, m) = ByteAt(r.item, offset + m)
    BY <1>1, <2>1, <2>6, <2>7, StraightByte DEF cluster
  <2>10. offset + m = pos + j
    BY <1>1, <2>1, <2>2, <2>7
  <2>11. QED
    BY <2>8, <2>9, <2>10
<1>4. ASSUME ~r.ok
      PROVE  \E n \in 0 .. (pos + size * nmemb - 1) \div ClusterSize :
                ClusterAt(cluster, n) = EIO
  <2>1. PICK i \in 0 .. nmemb - 1 : ReadFails(cluster, pos + i * size, size)
    BY <1>0, <1>4
  <2>2. PICK k \in Pieces(size) : Piece(cluster, pos + i * size, k) = EIO
    BY <2>1 DEF ReadFails
  <2>3. i * size + size <= size * nmemb /\ i * size \in Nat /\ size * nmemb \in Nat
    <3>1. size * (i + 1) <= size * nmemb
      BY <1>1
    <3>2. size * (i + 1) = i * size + size
      BY <1>1
    <3>3. i * size \in Nat /\ size * nmemb \in Nat
      BY <1>1
    <3>4. QED
      BY <3>1, <3>2, <3>3
  <2> DEFINE last == pos + size * nmemb - 1
             offset == pos + i * size
  <2>4. last \in Nat /\ offset \in Nat /\ offset + size - 1 <= last
    <3> DEFINE a == i * size
               b == size * nmemb
    <3>1. a \in Nat /\ b \in Nat /\ a + size <= b
      BY <2>3
    <3>2. last = pos + b - 1 /\ offset = pos + a
      OBVIOUS
    <3> HIDE DEF a, b, last, offset
    <3>3. QED
      BY <1>1, <3>1, <3>2
  <2> HIDE DEF last, offset
  <2>5. offset \div ClusterSize + k \in 0 .. last \div ClusterSize
    BY <1>1, <2>2, <2>4, PieceOfRead
  <2>6. ClusterAt(cluster, offset \div ClusterSize + k) = EIO
    BY <2>2 DEF Piece, offset
  <2>7. QED
    BY <2>5, <2>6 DEF last
<1>5. ReadContents(r)
  BY <1>0, <1>3 DEF ReadContents, pos
<1>6. QED
  BY <1>4, <1>5 DEF pos, size, nmemb, cluster

(* A read from a place where it does not cross into the next cluster       *)
(* returns the bytes of the file, and fails only if its chain is broken,   *)
(* for every volume and size of clusters (fat16_read).                     *)
THEOREM ReadsContents == Spec => []ReadIsContents
<1>1. Init => ReadInv
  BY DEF Init, ReadInv, ReadOf
<1>2. ReadInv => ReadIsContents
  BY ReadContentsOf DEF ReadInv, ReadIsContents
<1>3. QED
  BY <1>1, <1>2, ReadStep, FilesTypes, PTL DEF Spec


-----------------------------------------------------------------------------
(* The closed form of a read, and the recursions of the code. *)

(* Two parts of a sequence, put together. *)
LEMMA ConcatParts ==
  ASSUME NEW a \in Nat, NEW b \in Nat, NEW S, NEW s \in [1 .. a + b -> S]
  PROVE  /\ [i \in 1 .. a |-> s[i]] \in Seq(S) /\ [i \in 1 .. b |-> s[a + i]] \in Seq(S)
         /\ [i \in 1 .. a |-> s[i]] \o [i \in 1 .. b |-> s[a + i]] = s
<1> DEFINE u == [i \in 1 .. a |-> s[i]]
           v == [i \in 1 .. b |-> s[a + i]]
<1>1. u \in Seq(S) /\ Len(u) = a
  BY IsASeq, LenProperties
<1>2. v \in Seq(S) /\ Len(v) = b
  BY IsASeq, LenProperties
<1>3. \A i \in 1 .. a : u[i] = s[i]
  OBVIOUS
<1>4. \A i \in 1 .. b : v[i] = s[a + i]
  OBVIOUS
<1> HIDE DEF u, v
<1>5. u \o v \in Seq(S) /\ Len(u \o v) = a + b
  BY <1>1, <1>2, ConcatProperties
<1>6. ASSUME NEW i \in 1 .. a + b PROVE (u \o v)[i] = s[i]
  <2>0. (u \o v)[i] = IF i <= a THEN u[i] ELSE v[i - a]
    <3>1. \A j \in 1 .. Len(u) + Len(v) : (u \o v)[j] =
             IF j <= Len(u) THEN u[j] ELSE v[j - Len(u)]
      BY <1>1, <1>2, ConcatProperties
    <3>2. QED
      BY <1>1, <1>2, <3>1
  <2>1. CASE i <= a
    BY <1>3, <2>0, <2>1
  <2>2. CASE i > a
    <3>1. i - a \in 1 .. b /\ a + (i - a) = i
      BY <2>2
    <3>2. QED
      BY <1>4, <2>0, <2>2, <3>1
  <2>3. i <= a \/ i > a
    OBVIOUS
  <2>4. QED
    BY <2>1, <2>2, <2>3
<1>7. u \o v \in [1 .. a + b -> S]
  BY <1>5, LenProperties
<1>8. u \o v = s
  BY <1>6, <1>7
<1>9. QED
  BY <1>1, <1>2, <1>8 DEF u, v

(* diskstreamer_read reads straight on, however sectors divide the bytes.  *)
Onwards(total, pos) == [i \in 1 .. total |-> pos + i - 1]

LEMMA OnwardsJoined ==
  ASSUME NEW a \in Nat, NEW b \in Nat, NEW pos \in Nat
  PROVE  Onwards(a, pos) \o Onwards(b, pos + a) = Onwards(a + b, pos)
<1> DEFINE s == [i \in 1 .. a + b |-> pos + i - 1]
<1>1. s \in [1 .. a + b -> Int]
  OBVIOUS
<1>2. [i \in 1 .. a |-> s[i]] = Onwards(a, pos)
  BY DEF Onwards
<1>3. [i \in 1 .. b |-> s[a + i]] = Onwards(b, pos + a)
  <2>1. \A i \in 1 .. b : s[a + i] = pos + a + i - 1
    OBVIOUS
  <2>2. QED
    BY <2>1 DEF Onwards
<1>4. [i \in 1 .. a |-> s[i]] \o [i \in 1 .. b |-> s[a + i]] = s
  <2> HIDE DEF s
  <2>1. QED
    BY <1>1, ConcatParts
<1>5. Onwards(a, pos) \o Onwards(b, pos + a) = s
  BY <1>2, <1>3, <1>4
<1>6. QED
  BY <1>5 DEF Onwards

LEMMA StreamReadsOn ==
  ASSUME NEW total \in Nat, NEW pos \in Nat
  PROVE  StreamRead(total, pos) = Onwards(total, pos)
<1> DEFINE Body(g) == [left \in 0 .. total |->
             LET at       == pos + total - left
                 overflow == (at % SectorSize) + left >= SectorSize
                 here     == IF overflow THEN SectorSize - (at % SectorSize) ELSE left
                 bytes    == [i \in 1 .. here |-> at + i - 1]
             IN  IF overflow THEN bytes \o g[left - here] ELSE bytes]
           read == CHOOSE g : g = Body(g)
           From(left) == pos + total - left
           Overflow(left) == (From(left) % SectorSize) + left >= SectorSize
           Here(left) == SectorSize - (From(left) % SectorSize)
           Step(g, left) == IF Overflow(left)
                            THEN Onwards(Here(left), From(left)) \o g[left - Here(left)]
                            ELSE Onwards(left, From(left))
           F == [left \in 0 .. total |-> Onwards(left, From(left))]
<1>1. StreamRead(total, pos) = read[total]
  BY DEF StreamRead
<1>2. ASSUME NEW g PROVE Body(g) = [left \in 0 .. total |-> Step(g, left)]
  BY DEF Onwards
<1>3. ASSUME NEW left \in 0 .. total, Overflow(left)
      PROVE  /\ left - Here(left) \in 0 .. total /\ left - Here(left) < left
             /\ Onwards(Here(left), From(left)) \o Onwards(left - Here(left), From(left - Here(left)))
                  = Onwards(left, From(left))
  <2> DEFINE h == Here(left)
             at == From(left)
  <2>1. at \in Nat /\ SectorSize \in Nat \ {0}
    BY SectorAssumption
  <2>2. at % SectorSize \in 0 .. SectorSize - 1
    BY <2>1, DivMod
  <2>3. h \in Nat /\ h >= 1 /\ left - h \in Nat /\ h + (left - h) = left
    BY <1>3, <2>1, <2>2
  <2>4. From(left - h) = at + h
    BY <2>3
  <2> HIDE DEF h, at
  <2>5. Onwards(h, at) \o Onwards(left - h, at + h) = Onwards(left, at)
    <3>1. Onwards(h, at) \o Onwards(left - h, at + h) = Onwards(h + (left - h), at)
      BY <2>1, <2>3, OnwardsJoined
    <3>2. QED
      BY <2>3, <3>1
  <2>6. left - h \in 0 .. total /\ left - h < left
    BY <2>3
  <2>7. QED
    BY <2>4, <2>5, <2>6 DEF h, at
<1> HIDE DEF Overflow, Here, From, Body
<1>4. F = Body(F)
  <2>1. ASSUME NEW left \in 0 .. total PROVE Step(F, left) = F[left]
    <3>1. CASE Overflow(left)
      BY <1>3, <3>1
    <3>2. CASE ~Overflow(left)
      BY <3>2
    <3>3. QED
      BY <3>1, <3>2
  <2>2. Body(F) = [left \in 0 .. total |-> Step(F, left)]
    BY <1>2
  <2> HIDE DEF Step
  <2>3. QED
    BY <2>1, <2>2
<1>5. read = Body(read)
  <2> HIDE DEF F
  <2>1. QED
    BY <1>4
<1>6. \A left \in 0 .. total : read[left] = Step(read, left)
  <2> HIDE DEF Step, read
  <2>1. QED
    BY <1>2, <1>5
<1> HIDE DEF read
<1> DEFINE T == {left \in 0 .. total : read[left] # Onwards(left, From(left))}
<1>7. T = {}
  <2>1. SUFFICES ASSUME T # {} PROVE FALSE
    OBVIOUS
  <2>2. PICK left \in T : \A u \in T : left <= u
    <3>1. T \in SUBSET Nat
      OBVIOUS
    <3> HIDE DEF T
    <3>2. QED
      BY <2>1, <3>1, LeastNat
  <2>3. left \in 0 .. total /\ read[left] # Onwards(left, From(left))
    BY <2>2
  <2>4. CASE Overflow(left)
    <3>1. left - Here(left) \in 0 .. total /\ left - Here(left) < left
      BY <1>3, <2>3, <2>4
    <3>2. left - Here(left) \notin T
      BY <2>2, <2>3, <3>1
    <3>3. read[left - Here(left)] = Onwards(left - Here(left), From(left - Here(left)))
      BY <3>1, <3>2
    <3>4. QED
      BY <1>3, <1>6, <2>3, <2>4, <3>3
  <2>5. CASE ~Overflow(left)
    BY <1>6, <2>3, <2>5
  <2>6. QED
    BY <2>4, <2>5
<1>8. read[total] = Onwards(total, From(total))
  BY <1>7
<1>9. From(total) = pos
  BY DEF From
<1>10. QED
  BY <1>1, <1>8, <1>9


(* The bytes of a part of a read, and the part after its first piece.      *)
ReadBytes(first, offset, total) == [i \in 1 .. total |-> ReadByte(first, offset, i - 1)]

LEMMA PieceNext ==
  ASSUME NEW first \in Int, NEW offset \in Nat, NEW k \in Nat
  PROVE  /\ Piece(first, offset + ClusterSize, k) = Piece(first, offset, k + 1)
         /\ Piece(first, offset, 0) = ClusterAt(first, offset \div ClusterSize)
         /\ Piece(first, offset, k) \in Int
<1> DEFINE q == offset \div ClusterSize
<1>1. q \in Nat /\ (offset + ClusterSize) \div ClusterSize = q + 1
  BY ClusterSizeIs, DivNext
<1> HIDE DEF q
<1>2. (q + 1) + k = q + (k + 1) /\ q + 0 = q /\ q + k \in Nat
  BY <1>1
<1>3. Piece(first, offset, 0) = ClusterAt(first, q + 0)
  BY DEF Piece, q
<1>4. Piece(first, offset, k) = ClusterAt(first, q + k)
  BY DEF Piece, q
<1>5. Piece(first, offset, k + 1) = ClusterAt(first, q + (k + 1))
  BY DEF Piece, q
<1>6. Piece(first, offset + ClusterSize, k) = ClusterAt(first, (q + 1) + k)
  BY <1>1 DEF Piece
<1>7. QED
  BY <1>2, <1>3, <1>4, <1>5, <1>6, ClusterIs DEF q

LEMMA ByteNext ==
  ASSUME NEW first \in Int, NEW offset \in Nat, NEW i \in Nat
  PROVE  /\ ReadByte(first, offset + ClusterSize, i) = ReadByte(first, offset, ClusterSize + i)
         /\ i < ClusterSize =>
               ReadByte(first, offset, i) =
                 ClusterPos(ClusterAt(first, offset \div ClusterSize)) + (offset % ClusterSize) + i
         /\ ReadByte(first, offset, i) \in Int
<1> DEFINE C == ClusterSize
<1>1. /\ C \in Nat \ {0} /\ (offset + C) % C = offset % C /\ offset % C \in Int
  BY ClusterSizeIs, DivNext
<1>2. /\ i \div C \in Nat /\ i % C \in Int /\ (i + C) \div C = (i \div C) + 1 /\ (i + C) % C = i % C
      /\ i < C => i \div C = 0 /\ i % C = i
  BY ClusterSizeIs, DivNext
<1>3. i + C = C + i
  BY <1>1
<1>4. Piece(first, offset + C, i \div C) = Piece(first, offset, (i \div C) + 1)
  BY <1>2, PieceNext
<1>5. ReadByte(first, offset + C, i) =
        ClusterPos(Piece(first, offset + C, i \div C)) + ((offset + C) % C) + (i % C)
  BY DEF ReadByte
<1>6. ReadByte(first, offset, C + i) =
        ClusterPos(Piece(first, offset, (C + i) \div C)) + (offset % C) + ((C + i) % C)
  BY DEF ReadByte
<1>7. ReadByte(first, offset, i) =
        ClusterPos(Piece(first, offset, i \div C)) + (offset % C) + (i % C)
  BY DEF ReadByte
<1> HIDE DEF C
<1>8. ReadByte(first, offset + C, i) = ReadByte(first, offset, C + i)
  BY <1>1, <1>2, <1>3, <1>4, <1>5, <1>6
<1>9. Piece(first, offset, i \div C) \in Int
  BY <1>2, PieceNext
<1>10. ClusterPos(Piece(first, offset, i \div C)) \in Int
  BY <1>9, ClusterPosIs
<1>11. ReadByte(first, offset, i) \in Int
  BY <1>1, <1>2, <1>7, <1>10
<1>12. ASSUME i < C
       PROVE  ReadByte(first, offset, i) = ClusterPos(ClusterAt(first, offset \div C)) + (offset % C) + i
  <2>1. Piece(first, offset, 0) = ClusterAt(first, offset \div C)
    BY PieceNext DEF C
  <2>2. QED
    BY <1>2, <1>7, <1>12, <2>1
<1>13. QED
  BY <1>8, <1>11, <1>12 DEF C

LEMMA FailsNext ==
  ASSUME NEW first \in Int, NEW offset \in Nat, NEW total \in Nat \ {0}
  PROVE  /\ total <= ClusterSize =>
               (ReadFails(first, offset, total) <=> Piece(first, offset, 0) = EIO)
         /\ total > ClusterSize =>
               (ReadFails(first, offset, total) <=>
                  \/ Piece(first, offset, 0) = EIO
                  \/ ReadFails(first, offset + ClusterSize, total - ClusterSize))
<1> DEFINE C == ClusterSize
<1>1. C \in Nat \ {0} /\ total - 1 \in Nat
  BY ClusterSizeIs
<1>2. ASSUME total <= C
      PROVE  ReadFails(first, offset, total) <=> Piece(first, offset, 0) = EIO
  <2>1. (total - 1) \div C = 0
    BY <1>1, <1>2, DivNext
  <2>2. Pieces(total) = {0}
    BY <2>1 DEF Pieces
  <2>3. QED
    BY <2>2 DEF ReadFails
<1>3. ASSUME total > C
      PROVE  ReadFails(first, offset, total) <=>
               Piece(first, offset, 0) = EIO \/ ReadFails(first, offset + C, total - C)
  <2> DEFINE p == (total - C - 1) \div C
  <2>1. p \in Nat /\ (total - 1) \div C = p + 1
    <3>1. total - C - 1 \in Nat /\ (total - C - 1) + C = total - 1
      BY <1>1, <1>3
    <3> DEFINE a == total - C - 1
    <3> HIDE DEF a
    <3>2. a \in Nat /\ a + C = total - 1
      BY <3>1 DEF a
    <3>3. a \div C \in Nat /\ (a + C) \div C = (a \div C) + 1
      BY <1>1, <3>2, DivNext
    <3>4. QED
      BY <3>2, <3>3 DEF a
  <2>2. Pieces(total) = 0 .. p + 1 /\ Pieces(total - C) = 0 .. p
    BY <2>1 DEF Pieces
  <2> HIDE DEF p
  <2>3. ReadFails(first, offset, total) <=> \E k \in 0 .. p + 1 : Piece(first, offset, k) = EIO
    BY <2>2 DEF ReadFails
  <2>4. ReadFails(first, offset + C, total - C) <=>
          \E k \in 0 .. p : Piece(first, offset, k + 1) = EIO
    <3>1. \A k \in 0 .. p : Piece(first, offset + C, k) = Piece(first, offset, k + 1)
      BY PieceNext
    <3>2. QED
      BY <2>2, <3>1 DEF ReadFails
  <2>5. ASSUME NEW k \in 0 .. p + 1, k # 0, Piece(first, offset, k) = EIO
        PROVE  ReadFails(first, offset + C, total - C)
    <3>1. k - 1 \in 0 .. p /\ (k - 1) + 1 = k
      BY <2>1, <2>5
    <3>2. QED
      BY <2>4, <2>5, <3>1
  <2>6. 0 \in 0 .. p + 1 /\ \A k \in 0 .. p : k + 1 \in 0 .. p + 1
    BY <2>1
  <2>7. QED
    BY <2>3, <2>4, <2>5, <2>6
<1>4. QED
  BY <1>2, <1>3

LEMMA BytesJoined ==
  ASSUME NEW first \in Int, NEW offset \in Nat, NEW total \in Nat \ {0}, total > ClusterSize
  PROVE  ReadBytes(first, offset, ClusterSize)
           \o ReadBytes(first, offset + ClusterSize, total - ClusterSize)
         = ReadBytes(first, offset, total)
<1> DEFINE C == ClusterSize
           s == ReadBytes(first, offset, total)
<1>1. C \in Nat \ {0} /\ total - C \in Nat /\ C + (total - C) = total
  BY ClusterSizeIs
<1>2. s \in [1 .. C + (total - C) -> Int]
  <2>1. \A i \in 1 .. total : i - 1 \in Nat
    OBVIOUS
  <2>2. \A i \in 1 .. total : ReadByte(first, offset, i - 1) \in Int
    BY <2>1, ByteNext
  <2>3. QED
    BY <1>1, <2>2 DEF ReadBytes
<1>3. [i \in 1 .. C |-> s[i]] = ReadBytes(first, offset, C)
  <2>1. \A i \in 1 .. C : i \in 1 .. total
    BY <1>1
  <2>2. QED
    BY <2>1 DEF ReadBytes
<1>4. [i \in 1 .. total - C |-> s[C + i]] = ReadBytes(first, offset + C, total - C)
  <2>1. ASSUME NEW i \in 1 .. total - C
        PROVE  s[C + i] = ReadByte(first, offset + C, i - 1)
    <3>1. C + i \in 1 .. total /\ (C + i) - 1 = C + (i - 1) /\ i - 1 \in Nat
      BY <1>1
    <3>2. s[C + i] = ReadByte(first, offset, C + (i - 1))
      BY <3>1 DEF ReadBytes
    <3>3. QED
      BY <3>1, <3>2, ByteNext
  <2>2. QED
    BY <2>1 DEF ReadBytes
<1> HIDE DEF s, C
<1>5. [i \in 1 .. C |-> s[i]] \o [i \in 1 .. total - C |-> s[C + i]] = s
  BY <1>1, <1>2, ConcatParts
<1>6. QED
  BY <1>3, <1>4, <1>5 DEF s, C


(* The recursion of fat16_read_internal_from_stream, over clusters the     *)
(* file has.                                                               *)
LEMMA LoopReads ==
  ASSUME NEW first \in Int, NEW start \in Nat, NEW size \in Nat \ {0},
         \A n \in 0 .. (start + size - 1) \div ClusterSize :
            ClusterAt(first, n) \in Cluster \cup {EIO}
  PROVE  LET loop == ReadLoop(first, start, size)
         IN  IF ReadFails(first, start, size) THEN loop[Len(loop)] = EIO
             ELSE loop = ReadBytes(first, start, size)
<1> DEFINE C == ClusterSize
           Body(g) == [total \in 1 .. size |->
             LET offset  == start + size - total
                 cluster == ClusterAt(first, offset \div ClusterSize)
                 here    == IF total > ClusterSize THEN ClusterSize ELSE total
                 bytes   == StreamRead(here, ClusterPos(cluster) + (offset % ClusterSize))
                 rest    == g[total - here]
             IN  IF cluster = EIO THEN <<EIO>>
                 ELSE IF total - here > 0 THEN bytes \o rest
                 ELSE bytes]
           read == CHOOSE g : g = Body(g)
           From(total) == start + size - total
           Here(total) == IF total > C THEN C ELSE total
           Fails(total) == Piece(first, From(total), 0) = EIO
           Bytes(total) == ReadBytes(first, From(total), Here(total))
           Step(total, rest) == IF Fails(total) THEN <<EIO>>
                                ELSE IF total > C THEN Bytes(total) \o rest
                                ELSE Bytes(total)
<1>1. ReadLoop(first, start, size) = read[size]
  BY DEF ReadLoop
<1>2. C \in Nat \ {0}
  BY ClusterSizeIs
<1>3. ASSUME NEW total \in 1 .. size
      PROVE  /\ From(total) \in Nat /\ Here(total) \in 1 .. C
             /\ total - Here(total) > 0 <=> total > C
             /\ Piece(first, From(total), 0) = ClusterAt(first, From(total) \div C)
             /\ ClusterAt(first, From(total) \div C) \in Cluster \cup {EIO}
             /\ Bytes(total) \in Seq(Int)
  <2> DEFINE offset == From(total)
             last == start + size - 1
             h == Here(total)
  <2>1. offset \in Nat /\ last \in Nat /\ offset + 1 - 1 <= last
    OBVIOUS
  <2>2. h \in 1 .. C /\ (total - h > 0 <=> total > C)
    BY <1>2
  <2> HIDE DEF offset, last, h
  <2>3. Piece(first, offset, 0) = ClusterAt(first, offset \div C)
    BY <2>1, PieceNext
  <2>4. 0 \in Pieces(1) /\ offset \div C + 0 = offset \div C
    BY <1>2, <2>1, DivNext DEF Pieces
  <2>5. offset \div C \in 0 .. last \div C
    BY <2>1, <2>4, PieceOfRead
  <2>6. ClusterAt(first, offset \div C) \in Cluster \cup {EIO}
    BY <2>5 DEF last
  <2>7. ReadBytes(first, offset, h) \in Seq(Int)
    <3>1. \A i \in 1 .. h : i - 1 \in Nat
      OBVIOUS
    <3>2. \A i \in 1 .. h : ReadByte(first, offset, i - 1) \in Int
      BY <2>1, <3>1, ByteNext
    <3>3. h \in Nat
      BY <1>2, <2>2
    <3>4. QED
      BY <3>2, <3>3, IsASeq DEF ReadBytes
  <2>8. QED
    BY <2>1, <2>2, <2>3, <2>6, <2>7 DEF offset, h
<1>4. ASSUME NEW total \in 1 .. size, ~Fails(total)
      PROVE  StreamRead(Here(total), ClusterPos(ClusterAt(first, From(total) \div C)) + (From(total) % C))
               = Bytes(total)
  <2> DEFINE offset == From(total)
             h == Here(total)
             c == ClusterAt(first, offset \div C)
             pos == ClusterPos(c) + (offset % C)
  <2>1. offset \in Nat /\ h \in 1 .. C /\ c \in Cluster
    BY <1>3, <1>4
  <2> HIDE DEF offset, h, c
  <2>2. offset % C \in Nat
    BY <1>2, <2>1
  <2>3. ClusterPos(c) \in Nat
    <3>1. c - 2 \in Nat
      BY <2>1, FilesAssumption
    <3>2. (c - 2) * C \in Nat
      BY <1>2, <3>1
    <3>3. QED
      BY <3>2, ClusterSizeIs DEF ClusterPos
  <2>4. pos \in Nat
    BY <2>2, <2>3
  <2>5. ASSUME NEW i \in 1 .. h PROVE ReadByte(first, offset, i - 1) = pos + i - 1
    <3>1. i - 1 \in Nat /\ i - 1 < C
      BY <1>2, <2>1
    <3>2. ReadByte(first, offset, i - 1) = ClusterPos(c) + (offset % C) + (i - 1)
      BY <2>1, <3>1, ByteNext DEF c
    <3>3. QED
      BY <2>2, <2>3, <3>2
  <2>6. ReadBytes(first, offset, h) = Onwards(h, pos)
    BY <2>5 DEF ReadBytes, Onwards
  <2> HIDE DEF pos
  <2>7. h \in Nat
    BY <2>1
  <2>8. StreamRead(h, pos) = Onwards(h, pos)
    BY <2>4, <2>7, StreamReadsOn
  <2>9. QED
    BY <2>6, <2>8 DEF offset, h, c, pos
<1> HIDE DEF From, Bytes, Fails
<1>5. ASSUME NEW g PROVE Body(g) = [total \in 1 .. size |-> Step(total, g[total - Here(total)])]
  <2>1. ASSUME NEW total \in 1 .. size
        PROVE  Body(g)[total] = Step(total, g[total - Here(total)])
    <3> DEFINE cluster == ClusterAt(first, From(total) \div C)
               streamed == StreamRead(Here(total), ClusterPos(cluster) + (From(total) % C))
    <3>1. Body(g)[total] = IF cluster = EIO THEN <<EIO>>
                           ELSE IF total - Here(total) > 0
                                THEN streamed \o g[total - Here(total)]
                           ELSE streamed
      BY DEF From
    <3>2. (cluster = EIO <=> Fails(total)) /\ (total - Here(total) > 0 <=> total > C)
      BY <1>3 DEF Fails
    <3>3. ~Fails(total) => streamed = Bytes(total)
      BY <1>4
    <3> HIDE DEF cluster, streamed, Body
    <3>4. QED
      BY <3>1, <3>2, <3>3
  <2>2. Body(g) = [total \in 1 .. size |-> Body(g)[total]]
    OBVIOUS
  <2> HIDE DEF Body, Step
  <2>3. QED
    BY <2>1, <2>2
<1> HIDE DEF Body
<1>6. read = Body(read)
  <2> DEFINE step == [total \in 1 .. size |-> [rest \in Seq(Int) |-> Step(total, rest)]]
             prev == [total \in 1 .. size |-> total - Here(total)]
  <2>1. \A total \in 1 .. size : total - Here(total) \in Nat /\ total - Here(total) < total
    BY <1>2
  <2>2. prev \in [1 .. size -> Nat] /\ \A total \in 1 .. size : prev[total] < total
    BY <2>1
  <2>3. step \in [1 .. size -> [Seq(Int) -> Seq(Int)]]
    <3>1. ASSUME NEW total \in 1 .. size, NEW rest \in Seq(Int)
          PROVE  Step(total, rest) \in Seq(Int)
      <4>1. Bytes(total) \in Seq(Int)
        BY <1>3
      <4>2. Bytes(total) \o rest \in Seq(Int)
        BY <4>1, ConcatProperties
      <4>3. <<EIO>> \in Seq(Int)
        BY DEF EIO
      <4>4. QED
        BY <4>1, <4>2, <4>3
    <3> HIDE DEF Step
    <3>2. QED
      BY <3>1
  <2>4. <<>> \in Seq(Int)
    OBVIOUS
  <2> HIDE DEF step, prev
  <2>5. PICK f \in [0 .. size -> Seq(Int)] : Descends(f, size, <<>>, prev, step)
    BY <2>2, <2>3, <2>4, Descent
  <2> DEFINE g == [total \in 1 .. size |-> f[total]]
  <2>6. ASSUME NEW total \in 1 .. size PROVE g[total] = Step(total, g[total - Here(total)])
    <3> DEFINE before == total - Here(total)
    <3>1. prev[total] = before /\ before \in 0 .. size
      BY <2>1 DEF prev
    <3>2. f[total] = step[total][f[before]] /\ f[before] \in Seq(Int)
      BY <2>5, <3>1 DEF Descends
    <3>3. f[total] = Step(total, f[before])
      BY <3>2 DEF step
    <3>4. total > C => g[before] = f[before]
      <4>1. total > C => before \in 1 .. size
        BY <1>3, <3>1
      <4>2. QED
        BY <4>1
    <3> HIDE DEF before
    <3>5. g[total] = Step(total, g[before])
      BY <3>3, <3>4
    <3>6. QED
      BY <3>5 DEF before
  <2> HIDE DEF Step
  <2>7. g = [total \in 1 .. size |-> Step(total, g[total - Here(total)])]
    <3>1. g = [total \in 1 .. size |-> g[total]]
      OBVIOUS
    <3> HIDE DEF g
    <3>2. QED
      BY <2>6, <3>1
  <2> HIDE DEF g
  <2>8. g = Body(g)
    BY <1>5, <2>7
  <2>9. QED
    BY <2>8
<1> HIDE DEF read
<1>7. \A total \in 1 .. size : read[total] = Step(total, read[total - Here(total)])
  <2> HIDE DEF Step, Here
  <2>1. QED
    BY <1>5, <1>6
<1> DEFINE Right(total) ==
             IF ReadFails(first, From(total), total)
             THEN /\ read[total] \in Seq(Int) /\ read[total] # <<>>
                  /\ read[total][Len(read[total])] = EIO
             ELSE read[total] = ReadBytes(first, From(total), total)
           T == {total \in 1 .. size : ~Right(total)}
<1>8. ASSUME NEW total \in 1 .. size, total <= C PROVE Right(total)
  <2>1. ReadFails(first, From(total), total) <=> Fails(total)
    BY <1>3, <1>8, FailsNext DEF Fails
  <2>2. read[total] = IF Fails(total) THEN <<EIO>> ELSE Bytes(total)
    BY <1>2, <1>7, <1>8
  <2>3. Bytes(total) = ReadBytes(first, From(total), total)
    BY <1>2, <1>8 DEF Bytes
  <2>4. <<EIO>> \in Seq(Int) /\ <<EIO>> # <<>> /\ <<EIO>>[Len(<<EIO>>)] = EIO
    BY DEF EIO
  <2>5. QED
    BY <2>1, <2>2, <2>3, <2>4
<1>9. ASSUME NEW total \in 1 .. size, total > C, Right(total - C) PROVE Right(total)
  <2>1. total - C \in 1 .. size /\ From(total - C) = From(total) + C /\ Here(total) = C
    BY <1>2, <1>9 DEF From
  <2>2. ReadFails(first, From(total), total) <=>
          Fails(total) \/ ReadFails(first, From(total - C), total - C)
    <3>1. From(total) \in Nat
      BY <1>3
    <3> HIDE DEF Right
    <3>2. QED
      BY <1>9, <2>1, <3>1, FailsNext DEF Fails
  <2>3. read[total] = IF Fails(total) THEN <<EIO>> ELSE Bytes(total) \o read[total - C]
    BY <1>7, <1>9, <2>1
  <2>4. Bytes(total) \in Seq(Int) /\ Bytes(total) = ReadBytes(first, From(total), C)
    BY <1>3, <2>1 DEF Bytes
  <2>5. CASE Fails(total)
    <3>1. <<EIO>> \in Seq(Int) /\ <<EIO>> # <<>> /\ <<EIO>>[Len(<<EIO>>)] = EIO
      BY DEF EIO
    <3>2. QED
      BY <2>2, <2>3, <2>5, <3>1
  <2>6. CASE ~Fails(total) /\ ReadFails(first, From(total - C), total - C)
    <3> DEFINE u == Bytes(total)
               v == read[total - C]
    <3>1. v \in Seq(Int) /\ v # <<>> /\ v[Len(v)] = EIO
      BY <1>9, <2>6
    <3>2. u \in Seq(Int) /\ read[total] = u \o v
      BY <2>3, <2>4, <2>6
    <3> HIDE DEF u, v
    <3>3. /\ u \o v \in Seq(Int) /\ Len(u \o v) = Len(u) + Len(v)
          /\ Len(u) \in Nat /\ Len(v) \in Nat /\ Len(v) > 0
      <4>1. Len(v) \in Nat /\ Len(v) > 0 /\ Len(u) \in Nat
        BY <3>1, <3>2
      <4>2. QED
        BY <3>1, <3>2, <4>1, ConcatProperties
    <3>4. (u \o v)[Len(u) + Len(v)] = v[Len(v)]
      <4>1. \A i \in 1 .. Len(u) + Len(v) :
              (u \o v)[i] = IF i <= Len(u) THEN u[i] ELSE v[i - Len(u)]
        BY <3>1, <3>2, ConcatProperties
      <4>2. /\ Len(u) + Len(v) \in 1 .. Len(u) + Len(v)
            /\ ~(Len(u) + Len(v) <= Len(u)) /\ (Len(u) + Len(v)) - Len(u) = Len(v)
        BY <3>3
      <4>3. QED
        BY <4>1, <4>2
    <3>5. u \o v # <<>>
      BY <3>3
    <3>6. QED
      BY <2>2, <2>6, <3>1, <3>2, <3>3, <3>4, <3>5
  <2>7. CASE ~Fails(total) /\ ~ReadFails(first, From(total - C), total - C)
    <3>1. read[total - C] = ReadBytes(first, From(total) + C, total - C)
      BY <1>9, <2>1, <2>7
    <3>2. From(total) \in Nat /\ total \in Nat \ {0}
      BY <1>3
    <3>3. ReadBytes(first, From(total), C) \o ReadBytes(first, From(total) + C, total - C)
            = ReadBytes(first, From(total), total)
      BY <1>9, <3>2, BytesJoined
    <3>4. QED
      BY <2>2, <2>3, <2>4, <2>7, <3>1, <3>3
  <2>8. QED
    BY <2>5, <2>6, <2>7
<1> HIDE DEF Right, read
<1>10. T = {}
  <2>1. SUFFICES ASSUME T # {} PROVE FALSE
    OBVIOUS
  <2>2. PICK total \in T : \A u \in T : total <= u
    <3>1. T \in SUBSET Nat
      OBVIOUS
    <3> HIDE DEF T
    <3>2. QED
      BY <2>1, <3>1, LeastNat
  <2>3. total \in 1 .. size /\ ~Right(total)
    BY <2>2
  <2>4. total > C
    BY <1>2, <1>8, <2>3
  <2>5. total - C \in 1 .. size /\ total - C < total
    BY <1>2, <2>3, <2>4
  <2>6. total - C \notin T
    BY <2>2, <2>3, <2>5
  <2>7. Right(total - C)
    BY <2>5, <2>6
  <2>8. QED
    BY <1>9, <2>3, <2>4, <2>7
<1>11. size \in 1 .. size /\ From(size) = start
  BY DEF From
<1>12. Right(size)
  BY <1>10, <1>11
<1>13. QED
  BY <1>1, <1>11, <1>12 DEF Right

(* However clusters and sectors divide a read, the bytes of                *)
(* fat16_read_internal_from_stream and diskstreamer_read are those of the  *)
(* closed form.                                                            *)
THEOREM ReadsLoop == Spec => []ReadIsLoop
<1>1. TypeOK /\ ReadInv => ReadIsLoop
  <2>1. SUFFICES ASSUME TypeOK, ReadInv, NEW fd \in Fd, IsOpen(fd),
                        NEW r \in Reads,
                        HasClusters(file_descriptors[fd].item, file_descriptors[fd].pos, r[1])
                 PROVE  LET d == file_descriptors[fd]
                            loop == ReadLoop(d.item.cluster, d.pos, r[1])
                        IN  IF ReadFails(d.item.cluster, d.pos, r[1])
                            THEN loop[Len(loop)] = EIO
                            ELSE loop = ReadBytes(d.item.cluster, d.pos, r[1])
    BY DEF ReadIsLoop, ReadBytes
  <2> DEFINE d == file_descriptors[fd]
             size == r[1]
  <2>2. size \in Nat \ {0} /\ MaxPos \in Nat
    BY FilesAssumption
  <2>3. d.pos \in Nat /\ d.item \in Entries
    BY <2>1, <2>2 DEF ReadInv, TypeOK, Descriptor, IsOpen
  <2>4. d.item.cluster \in Int
    BY <2>3, VolumeAssumption
  <2>5. \A n \in 0 .. (d.pos + size - 1) \div ClusterSize :
          ClusterAt(d.item.cluster, n) \in Cluster \cup {EIO}
    BY <2>1 DEF HasClusters
  <2> HIDE DEF d, size
  <2>6. LET loop == ReadLoop(d.item.cluster, d.pos, size)
        IN  IF ReadFails(d.item.cluster, d.pos, size) THEN loop[Len(loop)] = EIO
            ELSE loop = ReadBytes(d.item.cluster, d.pos, size)
    BY <2>2, <2>3, <2>4, <2>5, LoopReads
  <2>7. QED
    BY <2>6 DEF d, size
<1>2. Init => ReadInv
  BY DEF Init, ReadInv, ReadOf
<1>3. QED
  BY <1>1, <1>2, ReadStep, FilesTypes, PTL DEF Spec

-----------------------------------------------------------------------------
(***************************************************************************)
(* The loader.  Everything its proof says is said of a disk d, a list libs *)
(* and a stack st, so that what a step does to one of them can be followed *)
(* while the others stay as they are.                                      *)
(***************************************************************************)
Library == [name : File, symbols : SUBSET Symbol, sections : BOOLEAN,
            memory : BOOLEAN, run : BOOLEAN]
Stage == {"open", "header", "pheaders", "sections", "symbols", "relocations",
          "out", "loaded", "failed", "nothing", "EINFORMAT"}
Frame == [file : File, stage : Stage, tag : Nat \ {0}, entry : Nat,
          result : {"none", "failed", "EINFORMAT"}, slots : Seq(Int)]

(* The operators of the loader, of a given disk. *)
NeededBy(d, f) == {d.needed[f][i] : i \in DOMAIN d.needed[f]}
Exports(d, f) ==
    {d.exports[f][i] : i \in {j \in DOMAIN d.exports[f] :
                                 \A k \in 1 .. j : d.exports[f][k] \notin Overlong}}
SoundOn(d, f) ==
    /\ d.kind[f] = "library"
    /\ \A i \in DOMAIN d.exports[f] : d.exports[f][i] \notin Overlong
    /\ \A i \in DOMAIN d.relocations[f] : d.relocations[f][i] # Unsupported
SoundNeeds(d, f) ==
    \E S \in SUBSET File :
        NeededBy(d, f) \subseteq S /\ \A g \in S : SoundOn(d, g) /\ NeededBy(d, g) \subseteq S
DefinersOn(d, f, s) ==
    {i \in DOMAIN d.needed[f] :
        \E k \in DOMAIN d.exports[d.needed[f][i]] : d.exports[d.needed[f][i]][k] = s}

(* A library that cannot fail to load, but for want of a descriptor.       *)
Good(d, f) == SoundOn(d, f) /\ SoundNeeds(d, f)

-----------------------------------------------------------------------------
(* A library of that name is on the list; library k is the first of its    *)
(* name.                                                                   *)
Named(libs, f) == \E k \in 1 .. Len(libs) : libs[k].name = f
FirstNamed(libs, k) == \A j \in 1 .. Len(libs) : libs[j].name = libs[k].name => k <= j

(* Slot i of a program leads to library k of the list.                     *)
LeadsTo(d, libs, f, i, k) ==
    /\ k \in 1 .. Len(libs)
    /\ libs[k].sections
    /\ libs[k].name \in NeededBy(d, f)
    /\ d.relocations[f][i] \in Exports(d, libs[k].name)

(* Library k is the first that f needs and that exports s.                 *)
FirstDefines(d, libs, f, s, k) ==
    /\ k \in 1 .. Len(libs)
    /\ \E q \in DefinersOn(d, f, s) :
          (\A j \in DefinersOn(d, f, s) : q <= j) /\ libs[k].name = d.needed[f][q]

LinkedSlots(d, libs, f, slots, short) ==
    /\ d.kind[f] = "program" => Len(slots) = Len(d.relocations[f])
    /\ \A i \in 1 .. Len(slots) :
          LET s == d.relocations[f][i]
          IN  s \in Symbol =>
                /\ slots[i] # NoLibrary => LeadsTo(d, libs, f, i, slots[i])
                /\ ~short /\ SoundNeeds(d, f) /\ DefinersOn(d, f, s) # {} =>
                      /\ slots[i] # NoLibrary
                      /\ FirstDefines(d, libs, f, s, slots[i])
                      /\ FirstNamed(libs, slots[i])

-----------------------------------------------------------------------------
(* Frame i of the stack is past the header of its file.                    *)
Past == {"pheaders", "sections", "symbols", "relocations", "out", "loaded"}
Begun(d, libs, fr, i) ==
    IF d.kind[fr.file] = "library"
    THEN /\ fr.entry \in 1 .. Len(libs)
         /\ libs[fr.entry].name = fr.file
         /\ libs[fr.entry].run <=> i = 1
    ELSE d.kind[fr.file] = "program" /\ fr.entry = NoLibrary

(* The libraries frame fr has gone over are on the list.                   *)
Gone(fr) == IF fr.stage = "pheaders" THEN 1 .. fr.tag - 1 ELSE Nat
NeedsListed(d, libs, fr) ==
    fr.stage \in Past => \A j \in DOMAIN d.needed[fr.file] :
                            j \in Gone(fr) => Named(libs, d.needed[fr.file][j])

FrameOK(d, libs, fr, i, short) ==
    /\ fr.stage \in {"open", "header"} =>
          fr.entry = NoLibrary /\ fr.tag = 1 /\ (i > 1 => ~Named(libs, fr.file))
    /\ fr.stage = "header" => d.kind[fr.file] \in {"raw", "program", "library"}
    /\ fr.stage \in Past => Begun(d, libs, fr, i)
    /\ fr.stage \in {"loaded", "failed", "nothing", "EINFORMAT"} => i = 1
    /\ fr.stage \in {"symbols", "relocations"} /\ fr.entry # NoLibrary =>
          libs[fr.entry].sections
    /\ fr.stage = "out" => fr.result # "none"
    /\ IF fr.stage = "loaded" THEN LinkedSlots(d, libs, fr.file, fr.slots, short)
       ELSE fr.slots = <<>>
    /\ SoundNeeds(d, fr.file) /\ d.kind[fr.file] \in {"program", "library"} =>
          /\ fr.stage \notin {"out", "EINFORMAT"}
          /\ ~short => NeedsListed(d, libs, fr)

(* A frame that called another stands at the tag it called it for.         *)
Calls(d, fr, callee) ==
    /\ fr.stage = "pheaders"
    /\ fr.tag \in DOMAIN d.needed[fr.file]
    /\ callee.file = d.needed[fr.file][fr.tag]

StackOK(d, libs, st, short) ==
    /\ st \in Seq(Frame)
    /\ \A i \in 1 .. Len(st) : FrameOK(d, libs, st[i], i, short)
    /\ \A i \in 1 .. Len(st) - 1 : Calls(d, st[i], st[i + 1])

NeedsNoProgram(d) == \A f \in File : \A g \in NeededBy(d, f) : d.kind[g] # "program"
LoadsOnce(d, st) ==
    NeedsNoProgram(d) =>
        \A i, j \in 1 .. Len(st) : st[i].file = st[j].file => i = j

-----------------------------------------------------------------------------
(* A frame is loading library k and has not exported its symbols yet.      *)
InProgress(st, k) ==
    \E i \in 1 .. Len(st) :
        st[i].entry = k /\ st[i].stage \in {"pheaders", "sections", "symbols"}

LibraryOK(d, l) ==
    /\ l.symbols \subseteq Exports(d, l.name)
    /\ l.symbols # {} => l.sections
    /\ ~l.memory => l.run

LibrariesOK(d, libs, st) ==
    /\ libs \in Seq(Library)
    /\ \A k \in 1 .. Len(libs) :
          /\ LibraryOK(d, libs[k])
          /\ Good(d, libs[k].name) /\ libs[k].symbols # Exports(d, libs[k].name) =>
                InProgress(st, k)
          /\ \A j \in 1 .. k - 1 : libs[j].name = libs[k].name => libs[k].run

ProgramOK(d, libs, p) ==
    /\ p.slots \in Seq(Int)
    /\ p.intact /\ d.kind[p.file] = "program" /\ SoundNeeds(d, p.file) =>
          Len(p.slots) = Len(d.relocations[p.file])
    /\ \A i \in 1 .. Len(p.slots) :
          LET s == d.relocations[p.file][i]
          IN  s \in Symbol =>
                /\ p.slots[i] # NoLibrary =>
                      p.slots[i] \in p.mapped /\ LeadsTo(d, libs, p.file, i, p.slots[i])
                /\ p.intact /\ d.kind[p.file] = "program" /\ SoundNeeds(d, p.file)
                   /\ DefinersOn(d, p.file, s) # {} =>
                      /\ p.slots[i] # NoLibrary
                      /\ FirstDefines(d, libs, p.file, s, p.slots[i])
                      /\ ~libs[p.slots[i]].run

LoaderFine(d, libs, st, progs, short) ==
    /\ d \in Disk
    /\ short \in BOOLEAN
    /\ StackOK(d, libs, st, short)
    /\ LoadsOnce(d, st)
    /\ LibrariesOK(d, libs, st)
    /\ \A p \in progs : ProgramOK(d, libs, p)
LoaderInv == LoaderFine(disk, libraries, stack, programs, shortage)

-----------------------------------------------------------------------------
(* The disk *)

LEMMA DiskFacts ==
  ASSUME NEW d \in Disk, NEW f \in File
  PROVE  /\ d.kind[f] \in Kind
         /\ d.needed[f] \in Seq(File)
         /\ d.exports[f] \in Seq(Symbol)
         /\ d.relocations[f] \in Seq(Relocation)
BY LoaderAssumption

LEMMA NeededFacts ==
  ASSUME NEW d \in Disk, NEW f \in File, NEW i \in DOMAIN d.needed[f]
  PROVE  /\ d.needed[f][i] \in File
         /\ d.needed[f][i] \in NeededBy(d, f)
<1>1. d.needed[f] \in Seq(File)
  BY DiskFacts
<1>2. QED
  BY <1>1 DEF NeededBy

(* What a file with sound libraries needs is sound, and so are its needs.  *)
LEMMA GoodNeeds ==
  ASSUME NEW d \in Disk, NEW f \in File, SoundNeeds(d, f), NEW i \in DOMAIN d.needed[f]
  PROVE  Good(d, d.needed[f][i])
<1> DEFINE g == d.needed[f][i]
<1>1. g \in NeededBy(d, f)
  BY NeededFacts
<1>2. PICK S \in SUBSET File :
        NeededBy(d, f) \subseteq S /\ \A h \in S : SoundOn(d, h) /\ NeededBy(d, h) \subseteq S
  BY DEF SoundNeeds
<1>3. SoundOn(d, g) /\ NeededBy(d, g) \subseteq S
  BY <1>1, <1>2
<1>4. SoundNeeds(d, g)
  BY <1>2, <1>3 DEF SoundNeeds
<1>5. QED
  BY <1>3, <1>4 DEF Good

LEMMA GoodFacts ==
  ASSUME NEW d \in Disk, NEW f \in File, Good(d, f)
  PROVE  /\ d.kind[f] = "library"
         /\ SoundNeeds(d, f)
         /\ \A i \in DOMAIN d.exports[f] : d.exports[f][i] \notin Overlong
         /\ \A i \in DOMAIN d.relocations[f] : d.relocations[f][i] # Unsupported
         /\ Exports(d, f) = {d.exports[f][i] : i \in DOMAIN d.exports[f]}
<1>1. d.exports[f] \in Seq(Symbol)
  BY DiskFacts
<1>2. \A i \in DOMAIN d.exports[f] : d.exports[f][i] \notin Overlong
  BY DEF Good, SoundOn
<1>3. \A j \in DOMAIN d.exports[f] : \A k \in 1 .. j : k \in DOMAIN d.exports[f]
  BY <1>1
<1>4. Exports(d, f) = {d.exports[f][i] : i \in DOMAIN d.exports[f]}
  BY <1>2, <1>3 DEF Exports
<1>5. QED
  BY <1>2, <1>4 DEF Good, SoundOn

-----------------------------------------------------------------------------
(* The list *)

(* library_get finds the first library of the name, or there is none.      *)
GetFinds(g) ==
    IF library_get(g) = NoLibrary THEN ~Named(libraries, g)
    ELSE /\ library_get(g) \in 1 .. Len(libraries)
         /\ libraries[library_get(g)].name = g
         /\ FirstNamed(libraries, library_get(g))

LEMMA LibraryGet ==
  ASSUME libraries \in Seq(Library), NEW g
  PROVE  GetFinds(g)
<1> DEFINE named == {i \in DOMAIN libraries : libraries[i].name = g}
<1>1. DOMAIN libraries = 1 .. Len(libraries) /\ Len(libraries) \in Nat
  OBVIOUS
<1>2. CASE named = {}
  <2>1. library_get(g) = NoLibrary
    BY <1>2 DEF library_get
  <2>2. QED
    BY <1>1, <1>2, <2>1 DEF GetFinds, Named
<1>3. CASE named # {}
  <2>1. named \subseteq Nat
    BY <1>1
  <2> HIDE DEF named
  <2>2. \E i \in named : \A j \in named : i <= j
    BY <1>3, <2>1, LeastNat
  <2>3. library_get(g) = CHOOSE i \in named : \A j \in named : i <= j
    BY <1>3 DEF library_get, named
  <2>4. library_get(g) \in named /\ \A j \in named : library_get(g) <= j
    BY <2>2, <2>3
  <2>5. QED
    BY <1>1, <2>4 DEF GetFinds, FirstNamed, named, NoLibrary
<1>4. QED
  BY <1>2, <1>3

(* A list that keeps its libraries and may get more.                       *)
Grows(libs, libs2) ==
    /\ libs \in Seq(Library) /\ libs2 \in Seq(Library)
    /\ Len(libs) <= Len(libs2)
    /\ \A k \in 1 .. Len(libs) :
          /\ libs2[k].name = libs[k].name
          /\ libs2[k].run = libs[k].run
          /\ libs[k].sections => libs2[k].sections

GrowsFacts(d, libs, libs2) ==
    /\ 1 .. Len(libs) \subseteq 1 .. Len(libs2)
    /\ \A f : Named(libs, f) => Named(libs2, f)
    /\ \A k \in 1 .. Len(libs) : FirstNamed(libs, k) => FirstNamed(libs2, k)
    /\ \A f, i, k : LeadsTo(d, libs, f, i, k) => LeadsTo(d, libs2, f, i, k)
    /\ \A f, s, k : FirstDefines(d, libs, f, s, k) => FirstDefines(d, libs2, f, s, k)

LEMMA GrowsKeeps ==
  ASSUME NEW d, NEW libs, NEW libs2, Grows(libs, libs2)
  PROVE  GrowsFacts(d, libs, libs2)
<1>1. Len(libs) \in Nat /\ Len(libs2) \in Nat /\ Len(libs) <= Len(libs2)
  BY DEF Grows
<1>2. 1 .. Len(libs) \subseteq 1 .. Len(libs2)
  BY <1>1
<1>3. \A f : Named(libs, f) => Named(libs2, f)
  BY <1>2 DEF Named, Grows
<1>4. ASSUME NEW k \in 1 .. Len(libs), FirstNamed(libs, k) PROVE FirstNamed(libs2, k)
  <2>1. ASSUME NEW j \in 1 .. Len(libs2), libs2[j].name = libs2[k].name PROVE k <= j
    <3>1. CASE j \in 1 .. Len(libs)
      BY <1>4, <2>1, <3>1 DEF FirstNamed, Grows
    <3>2. CASE j \notin 1 .. Len(libs)
      BY <1>1, <3>2
    <3>3. QED
      BY <3>1, <3>2
  <2>2. QED
    BY <2>1 DEF FirstNamed
<1>5. \A f, i, k : LeadsTo(d, libs, f, i, k) => LeadsTo(d, libs2, f, i, k)
  BY <1>2 DEF LeadsTo, Grows
<1>6. \A f, s, k : FirstDefines(d, libs, f, s, k) => FirstDefines(d, libs2, f, s, k)
  BY <1>2 DEF FirstDefines, Grows
<1>7. QED
  BY <1>2, <1>3, <1>4, <1>5, <1>6 DEF GrowsFacts

LEMMA GrowsSelf == ASSUME NEW libs \in Seq(Library) PROVE Grows(libs, libs)
BY DEF Grows

LEMMA LinkedGrows ==
  ASSUME NEW d, NEW libs, NEW libs2, NEW f, NEW slots, NEW short, NEW short2,
         Grows(libs, libs2), short => short2, short2 \in BOOLEAN,
         LinkedSlots(d, libs, f, slots, short)
  PROVE  LinkedSlots(d, libs2, f, slots, short2)
<1>1. GrowsFacts(d, libs, libs2)
  BY GrowsKeeps
<1>2. ASSUME NEW i \in 1 .. Len(slots), d.relocations[f][i] \in Symbol
      PROVE  /\ slots[i] # NoLibrary => LeadsTo(d, libs2, f, i, slots[i])
             /\ ~short2 /\ SoundNeeds(d, f) /\ DefinersOn(d, f, d.relocations[f][i]) # {} =>
                    /\ slots[i] # NoLibrary
                    /\ FirstDefines(d, libs2, f, d.relocations[f][i], slots[i])
                    /\ FirstNamed(libs2, slots[i])
  <2>1. slots[i] # NoLibrary => LeadsTo(d, libs2, f, i, slots[i])
    BY <1>1, <1>2 DEF LinkedSlots, GrowsFacts
  <2>2. ASSUME ~short2, SoundNeeds(d, f), DefinersOn(d, f, d.relocations[f][i]) # {}
        PROVE  /\ slots[i] # NoLibrary
               /\ FirstDefines(d, libs2, f, d.relocations[f][i], slots[i])
               /\ FirstNamed(libs2, slots[i])
    <3>1. /\ slots[i] # NoLibrary
          /\ FirstDefines(d, libs, f, d.relocations[f][i], slots[i])
          /\ FirstNamed(libs, slots[i])
      BY <1>2, <2>2 DEF LinkedSlots
    <3>2. slots[i] \in 1 .. Len(libs)
      BY <3>1 DEF FirstDefines
    <3>3. QED
      BY <1>1, <3>1, <3>2 DEF GrowsFacts
  <2>3. QED
    BY <2>1, <2>2
<1>3. QED
  BY <1>2 DEF LinkedSlots

-----------------------------------------------------------------------------
(* Frames and the stack *)

LEMMA FrameGrows ==
  ASSUME NEW d, NEW libs, NEW libs2, NEW fr, NEW i, NEW short, NEW short2,
         Grows(libs, libs2), short => short2, short2 \in BOOLEAN,
         FrameOK(d, libs, fr, i, short),
         fr.stage \in {"open", "header"} /\ i > 1 => ~Named(libs2, fr.file)
  PROVE  FrameOK(d, libs2, fr, i, short2)
<1>1. GrowsFacts(d, libs, libs2)
  BY GrowsKeeps
<1>2. Begun(d, libs, fr, i) => Begun(d, libs2, fr, i)
  BY <1>1 DEF Begun, GrowsFacts, Grows
<1>3. ASSUME fr.stage \in {"symbols", "relocations"}, fr.entry # NoLibrary
      PROVE  libs2[fr.entry].sections
  <2>1. libs[fr.entry].sections /\ Begun(d, libs, fr, i)
    BY <1>3 DEF FrameOK, Past
  <2>2. fr.entry \in 1 .. Len(libs)
    BY <1>3, <2>1 DEF Begun
  <2>3. QED
    BY <2>1, <2>2 DEF Grows
<1>4. LinkedSlots(d, libs, fr.file, fr.slots, short) =>
        LinkedSlots(d, libs2, fr.file, fr.slots, short2)
  BY LinkedGrows
<1>5. NeedsListed(d, libs, fr) => NeedsListed(d, libs2, fr)
  BY <1>1 DEF NeedsListed, GrowsFacts
<1>6. QED
  BY <1>2, <1>3, <1>4, <1>5 DEF FrameOK

(* What all that follows needs of a stack that is not empty.               *)
StackFacts(st) ==
    /\ Len(st) \in Nat \ {0}
    /\ DOMAIN st = 1 .. Len(st)
    /\ \A i \in 1 .. Len(st) : st[i] \in Frame

LEMMA StackHasTop ==
  ASSUME NEW st \in Seq(Frame), st # <<>>
  PROVE  StackFacts(st)
BY DEF StackFacts

FramesGrow(d, libs, st, short, libs2, short2) ==
    \A i \in 1 .. Len(st) - 1 : FrameOK(d, libs2, st[i], i, short2)

(* The frames below the top do not mind what it does to the list.          *)
LEMMA CallersGrow ==
  ASSUME NEW d, NEW libs, NEW libs2, NEW st, NEW short, NEW short2,
         Grows(libs, libs2), short => short2, short2 \in BOOLEAN,
         StackOK(d, libs, st, short), st # <<>>
  PROVE  FramesGrow(d, libs, st, short, libs2, short2)
<1>1. SUFFICES ASSUME NEW i \in 1 .. Len(st) - 1
               PROVE  FrameOK(d, libs2, st[i], i, short2)
  BY DEF FramesGrow
<1>2. StackFacts(st)
  BY StackHasTop DEF StackOK
<1>3. FrameOK(d, libs, st[i], i, short) /\ Calls(d, st[i], st[i + 1])
  BY <1>2 DEF StackOK, StackFacts
<1>4. st[i].stage \notin {"open", "header"}
  BY <1>3 DEF Calls
<1>5. QED
  BY <1>3, <1>4, FrameGrows

WithTop(st, fr) == [st EXCEPT ![Len(st)] = fr]
Popped(st, fr) == [i \in 1 .. Len(st) - 1 |-> IF i < Len(st) - 1 THEN st[i] ELSE fr]

WithTopFacts(st, fr) ==
    /\ WithTop(st, fr) \in Seq(Frame)
    /\ Len(WithTop(st, fr)) = Len(st)
    /\ \A i \in 1 .. Len(st) - 1 : WithTop(st, fr)[i] = st[i]
    /\ WithTop(st, fr)[Len(st)] = fr

LEMMA WithTopIs ==
  ASSUME NEW st \in Seq(Frame), st # <<>>, NEW fr \in Frame
  PROVE  WithTopFacts(st, fr)
<1>1. Len(st) \in 1 .. Len(st) /\ Len(st) \in Nat
  OBVIOUS
<1>2. QED
  BY <1>1 DEF WithTop, WithTopFacts

PoppedFacts(st, fr) ==
    /\ Popped(st, fr) \in Seq(Frame)
    /\ Len(Popped(st, fr)) = Len(st) - 1
    /\ \A i \in 1 .. Len(st) - 2 : Popped(st, fr)[i] = st[i]
    /\ Popped(st, fr)[Len(st) - 1] = fr

LEMMA PoppedIs ==
  ASSUME NEW st \in Seq(Frame), Len(st) > 1, NEW fr \in Frame
  PROVE  PoppedFacts(st, fr)
<1>1. Len(st) - 1 \in Nat /\ Len(st) - 1 \in 1 .. Len(st) - 1
  OBVIOUS
<1>2. \A i \in 1 .. Len(st) - 1 : Popped(st, fr)[i] \in Frame
  BY DEF Popped
<1>3. Popped(st, fr) \in Seq(Frame) /\ Len(Popped(st, fr)) = Len(st) - 1
  BY <1>1, <1>2 DEF Popped
<1>4. QED
  BY <1>1, <1>3 DEF Popped, PoppedFacts

PushedFacts(st, fr) ==
    /\ Append(st, fr) \in Seq(Frame)
    /\ Len(Append(st, fr)) = Len(st) + 1
    /\ \A i \in 1 .. Len(st) : Append(st, fr)[i] = st[i]
    /\ Append(st, fr)[Len(st) + 1] = fr

LEMMA PushedIs ==
  ASSUME NEW st \in Seq(Frame), NEW fr \in Frame
  PROVE  PushedFacts(st, fr)
BY DEF PushedFacts

LEMMA TopKeepsStack ==
  ASSUME NEW d, NEW libs, NEW libs2, NEW st, NEW short, NEW short2, NEW fr \in Frame,
         Grows(libs, libs2), short => short2, short2 \in BOOLEAN,
         StackOK(d, libs, st, short), st # <<>>,
         fr.file = st[Len(st)].file, FrameOK(d, libs2, fr, Len(st), short2)
  PROVE  StackOK(d, libs2, WithTop(st, fr), short2)
<1> DEFINE st2 == WithTop(st, fr)
<1>1. StackFacts(st) /\ st \in Seq(Frame)
  BY StackHasTop DEF StackOK
<1>2. WithTopFacts(st, fr)
  BY <1>1, WithTopIs
<1>2a. Len(st2) = Len(st) /\ Len(st) \in Nat
  BY <1>1, <1>2 DEF WithTopFacts, StackFacts
<1>3. FramesGrow(d, libs, st, short, libs2, short2)
  BY CallersGrow
<1> HIDE DEF st2
<1>4. ASSUME NEW i \in 1 .. Len(st2) PROVE FrameOK(d, libs2, st2[i], i, short2)
  <2>1. CASE i = Len(st)
    BY <1>2, <2>1 DEF WithTopFacts, st2
  <2>2. CASE i # Len(st)
    <3>1. i \in 1 .. Len(st) - 1
      BY <1>2a, <2>2
    <3>2. st2[i] = st[i]
      BY <1>2, <3>1 DEF WithTopFacts, st2
    <3>3. QED
      BY <1>3, <3>1, <3>2 DEF FramesGrow
  <2>3. QED
    BY <2>1, <2>2
<1>5. ASSUME NEW i \in 1 .. Len(st2) - 1 PROVE Calls(d, st2[i], st2[i + 1])
  <2>1. i \in 1 .. Len(st) - 1 /\ st2[i] = st[i] /\ Calls(d, st[i], st[i + 1])
    BY <1>2, <1>2a DEF WithTopFacts, st2, StackOK
  <2>2. st2[i + 1].file = st[i + 1].file
    <3>1. CASE i + 1 = Len(st)
      BY <1>2, <3>1 DEF WithTopFacts, st2
    <3>2. CASE i + 1 # Len(st)
      <4>1. i + 1 \in 1 .. Len(st) - 1
        BY <1>2a, <2>1, <3>2
      <4>2. QED
        BY <1>2, <4>1 DEF WithTopFacts, st2
    <3>3. QED
      BY <3>1, <3>2
  <2>3. QED
    BY <2>1, <2>2 DEF Calls
<1>6. st2 \in Seq(Frame)
  BY <1>2 DEF WithTopFacts, st2
<1>7. QED
  BY <1>4, <1>5, <1>6 DEF StackOK, st2

LEMMA PopKeepsStack ==
  ASSUME NEW d, NEW libs, NEW libs2, NEW st, NEW short, NEW short2, NEW fr \in Frame,
         Grows(libs, libs2), short => short2, short2 \in BOOLEAN,
         StackOK(d, libs, st, short), Len(st) > 1,
         fr.file = st[Len(st) - 1].file, FrameOK(d, libs2, fr, Len(st) - 1, short2)
  PROVE  StackOK(d, libs2, Popped(st, fr), short2)
<1> DEFINE st2 == Popped(st, fr)
<1>0. st \in Seq(Frame) /\ st # <<>>
  BY DEF StackOK
<1>1. StackFacts(st)
  BY <1>0, StackHasTop
<1>2. PoppedFacts(st, fr)
  BY <1>0, PoppedIs
<1>2a. Len(st2) = Len(st) - 1 /\ Len(st) \in Nat
  BY <1>1, <1>2 DEF PoppedFacts, StackFacts
<1>3. FramesGrow(d, libs, st, short, libs2, short2)
  BY <1>0, CallersGrow
<1> HIDE DEF st2
<1>4. ASSUME NEW i \in 1 .. Len(st2) PROVE FrameOK(d, libs2, st2[i], i, short2)
  <2>1. CASE i = Len(st) - 1
    BY <1>2, <2>1 DEF PoppedFacts, st2
  <2>2. CASE i # Len(st) - 1
    <3>1. i \in 1 .. Len(st) - 2 /\ i \in 1 .. Len(st) - 1
      BY <1>2a, <2>2
    <3>2. st2[i] = st[i]
      BY <1>2, <3>1 DEF PoppedFacts, st2
    <3>3. QED
      BY <1>3, <3>1, <3>2 DEF FramesGrow
  <2>3. QED
    BY <2>1, <2>2
<1>5. ASSUME NEW i \in 1 .. Len(st2) - 1 PROVE Calls(d, st2[i], st2[i + 1])
  <2>0. i \in 1 .. Len(st) - 2 /\ i \in 1 .. Len(st) - 1
    BY <1>2a
  <2>1. st2[i] = st[i] /\ Calls(d, st[i], st[i + 1])
    BY <1>2, <2>0 DEF PoppedFacts, st2, StackOK
  <2>2. st2[i + 1].file = st[i + 1].file
    <3>1. CASE i + 1 = Len(st) - 1
      BY <1>2, <3>1 DEF PoppedFacts, st2
    <3>2. CASE i + 1 # Len(st) - 1
      <4>1. i + 1 \in 1 .. Len(st) - 2
        BY <1>2a, <2>0, <3>2
      <4>2. QED
        BY <1>2, <4>1 DEF PoppedFacts, st2
    <3>3. QED
      BY <3>1, <3>2
  <2>3. QED
    BY <2>1, <2>2 DEF Calls
<1>6. st2 \in Seq(Frame)
  BY <1>2 DEF PoppedFacts, st2
<1>7. QED
  BY <1>4, <1>5, <1>6 DEF StackOK, st2

LEMMA PushKeepsStack ==
  ASSUME NEW d, NEW libs, NEW st, NEW short, NEW fr \in Frame,
         StackOK(d, libs, st, short),
         st # <<>> => Calls(d, st[Len(st)], fr),
         FrameOK(d, libs, fr, Len(st) + 1, short)
  PROVE  StackOK(d, libs, Append(st, fr), short)
<1> DEFINE st2 == Append(st, fr)
<1>1. st \in Seq(Frame) /\ Len(st) \in Nat /\ (Len(st) > 0 => st # <<>>)
  BY DEF StackOK
<1>2. PushedFacts(st, fr)
  BY <1>1, PushedIs
<1>2a. Len(st2) = Len(st) + 1
  BY <1>2 DEF PushedFacts
<1> HIDE DEF st2
<1>3. ASSUME NEW i \in 1 .. Len(st2) PROVE FrameOK(d, libs, st2[i], i, short)
  <2>1. CASE i = Len(st) + 1
    BY <1>2, <2>1 DEF PushedFacts, st2
  <2>2. CASE i # Len(st) + 1
    <3>1. i \in 1 .. Len(st)
      BY <1>1, <1>2a, <2>2
    <3>2. st2[i] = st[i]
      BY <1>2, <3>1 DEF PushedFacts, st2
    <3>3. QED
      BY <3>1, <3>2 DEF StackOK
  <2>3. QED
    BY <2>1, <2>2
<1>4. ASSUME NEW i \in 1 .. Len(st2) - 1 PROVE Calls(d, st2[i], st2[i + 1])
  <2>0. i \in 1 .. Len(st)
    BY <1>1, <1>2a
  <2>1. st2[i] = st[i]
    BY <1>2, <2>0 DEF PushedFacts, st2
  <2>2. CASE i = Len(st)
    <3>1. st2[i + 1] = fr /\ st # <<>>
      BY <1>1, <1>2, <2>0, <2>2 DEF PushedFacts, st2
    <3>2. QED
      BY <2>1, <2>2, <3>1
  <2>3. CASE i # Len(st)
    <3>1. i \in 1 .. Len(st) - 1 /\ i + 1 \in 1 .. Len(st)
      BY <1>1, <2>0, <2>3
    <3>2. st2[i + 1] = st[i + 1] /\ Calls(d, st[i], st[i + 1])
      BY <1>2, <3>1 DEF PushedFacts, st2, StackOK
    <3>3. QED
      BY <2>1, <3>2
  <2>4. QED
    BY <2>2, <2>3
<1>5. st2 \in Seq(Frame)
  BY <1>2 DEF PushedFacts, st2
<1>6. QED
  BY <1>3, <1>4, <1>5 DEF StackOK, st2

-----------------------------------------------------------------------------
(* What is loaded at the same time *)

LEMMA TopLoadsOnce ==
  ASSUME NEW d, NEW st \in Seq(Frame), st # <<>>, NEW fr \in Frame,
         fr.file = st[Len(st)].file, LoadsOnce(d, st)
  PROVE  LoadsOnce(d, WithTop(st, fr))
<1> DEFINE st2 == WithTop(st, fr)
<1>0. Len(st) \in Nat
  OBVIOUS
<1>1. WithTopFacts(st, fr)
  BY WithTopIs
<1>2. Len(st2) = Len(st)
  BY <1>1 DEF WithTopFacts
<1>3. ASSUME NEW i \in 1 .. Len(st) PROVE st2[i].file = st[i].file
  <2>1. CASE i = Len(st)
    BY <1>1, <2>1 DEF WithTopFacts
  <2>2. CASE i # Len(st)
    <3>1. i \in 1 .. Len(st) - 1
      BY <1>0, <2>2
    <3>2. QED
      BY <1>1, <3>1 DEF WithTopFacts
  <2>3. QED
    BY <2>1, <2>2
<1> HIDE DEF st2
<1>4. QED
  BY <1>2, <1>3 DEF LoadsOnce, st2

LEMMA PopLoadsOnce ==
  ASSUME NEW d, NEW st \in Seq(Frame), Len(st) > 1, NEW fr \in Frame,
         fr.file = st[Len(st) - 1].file, LoadsOnce(d, st)
  PROVE  LoadsOnce(d, Popped(st, fr))
<1> DEFINE st2 == Popped(st, fr)
<1>1. PoppedFacts(st, fr) /\ Len(st) \in Nat
  BY PoppedIs
<1>2. Len(st2) = Len(st) - 1 /\ 1 .. Len(st) - 1 \subseteq 1 .. Len(st)
  BY <1>1 DEF PoppedFacts
<1>3. ASSUME NEW i \in 1 .. Len(st) - 1 PROVE st2[i].file = st[i].file
  <2>1. CASE i = Len(st) - 1
    BY <1>1, <2>1 DEF PoppedFacts
  <2>2. CASE i # Len(st) - 1
    <3>1. i \in 1 .. Len(st) - 2
      BY <1>1, <2>2
    <3>2. QED
      BY <1>1, <3>1 DEF PoppedFacts
  <2>3. QED
    BY <2>1, <2>2
<1> HIDE DEF st2
<1>4. QED
  BY <1>2, <1>3 DEF LoadsOnce, st2

(* A file that is on no list is not being loaded, if it is no program.     *)
LEMMA PushLoadsOnce ==
  ASSUME NEW d \in Disk, NEW libs, NEW st, NEW short, NEW fr \in Frame,
         StackOK(d, libs, st, short), st # <<>>, Calls(d, st[Len(st)], fr),
         ~Named(libs, fr.file), LoadsOnce(d, st)
  PROVE  LoadsOnce(d, Append(st, fr))
<1> DEFINE st2 == Append(st, fr)
           n == Len(st)
<1>1. st \in Seq(Frame) /\ n \in Nat \ {0}
  BY DEF StackOK
<1>2. PushedFacts(st, fr)
  BY <1>1, PushedIs
<1>3. ASSUME NeedsNoProgram(d), NEW i \in 1 .. n PROVE st[i].file # fr.file
  <2>1. st[n] \in Frame /\ st[i] \in Frame
    BY <1>1
  <2>2. d.kind[fr.file] # "program"
    <3>1. st[n].file \in File /\ fr.file \in NeededBy(d, st[n].file)
      BY <2>1, NeededFacts DEF Calls, Frame
    <3>2. QED
      BY <1>3, <3>1 DEF NeedsNoProgram
  <2>3. st[i].stage = "pheaders"
    <3>1. CASE i = n
      BY <3>1 DEF Calls
    <3>2. CASE i # n
      <4>1. i \in 1 .. Len(st) - 1
        BY <1>1, <3>2
      <4>2. QED
        BY <4>1 DEF StackOK, Calls
    <3>3. QED
      BY <3>1, <3>2
  <2>4. Begun(d, libs, st[i], i)
    BY <2>3 DEF StackOK, FrameOK, Past
  <2>5. QED
    BY <2>2, <2>4 DEF Begun, Named
<1> HIDE DEF st2, n
<1>4. SUFFICES ASSUME NeedsNoProgram(d), NEW i \in 1 .. Len(st2), NEW j \in 1 .. Len(st2),
                      st2[i].file = st2[j].file
               PROVE  i = j
  BY DEF LoadsOnce, st2
<1>5. Len(st2) = n + 1 /\ st2[n + 1] = fr /\ \A k \in 1 .. n : st2[k] = st[k]
  BY <1>2 DEF PushedFacts, st2, n
<1>6. i \in 1 .. n \/ i = n + 1
  BY <1>1, <1>5
<1>7. j \in 1 .. n \/ j = n + 1
  BY <1>1, <1>5
<1>8. CASE i \in 1 .. n /\ j \in 1 .. n
  BY <1>4, <1>5, <1>8 DEF LoadsOnce, n
<1>9. QED
  BY <1>3, <1>4, <1>5, <1>6, <1>7, <1>8

-----------------------------------------------------------------------------
(* The list while the stack changes *)

LEMMA TopInProgress ==
  ASSUME NEW st \in Seq(Frame), st # <<>>, NEW fr \in Frame, NEW k, InProgress(st, k),
         st[Len(st)].entry = k /\ st[Len(st)].stage \in {"pheaders", "sections", "symbols"} =>
            fr.entry = k /\ fr.stage \in {"pheaders", "sections", "symbols"}
  PROVE  InProgress(WithTop(st, fr), k)
<1> DEFINE st2 == WithTop(st, fr)
<1>0. Len(st) \in Nat
  OBVIOUS
<1>1. WithTopFacts(st, fr)
  BY WithTopIs
<1>2. PICK i \in 1 .. Len(st) :
        st[i].entry = k /\ st[i].stage \in {"pheaders", "sections", "symbols"}
  BY DEF InProgress
<1>3. Len(st2) = Len(st) /\ st2[Len(st)] = fr /\ \A j \in 1 .. Len(st) - 1 : st2[j] = st[j]
  BY <1>1 DEF WithTopFacts
<1> HIDE DEF st2
<1>4. CASE i = Len(st)
  BY <1>2, <1>3, <1>4 DEF InProgress, st2
<1>5. CASE i # Len(st)
  <2>1. i \in 1 .. Len(st) - 1
    BY <1>0, <1>5
  <2>2. QED
    BY <1>2, <1>3, <2>1 DEF InProgress, st2
<1>6. QED
  BY <1>4, <1>5

LEMMA PopInProgress ==
  ASSUME NEW st \in Seq(Frame), Len(st) > 1, NEW fr \in Frame, NEW k, InProgress(st, k),
         ~(st[Len(st)].entry = k /\ st[Len(st)].stage \in {"pheaders", "sections", "symbols"}),
         st[Len(st) - 1].entry = k /\ st[Len(st) - 1].stage \in {"pheaders", "sections", "symbols"} =>
            fr.entry = k /\ fr.stage \in {"pheaders", "sections", "symbols"}
  PROVE  InProgress(Popped(st, fr), k)
<1> DEFINE st2 == Popped(st, fr)
<1>1. PoppedFacts(st, fr) /\ Len(st) \in Nat
  BY PoppedIs
<1>2. PICK i \in 1 .. Len(st) :
        st[i].entry = k /\ st[i].stage \in {"pheaders", "sections", "symbols"}
  BY DEF InProgress
<1>3. Len(st2) = Len(st) - 1 /\ st2[Len(st) - 1] = fr /\ \A j \in 1 .. Len(st) - 2 : st2[j] = st[j]
  BY <1>1 DEF PoppedFacts
<1> HIDE DEF st2
<1>4. i \in 1 .. Len(st) - 1
  <2>1. i # Len(st)
    BY <1>2
  <2>2. QED
    BY <1>1, <2>1
<1>5. CASE i = Len(st) - 1
  BY <1>2, <1>3, <1>4, <1>5 DEF InProgress, st2
<1>6. CASE i # Len(st) - 1
  <2>1. i \in 1 .. Len(st) - 2
    BY <1>1, <1>4, <1>6
  <2>2. QED
    BY <1>2, <1>3, <1>4, <2>1 DEF InProgress, st2
<1>7. QED
  BY <1>5, <1>6

LEMMA PushInProgress ==
  ASSUME NEW st \in Seq(Frame), NEW fr \in Frame, NEW k, InProgress(st, k)
  PROVE  InProgress(Append(st, fr), k)
<1>1. PushedFacts(st, fr) /\ Len(st) \in Nat
  BY PushedIs
<1>2. QED
  BY <1>1 DEF InProgress, PushedFacts

(* The libraries are fine with another stack on which all those still are  *)
(* that were in progress and whose symbols must come.                      *)
LEMMA LibrariesKept ==
  ASSUME NEW d, NEW libs, NEW st, NEW st2, LibrariesOK(d, libs, st),
         \A k \in 1 .. Len(libs) :
            Good(d, libs[k].name) /\ InProgress(st, k) => InProgress(st2, k)
  PROVE  LibrariesOK(d, libs, st2)
BY DEF LibrariesOK

LEMMA ProgramGrows ==
  ASSUME NEW d, NEW libs, NEW libs2, NEW p, Grows(libs, libs2), ProgramOK(d, libs, p)
  PROVE  ProgramOK(d, libs2, p)
<1>1. GrowsFacts(d, libs, libs2)
  BY GrowsKeeps
<1>2. ASSUME NEW i \in 1 .. Len(p.slots), d.relocations[p.file][i] \in Symbol
      PROVE  /\ p.slots[i] # NoLibrary =>
                   p.slots[i] \in p.mapped /\ LeadsTo(d, libs2, p.file, i, p.slots[i])
             /\ p.intact /\ d.kind[p.file] = "program" /\ SoundNeeds(d, p.file)
                /\ DefinersOn(d, p.file, d.relocations[p.file][i]) # {} =>
                   /\ p.slots[i] # NoLibrary
                   /\ FirstDefines(d, libs2, p.file, d.relocations[p.file][i], p.slots[i])
                   /\ ~libs2[p.slots[i]].run
  <2>1. p.slots[i] # NoLibrary =>
          p.slots[i] \in p.mapped /\ LeadsTo(d, libs2, p.file, i, p.slots[i])
    BY <1>1, <1>2 DEF ProgramOK, GrowsFacts
  <2>2. ASSUME p.intact, d.kind[p.file] = "program", SoundNeeds(d, p.file),
               DefinersOn(d, p.file, d.relocations[p.file][i]) # {}
        PROVE  /\ p.slots[i] # NoLibrary
               /\ FirstDefines(d, libs2, p.file, d.relocations[p.file][i], p.slots[i])
               /\ ~libs2[p.slots[i]].run
    <3>1. /\ p.slots[i] # NoLibrary
          /\ FirstDefines(d, libs, p.file, d.relocations[p.file][i], p.slots[i])
          /\ ~libs[p.slots[i]].run
      BY <1>2, <2>2 DEF ProgramOK
    <3>2. p.slots[i] \in 1 .. Len(libs)
      BY <3>1 DEF FirstDefines
    <3>3. QED
      BY <1>1, <3>1, <3>2 DEF GrowsFacts, Grows
  <2>3. QED
    BY <2>1, <2>2
<1>3. QED
  BY <1>2 DEF ProgramOK

-----------------------------------------------------------------------------
(* Going on with the file that is loaded, and returning to its caller *)

LEMMA StayKeeps ==
  ASSUME NEW d, NEW libs, NEW st, NEW progs, NEW short, NEW libs2, NEW short2, NEW fr \in Frame,
         LoaderFine(d, libs, st, progs, short), st # <<>>,
         Grows(libs, libs2), short => short2, short2 \in BOOLEAN,
         fr.file = st[Len(st)].file, FrameOK(d, libs2, fr, Len(st), short2),
         LibrariesOK(d, libs2, WithTop(st, fr))
  PROVE  LoaderFine(d, libs2, WithTop(st, fr), progs, short2)
<1>1. StackOK(d, libs, st, short) /\ st \in Seq(Frame)
  BY DEF LoaderFine, StackOK
<1>2. StackOK(d, libs2, WithTop(st, fr), short2)
  BY <1>1, TopKeepsStack
<1>3. LoadsOnce(d, WithTop(st, fr))
  BY <1>1, TopLoadsOnce DEF LoaderFine
<1>4. \A p \in progs : ProgramOK(d, libs2, p)
  BY ProgramGrows DEF LoaderFine
<1>5. QED
  BY <1>2, <1>3, <1>4 DEF LoaderFine

(* What elf_load returns, of a given stack. *)
Results == {"loaded", "nothing", "failed", "EINFORMAT"}
AfterCall(fr, r) == IF r \in {"loaded", "nothing"} THEN [fr EXCEPT !.tag = @ + 1]
                    ELSE [fr EXCEPT !.stage = "out", !.result = r]
Returned(st, r) ==
    IF Len(st) = 1 THEN <<[st[1] EXCEPT !.stage = r]>>
    ELSE Popped(st, AfterCall(st[Len(st) - 1], r))

(* A sound library is loaded or the descriptors have run out, and a load   *)
(* that returns is not one whose symbols must still come.                  *)
MayReturn(d, libs, st, r, short2) ==
    LET top == st[Len(st)]
    IN  /\ top.stage # "loaded"
        /\ r = "EINFORMAT" =>
              ~(SoundNeeds(d, top.file) /\ d.kind[top.file] \in {"program", "library"})
        /\ r = "loaded" => /\ top.stage = "relocations"
                           /\ Len(st) = 1 => d.kind[top.file] = "library"
        /\ Good(d, top.file) => /\ r = "loaded" \/ (r = "nothing" /\ short2)
                                /\ top.stage \notin {"pheaders", "sections", "symbols"}

LEMMA ReturnFirst ==
  ASSUME NEW d, NEW libs, NEW st, NEW progs, NEW short, NEW short2, NEW r \in Results,
         LoaderFine(d, libs, st, progs, short), Len(st) = 1,
         short => short2, short2 \in BOOLEAN, MayReturn(d, libs, st, r, short2)
  PROVE  LoaderFine(d, libs, Returned(st, r), progs, short2)
<1> DEFINE top == st[1]
           fr == [top EXCEPT !.stage = r]
<1>1. st \in Seq(Frame) /\ top \in Frame /\ st = <<top>> /\ st # <<>>
  BY DEF LoaderFine, StackOK
<1>2. FrameOK(d, libs, top, 1, short) /\ libs \in Seq(Library)
  BY <1>1 DEF LoaderFine, StackOK, LibrariesOK
<1>3. /\ fr \in Frame /\ fr.file = top.file /\ fr.stage = r /\ fr.entry = top.entry
      /\ fr.slots = top.slots
  BY <1>1 DEF Frame, Stage, Results
<1>4. WithTop(st, fr) = Returned(st, r)
  BY <1>1 DEF WithTop, Returned
<1>5. top.slots = <<>>
  BY <1>2 DEF FrameOK, MayReturn
<1>6. ASSUME r = "loaded"
      PROVE  /\ Begun(d, libs, fr, 1)
             /\ LinkedSlots(d, libs, fr.file, fr.slots, short2)
             /\ ~short2 /\ SoundNeeds(d, fr.file) => NeedsListed(d, libs, fr)
  <2>1. top.stage = "relocations" /\ d.kind[top.file] = "library"
    BY <1>1, <1>6 DEF MayReturn
  <2>2. Begun(d, libs, top, 1)
    BY <1>2, <2>1 DEF FrameOK, Past
  <2>3. Begun(d, libs, fr, 1)
    BY <1>3, <2>2 DEF Begun
  <2>4. LinkedSlots(d, libs, fr.file, fr.slots, short2)
    BY <1>3, <1>5, <2>1 DEF LinkedSlots
  <2>5. SoundNeeds(d, top.file) /\ ~short => NeedsListed(d, libs, top)
    BY <1>2, <2>1 DEF FrameOK
  <2>6. NeedsListed(d, libs, top) => NeedsListed(d, libs, fr)
    BY <1>3, <1>6, <2>1 DEF NeedsListed, Past, Gone
  <2>7. QED
    BY <1>3, <2>3, <2>4, <2>5, <2>6
<1>7. FrameOK(d, libs, fr, 1, short2)
  <2>1. r = "EINFORMAT" =>
           ~(SoundNeeds(d, fr.file) /\ d.kind[fr.file] \in {"program", "library"})
    BY <1>1, <1>3 DEF MayReturn
  <2>2. r # "loaded" => NeedsListed(d, libs, fr)
    BY <1>3 DEF NeedsListed, Past, Results
  <2> HIDE DEF fr, top
  <2>3. QED
    BY <1>3, <1>5, <1>6, <2>1, <2>2 DEF FrameOK, Results, Past
<1>8. ASSUME NEW k \in 1 .. Len(libs), Good(d, libs[k].name), InProgress(st, k)
      PROVE  FALSE
  <2>1. top.entry = k /\ top.stage \in {"pheaders", "sections", "symbols"}
    BY <1>1, <1>8 DEF InProgress
  <2>2. Begun(d, libs, top, 1) /\ k # NoLibrary
    BY <1>2, <2>1 DEF FrameOK, Past, NoLibrary
  <2>3. libs[k].name = top.file
    BY <2>1, <2>2 DEF Begun
  <2>4. QED
    BY <1>1, <1>8, <2>1, <2>3 DEF MayReturn
<1>9. LibrariesOK(d, libs, WithTop(st, fr))
  <2>1. LibrariesOK(d, libs, st)
    BY DEF LoaderFine
  <2> HIDE DEF fr, top
  <2>2. QED
    BY <1>8, <2>1, LibrariesKept
<1> HIDE DEF fr, top
<1>10. Grows(libs, libs)
  BY <1>2, GrowsSelf
<1>11. LoaderFine(d, libs, WithTop(st, fr), progs, short2)
  <2>1. fr.file = st[Len(st)].file /\ FrameOK(d, libs, fr, Len(st), short2)
    BY <1>3, <1>7 DEF top
  <2>2. QED
    BY <1>1, <1>3, <1>9, <1>10, <2>1, StayKeeps
<1>12. QED
  BY <1>4, <1>11

LEMMA ReturnCaller ==
  ASSUME NEW d \in Disk, NEW libs, NEW st, NEW progs, NEW short, NEW short2, NEW r \in Results,
         LoaderFine(d, libs, st, progs, short), Len(st) > 1,
         short => short2, short2 \in BOOLEAN, MayReturn(d, libs, st, r, short2)
  PROVE  LoaderFine(d, libs, Returned(st, r), progs, short2)
<1>0. st \in Seq(Frame)
  BY DEF LoaderFine, StackOK
<1>0a. Len(st) \in Nat
  BY <1>0
<1>0b. Len(st) # 1
  <2>1. \A m \in Nat : m > 1 => m # 1
    OBVIOUS
  <2>2. QED
    BY <1>0a, <2>1
<1> DEFINE n == Len(st)
           top == st[n]
           c == st[n - 1]
           fr == AfterCall(c, r)
<1>1. st \in Seq(Frame) /\ n \in Nat /\ n - 1 \in 1 .. n - 1 /\ n - 1 \in 1 .. n /\ n \in 1 .. n
  BY DEF LoaderFine, StackOK
<1>2. top \in Frame /\ c \in Frame
  BY <1>1
<1>3. /\ FrameOK(d, libs, top, n, short)
      /\ FrameOK(d, libs, c, n - 1, short)
      /\ Calls(d, c, top)
  <2>1. (n - 1) + 1 = n
    BY <1>1
  <2>2. QED
    BY <1>1, <2>1 DEF LoaderFine, StackOK
<1>4. libs \in Seq(Library) /\ LibrariesOK(d, libs, st)
  BY DEF LoaderFine, LibrariesOK
<1>5. Returned(st, r) = Popped(st, fr)
  BY <1>0b DEF Returned
<1>6. /\ c.stage = "pheaders" /\ c.tag \in DOMAIN d.needed[c.file]
      /\ top.file = d.needed[c.file][c.tag] /\ c.file \in File /\ c.tag \in Nat \ {0}
  BY <1>2, <1>3 DEF Calls, Frame
<1>7. SoundNeeds(d, c.file) => Good(d, top.file)
  BY <1>6, GoodNeeds
<1>8. Good(d, top.file) => /\ r = "loaded" \/ (r = "nothing" /\ short2)
                           /\ top.stage \notin {"pheaders", "sections", "symbols"}
  BY DEF MayReturn
<1>9. r = "loaded" /\ Good(d, top.file) => Named(libs, top.file)
  <2>1. SUFFICES ASSUME r = "loaded", Good(d, top.file) PROVE Named(libs, top.file)
    OBVIOUS
  <2>2. top.stage = "relocations"
    BY <2>1 DEF MayReturn
  <2>3. Begun(d, libs, top, n)
    BY <1>3, <2>2 DEF FrameOK, Past
  <2>4. d.kind[top.file] = "library"
    BY <2>1 DEF Good, SoundOn
  <2>5. QED
    BY <2>3, <2>4 DEF Begun, Named
<1>10. Begun(d, libs, c, n - 1) /\ c.slots = <<>>
  BY <1>3, <1>6 DEF FrameOK, Past
<1>11. /\ fr \in Frame /\ fr.file = c.file /\ fr.entry = c.entry /\ fr.slots = <<>>
       /\ r \in {"loaded", "nothing"} => fr.stage = "pheaders" /\ fr.tag = c.tag + 1
       /\ r \notin {"loaded", "nothing"} => fr.stage = "out" /\ fr.result = r
  <2>1. CASE r \in {"loaded", "nothing"}
    <3>1. fr = [c EXCEPT !.tag = @ + 1] /\ c.tag + 1 \in Nat \ {0}
      BY <1>6, <2>1 DEF AfterCall
    <3>2. QED
      BY <1>2, <1>6, <1>10, <2>1, <3>1 DEF Frame
  <2>2. CASE r \notin {"loaded", "nothing"}
    <3>1. fr = [c EXCEPT !.stage = "out", !.result = r] /\ r \in {"none", "failed", "EINFORMAT"}
      BY <2>2 DEF AfterCall, Results
    <3>2. QED
      BY <1>2, <1>10, <2>2, <3>1 DEF Frame, Stage
  <2>3. QED
    BY <2>1, <2>2
<1> HIDE DEF fr, c, top, n
<1>12. Begun(d, libs, fr, n - 1)
  BY <1>10, <1>11 DEF Begun
<1>13. SoundNeeds(d, c.file) /\ ~short2 /\ d.kind[c.file] \in {"program", "library"} =>
         NeedsListed(d, libs, fr)
  <2>1. SUFFICES ASSUME SoundNeeds(d, c.file), ~short2, d.kind[c.file] \in {"program", "library"},
                        NEW j \in DOMAIN d.needed[fr.file], j \in Gone(fr)
                 PROVE  Named(libs, d.needed[fr.file][j])
    BY DEF NeedsListed
  <2>2. fr.stage = "pheaders" /\ fr.tag = c.tag + 1 /\ Named(libs, top.file)
    BY <1>7, <1>8, <1>9, <1>11, <2>1
  <2>3. j \in 1 .. c.tag
    BY <1>6, <2>1, <2>2 DEF Gone
  <2>4. CASE j = c.tag
    BY <1>6, <1>11, <2>2, <2>4
  <2>5. CASE j # c.tag
    <3>1. j \in Gone(c)
      BY <1>6, <2>3, <2>5 DEF Gone
    <3>2. NeedsListed(d, libs, c)
      BY <1>3, <2>1 DEF FrameOK
    <3>3. QED
      BY <1>6, <1>11, <2>1, <3>1, <3>2 DEF NeedsListed, Past
  <2>6. QED
    BY <2>4, <2>5
<1>14. FrameOK(d, libs, fr, n - 1, short2)
  <2>1. fr.stage \in {"pheaders", "out"} /\ (fr.stage = "out" => fr.result # "none")
    BY <1>11 DEF Results
  <2>2. SoundNeeds(d, c.file) => fr.stage # "out"
    BY <1>7, <1>8, <1>11
  <2>3. QED
    BY <1>11, <1>12, <1>13, <2>1, <2>2 DEF FrameOK
<1>15. ASSUME NEW k \in 1 .. Len(libs), Good(d, libs[k].name), InProgress(st, k)
       PROVE  InProgress(Popped(st, fr), k)
  <2>0. k # NoLibrary /\ d.kind[libs[k].name] = "library" /\ SoundNeeds(d, libs[k].name)
    BY <1>15 DEF NoLibrary, Good, SoundOn
  <2>1. ~(top.entry = k /\ top.stage \in {"pheaders", "sections", "symbols"})
    <3>1. SUFFICES ASSUME top.entry = k, top.stage \in {"pheaders", "sections", "symbols"}
                   PROVE  FALSE
      OBVIOUS
    <3>2. Begun(d, libs, top, n)
      BY <1>3, <3>1 DEF FrameOK, Past
    <3>3. libs[k].name = top.file
      BY <2>0, <3>1, <3>2 DEF Begun
    <3>4. QED
      BY <1>8, <1>15, <3>1, <3>3
  <2>2. c.entry = k => fr.stage = "pheaders"
    <3>1. SUFFICES ASSUME c.entry = k PROVE fr.stage = "pheaders"
      OBVIOUS
    <3>2. libs[k].name = c.file
      BY <1>10, <2>0, <3>1 DEF Begun
    <3>3. QED
      BY <1>7, <1>8, <1>11, <2>0, <3>2
  <2>3. QED
    BY <1>1, <1>11, <1>15, <2>1, <2>2, PopInProgress DEF n, top, c
<1>16. LibrariesOK(d, libs, Popped(st, fr))
  BY <1>4, <1>15, LibrariesKept
<1>17. StackOK(d, libs, Popped(st, fr), short2)
  <2>1. StackOK(d, libs, st, short) /\ Grows(libs, libs)
    BY <1>4, GrowsSelf DEF LoaderFine
  <2>2. fr.file = st[Len(st) - 1].file /\ FrameOK(d, libs, fr, Len(st) - 1, short2)
    BY <1>11, <1>14 DEF c, n
  <2>3. QED
    BY <1>11, <2>1, <2>2, PopKeepsStack
<1>18. LoadsOnce(d, Popped(st, fr))
  <2>1. fr.file = st[Len(st) - 1].file /\ LoadsOnce(d, st)
    BY <1>11 DEF c, n, LoaderFine
  <2>2. QED
    BY <1>1, <1>11, <2>1, PopLoadsOnce
<1>19. QED
  BY <1>5, <1>16, <1>17, <1>18 DEF LoaderFine

LEMMA ReturnKeeps ==
  ASSUME NEW d, NEW libs, NEW st, NEW progs, NEW short, NEW short2, NEW r \in Results,
         LoaderFine(d, libs, st, progs, short), st # <<>>,
         short => short2, short2 \in BOOLEAN, MayReturn(d, libs, st, r, short2)
  PROVE  LoaderFine(d, libs, Returned(st, r), progs, short2)
<1>0. st \in Seq(Frame) /\ d \in Disk
  BY DEF LoaderFine, StackOK
<1>1. Len(st) \in Nat \ {0}
  BY <1>0
<1>2. CASE Len(st) = 1
  BY <1>2, ReturnFirst
<1>3. CASE Len(st) > 1
  BY <1>0, <1>3, ReturnCaller
<1>4. \A m \in Nat \ {0} : m = 1 \/ m > 1
  OBVIOUS
<1>5. QED
  BY <1>1, <1>2, <1>3, <1>4

-----------------------------------------------------------------------------
(* The steps of a load *)

LEMMA ReturnIs == ASSUME stack # <<>>, NEW r, Return(r), stack \in Seq(Frame)
                  PROVE  stack' = Returned(stack, r)
<1>1. CASE Len(stack) = 1
  BY <1>1 DEF Return, Returned, Top
<1>2. CASE Len(stack) # 1
  BY <1>2 DEF Return, Returned, Popped, AfterCall, Caller
<1>3. QED
  BY <1>1, <1>2

(* What is known of the file that is being loaded.                         *)
TopIs(stage) ==
    /\ stack # <<>> /\ stack \in Seq(Frame)
    /\ Len(stack) \in Nat \ {0}
    /\ Top \in Frame /\ Top = stack[Len(stack)]
    /\ Top.stage = stage
    /\ FrameOK(disk, libraries, Top, Len(stack), shortage)
    /\ StackOK(disk, libraries, stack, shortage)
    /\ LibrariesOK(disk, libraries, stack)
    /\ libraries \in Seq(Library) /\ Len(libraries) \in Nat
    /\ disk \in Disk /\ Top.file \in File /\ shortage \in BOOLEAN
    /\ Grows(libraries, libraries)

LEMMA AtTop ==
  ASSUME LoaderInv, NEW stage, At(stage)
  PROVE  TopIs(stage)
<1>1. /\ StackOK(disk, libraries, stack, shortage) /\ disk \in Disk /\ shortage \in BOOLEAN
      /\ LibrariesOK(disk, libraries, stack)
  BY DEF LoaderInv, LoaderFine
<1>2. stack \in Seq(Frame) /\ stack # <<>> /\ Len(stack) \in Nat \ {0} /\ Len(stack) \in 1 .. Len(stack)
  BY <1>1 DEF StackOK, At
<1>3. Top \in Frame /\ Top = stack[Len(stack)] /\ Top.file \in File
  <2>1. Top = stack[Len(stack)]
    BY DEF Top
  <2>2. stack[Len(stack)] \in Frame
    BY <1>2
  <2>3. QED
    BY <2>1, <2>2 DEF Frame
<1>4. FrameOK(disk, libraries, Top, Len(stack), shortage)
  BY <1>1, <1>2, <1>3 DEF StackOK
<1>5. libraries \in Seq(Library) /\ Len(libraries) \in Nat
  BY <1>1 DEF LibrariesOK
<1>6. Grows(libraries, libraries)
  BY <1>5, GrowsSelf
<1>7. QED
  BY <1>1, <1>2, <1>3, <1>4, <1>5, <1>6 DEF TopIs, At

(* A step that returns. *)
LEMMA ReturnStep ==
  ASSUME LoaderInv, NEW stage, At(stage), NEW r \in Results, Return(r),
         UNCHANGED <<disk, libraries, programs>>, shortage => shortage', shortage' \in BOOLEAN,
         MayReturn(disk, libraries, stack, r, shortage')
  PROVE  LoaderInv'
<1>1. TopIs(stage)
  BY AtTop
<1>2. stack # <<>> /\ stack' = Returned(stack, r)
  BY <1>1, ReturnIs DEF TopIs
<1>3. LoaderFine(disk, libraries, Returned(stack, r), programs, shortage')
  BY <1>2, ReturnKeeps DEF LoaderInv
<1>4. LoaderFine(disk', libraries', stack', programs', shortage')
  BY <1>2, <1>3
<1>5. QED
  BY <1>4 DEF LoaderInv

(* A step that goes on with the same file. *)
LEMMA StayStep ==
  ASSUME LoaderInv, NEW stage, At(stage), NEW fr \in Frame, Stay(fr), fr.file = Top.file,
         UNCHANGED <<disk, programs, shortage>>, Grows(libraries, libraries'),
         FrameOK(disk, libraries', fr, Len(stack), shortage),
         LibrariesOK(disk, libraries', WithTop(stack, fr))
  PROVE  LoaderInv'
<1>1. TopIs(stage)
  BY AtTop
<1>2. stack # <<>> /\ stack' = WithTop(stack, fr) /\ fr.file = stack[Len(stack)].file
  BY <1>1 DEF TopIs, Stay, WithTop
<1>3. shortage \in BOOLEAN /\ (shortage => shortage)
  BY <1>1 DEF TopIs
<1>4. LoaderFine(disk, libraries', WithTop(stack, fr), programs, shortage)
  BY <1>2, <1>3, StayKeeps DEF LoaderInv
<1>5. LoaderFine(disk', libraries', stack', programs', shortage')
  BY <1>2, <1>4
<1>6. QED
  BY <1>5 DEF LoaderInv

(* Going on keeps the libraries fine if what is in progress stays so.      *)
LEMMA StayLibraries ==
  ASSUME NEW stage, TopIs(stage), NEW fr \in Frame,
         stage \in {"pheaders", "sections", "symbols"} =>
            fr.entry = Top.entry /\ fr.stage \in {"pheaders", "sections", "symbols"}
  PROVE  LibrariesOK(disk, libraries, WithTop(stack, fr))
<1>1. stack \in Seq(Frame) /\ stack # <<>> /\ LibrariesOK(disk, libraries, stack)
      /\ stack[Len(stack)] = Top /\ Top.stage = stage
  BY DEF TopIs
<1>2. ASSUME NEW k, InProgress(stack, k) PROVE InProgress(WithTop(stack, fr), k)
  BY <1>1, <1>2, TopInProgress
<1>3. QED
  BY <1>1, <1>2, LibrariesKept

LEMMA OpenKeeps == LoaderInv /\ elf_load_open => LoaderInv'
<1> SUFFICES ASSUME LoaderInv, elf_load_open PROVE LoaderInv'
  OBVIOUS
<1>1. TopIs("open") /\ At("open")
  BY AtTop DEF elf_load_open
<1>2. disk.kind[Top.file] \in Kind
  BY <1>1, DiskFacts DEF TopIs
<1>3. CASE CanOpen(Top.file) /\ disk.kind[Top.file] = "unreadable"
  <2>1. Return("failed") /\ UNCHANGED <<disk, libraries, programs, shortage>>
    BY <1>3 DEF elf_load_open
  <2>2. ~Good(disk, Top.file)
    BY <1>3 DEF Good, SoundOn
  <2>3. MayReturn(disk, libraries, stack, "failed", shortage')
    BY <1>1, <2>2 DEF MayReturn, TopIs
  <2>4. shortage' \in BOOLEAN /\ (shortage => shortage')
    BY <1>1, <2>1 DEF TopIs
  <2>5. QED
    BY <1>1, <2>1, <2>3, <2>4, ReturnStep DEF Results
<1>4. CASE CanOpen(Top.file) /\ disk.kind[Top.file] # "unreadable"
  <2> DEFINE fr == [Top EXCEPT !.stage = "header"]
  <2>1. Stay(fr) /\ UNCHANGED <<disk, libraries, programs, shortage>>
    BY <1>4 DEF elf_load_open
  <2>2. Top \in Frame /\ Top.stage = "open" /\ FrameOK(disk, libraries, Top, Len(stack), shortage)
    BY <1>1 DEF TopIs
  <2>3. /\ fr \in Frame /\ fr.file = Top.file /\ fr.entry = Top.entry /\ fr.slots = Top.slots
        /\ fr.stage = "header" /\ fr.tag = Top.tag
    BY <2>2 DEF Frame, Stage
  <2>4. disk.kind[fr.file] \in {"raw", "program", "library"}
    BY <1>2, <1>4, <2>3 DEF CanOpen, Kind
  <2> HIDE DEF fr
  <2>5. FrameOK(disk, libraries, fr, Len(stack), shortage)
    <3>1. NeedsListed(disk, libraries, fr)
      BY <2>3 DEF NeedsListed, Past
    <3>2. QED
      BY <2>2, <2>3, <2>4, <3>1 DEF FrameOK, Past
  <2>6. LibrariesOK(disk, libraries, WithTop(stack, fr))
    BY <1>1, <2>3, StayLibraries
  <2>7. libraries' = libraries /\ Grows(libraries, libraries')
    BY <1>1, <2>1 DEF TopIs
  <2>8. QED
    BY <1>1, <2>1, <2>3, <2>5, <2>6, <2>7, StayStep
<1>5. CASE ~CanOpen(Top.file)
  <2>1. /\ Return("nothing") /\ UNCHANGED <<disk, libraries, programs>>
        /\ shortage' = (shortage \/ disk.kind[Top.file] # "missing")
    BY <1>5 DEF elf_load_open
  <2>2. Good(disk, Top.file) => shortage' = TRUE
    BY <2>1 DEF Good, SoundOn
  <2>3. MayReturn(disk, libraries, stack, "nothing", shortage')
    BY <1>1, <2>2 DEF MayReturn, TopIs
  <2>4. shortage' \in BOOLEAN /\ (shortage => shortage')
    BY <1>1, <2>1 DEF TopIs
  <2>5. QED
    BY <1>1, <2>1, <2>3, <2>4, ReturnStep DEF Results
<1>6. QED
  BY <1>3, <1>4, <1>5

-----------------------------------------------------------------------------
(* What the steps of a load do to the list *)

(* A library is put on the list by the file on top of the stack.           *)
LEMMA ListAppend ==
  ASSUME NEW d, NEW libs, NEW st, NEW st2, NEW l \in Library, NEW e,
         LibrariesOK(d, libs, st), e = Len(libs) + 1,
         l.symbols = {} /\ l.memory, l.run \/ ~Named(libs, l.name), InProgress(st2, e),
         \A k \in 1 .. Len(libs) : InProgress(st, k) => InProgress(st2, k)
  PROVE  Grows(libs, Append(libs, l)) /\ LibrariesOK(d, Append(libs, l), st2)
<1> DEFINE libs2 == Append(libs, l)
<1>1. libs \in Seq(Library) /\ Len(libs) \in Nat
  BY DEF LibrariesOK
<1>2. /\ libs2 \in Seq(Library) /\ Len(libs2) = Len(libs) + 1 /\ libs2[e] = l
      /\ \A k \in 1 .. Len(libs) : libs2[k] = libs[k]
  BY <1>1
<1> HIDE DEF libs2
<1>3. Grows(libs, libs2)
  BY <1>1, <1>2 DEF Grows
<1>4. ASSUME NEW k \in 1 .. Len(libs2)
      PROVE  /\ LibraryOK(d, libs2[k])
             /\ Good(d, libs2[k].name) /\ libs2[k].symbols # Exports(d, libs2[k].name) =>
                   InProgress(st2, k)
             /\ \A j \in 1 .. k - 1 : libs2[j].name = libs2[k].name => libs2[k].run
  <2>1. CASE k \in 1 .. Len(libs)
    <3>1. \A j \in 1 .. k - 1 : j \in 1 .. Len(libs)
      BY <1>1, <2>1
    <3>2. QED
      BY <1>2, <2>1, <3>1 DEF LibrariesOK
  <2>2. CASE k = e
    <3>1. LibraryOK(d, l)
      BY DEF LibraryOK
    <3>2. \A j \in 1 .. k - 1 : j \in 1 .. Len(libs)
      BY <1>1, <2>2
    <3>3. QED
      BY <1>2, <2>2, <3>1, <3>2 DEF Named
  <2>3. k \in 1 .. Len(libs) \/ k = e
    BY <1>1, <1>2
  <2>4. QED
    BY <2>1, <2>2, <2>3
<1>5. QED
  BY <1>2, <1>3, <1>4 DEF LibrariesOK, libs2

(* Library e changes, and not in its name or in how it was loaded.         *)
LEMMA ListChange ==
  ASSUME NEW d, NEW libs, NEW st, NEW st2, NEW e \in 1 .. Len(libs), NEW l \in Library,
         LibrariesOK(d, libs, st), LibraryOK(d, l),
         l.name = libs[e].name /\ l.run = libs[e].run /\ (libs[e].sections => l.sections),
         \/ l.symbols = libs[e].symbols /\ (InProgress(st, e) => InProgress(st2, e))
         \/ l.symbols = Exports(d, l.name),
         \A k \in 1 .. Len(libs) : k # e /\ InProgress(st, k) => InProgress(st2, k)
  PROVE  Grows(libs, [libs EXCEPT ![e] = l]) /\ LibrariesOK(d, [libs EXCEPT ![e] = l], st2)
<1> DEFINE libs2 == [libs EXCEPT ![e] = l]
<1>1. libs \in Seq(Library) /\ Len(libs) \in Nat
  BY DEF LibrariesOK
<1>2. /\ libs2 \in Seq(Library) /\ Len(libs2) = Len(libs) /\ libs2[e] = l
      /\ \A k \in 1 .. Len(libs) : k # e => libs2[k] = libs[k]
  BY <1>1
<1> HIDE DEF libs2
<1>3. \A k \in 1 .. Len(libs) : libs2[k].name = libs[k].name /\ libs2[k].run = libs[k].run
  BY <1>2
<1>4. Grows(libs, libs2)
  BY <1>1, <1>2, <1>3 DEF Grows
<1>5. ASSUME NEW k \in 1 .. Len(libs2)
      PROVE  /\ LibraryOK(d, libs2[k])
             /\ Good(d, libs2[k].name) /\ libs2[k].symbols # Exports(d, libs2[k].name) =>
                   InProgress(st2, k)
             /\ \A j \in 1 .. k - 1 : libs2[j].name = libs2[k].name => libs2[k].run
  <2>1. k \in 1 .. Len(libs) /\ \A j \in 1 .. k - 1 : j \in 1 .. Len(libs)
    BY <1>1, <1>2
  <2>2. \A j \in 1 .. k - 1 : libs2[j].name = libs2[k].name => libs2[k].run
    BY <1>3, <2>1 DEF LibrariesOK
  <2>3. CASE k = e
    BY <1>2, <2>2, <2>3 DEF LibrariesOK
  <2>4. CASE k # e
    BY <1>2, <2>1, <2>2, <2>4 DEF LibrariesOK
  <2>5. QED
    BY <2>3, <2>4
<1>6. QED
  BY <1>2, <1>4, <1>5 DEF LibrariesOK, libs2

LEMMA HeaderKeeps == LoaderInv /\ elf_process_header => LoaderInv'
<1> SUFFICES ASSUME LoaderInv, elf_process_header PROVE LoaderInv'
  OBVIOUS
<1>1. TopIs("header") /\ At("header")
  BY AtTop DEF elf_process_header
<1>2. /\ Top \in Frame /\ Top.stage = "header" /\ Top = stack[Len(stack)]
      /\ FrameOK(disk, libraries, Top, Len(stack), shortage)
      /\ UNCHANGED <<disk, programs, shortage>> /\ shortage \in BOOLEAN
  BY <1>1 DEF TopIs, elf_process_header
<1>3. /\ disk.kind[Top.file] \in {"raw", "program", "library"}
      /\ Top.entry = NoLibrary /\ Top.tag = 1 /\ Top.slots = <<>>
      /\ Len(stack) > 1 => ~Named(libraries, Top.file)
  BY <1>2 DEF FrameOK
<1>4. CASE disk.kind[Top.file] = "raw"
  <2>1. Return("EINFORMAT") /\ UNCHANGED libraries
    BY <1>4 DEF elf_process_header
  <2>2. ~Good(disk, Top.file) /\ disk.kind[Top.file] \notin {"program", "library"}
    BY <1>4 DEF Good, SoundOn
  <2>3. MayReturn(disk, libraries, stack, "EINFORMAT", shortage')
    BY <1>2, <2>2 DEF MayReturn
  <2>4. shortage' \in BOOLEAN /\ (shortage => shortage')
    BY <1>2
  <2>5. QED
    BY <1>1, <1>2, <2>1, <2>3, <2>4, ReturnStep DEF Results
<1>5. CASE disk.kind[Top.file] = "library"
  <2> DEFINE e == Len(libraries) + 1
             l == [name |-> Top.file, symbols |-> {}, sections |-> FALSE,
                   memory |-> TRUE, run |-> Len(stack) = 1]
             fr == [Top EXCEPT !.stage = "pheaders", !.entry = Len(libraries) + 1]
  <2>1. Stay(fr) /\ libraries' = Append(libraries, l)
    BY <1>5 DEF elf_process_header
  <2>2. /\ Len(libraries) \in Nat /\ Len(stack) \in Nat \ {0} /\ Top.file \in File
        /\ libraries \in Seq(Library) /\ LibrariesOK(disk, libraries, stack)
        /\ stack \in Seq(Frame) /\ stack # <<>>
    BY <1>1 DEF TopIs
  <2>3. /\ fr \in Frame /\ fr.file = Top.file /\ fr.entry = e /\ fr.slots = <<>>
        /\ fr.stage = "pheaders" /\ fr.tag = 1
    <3>1. e \in Nat
      BY <2>2
    <3> HIDE DEF e
    <3>2. fr = [Top EXCEPT !.stage = "pheaders", !.entry = e]
      BY DEF e
    <3> HIDE DEF fr
    <3>3. QED
      BY <1>2, <1>3, <3>1, <3>2 DEF Frame, Stage
  <2>4. l \in Library /\ l.symbols = {} /\ l.memory /\ l.name = Top.file
        /\ (l.run <=> Len(stack) = 1)
    BY <2>2 DEF Library
  <2> HIDE DEF l, fr, e
  <2>5. l.run \/ ~Named(libraries, l.name)
    <3>1. \A m \in Nat \ {0} : m = 1 \/ m > 1
      OBVIOUS
    <3>2. QED
      BY <1>3, <2>2, <2>4, <3>1
  <2>6. WithTopFacts(stack, fr)
    BY <2>2, <2>3, WithTopIs
  <2>7. InProgress(WithTop(stack, fr), e)
    BY <2>2, <2>3, <2>6 DEF InProgress, WithTopFacts
  <2>8. ASSUME NEW k, InProgress(stack, k) PROVE InProgress(WithTop(stack, fr), k)
    BY <1>2, <2>2, <2>3, <2>8, TopInProgress
  <2>9. e = Len(libraries) + 1
    BY DEF e
  <2>10. Grows(libraries, libraries') /\ LibrariesOK(disk, libraries', WithTop(stack, fr))
    BY <2>1, <2>2, <2>4, <2>5, <2>7, <2>8, <2>9, ListAppend
  <2>11. FrameOK(disk, libraries', fr, Len(stack), shortage)
    <3>1. libraries'[e] = l /\ e \in 1 .. Len(libraries')
      BY <2>1, <2>2, <2>4, <2>9
    <3>2. Begun(disk, libraries', fr, Len(stack))
      BY <1>5, <2>3, <2>4, <3>1 DEF Begun
    <3>3. NeedsListed(disk, libraries', fr)
      BY <2>3 DEF NeedsListed, Gone
    <3>4. QED
      BY <2>3, <3>2, <3>3 DEF FrameOK, Past
  <2>12. QED
    BY <1>1, <1>2, <2>1, <2>3, <2>10, <2>11, StayStep
<1>6. CASE disk.kind[Top.file] = "program"
  <2> DEFINE fr == [Top EXCEPT !.stage = "pheaders"]
  <2>1. Stay(fr) /\ libraries' = libraries
    BY <1>6 DEF elf_process_header
  <2>2. /\ fr \in Frame /\ fr.file = Top.file /\ fr.entry = NoLibrary /\ fr.slots = <<>>
        /\ fr.stage = "pheaders" /\ fr.tag = 1
    BY <1>2, <1>3 DEF Frame, Stage
  <2> HIDE DEF fr
  <2>3. Begun(disk, libraries, fr, Len(stack)) /\ NeedsListed(disk, libraries, fr)
    BY <1>6, <2>2 DEF Begun, NeedsListed, Gone
  <2>4. FrameOK(disk, libraries, fr, Len(stack), shortage)
    BY <2>2, <2>3 DEF FrameOK, Past
  <2>5. LibrariesOK(disk, libraries, WithTop(stack, fr))
    BY <1>1, <2>2, StayLibraries
  <2>6. Grows(libraries, libraries')
    BY <1>1, <2>1 DEF TopIs
  <2>7. QED
    BY <1>1, <1>2, <2>1, <2>2, <2>4, <2>5, <2>6, StayStep
<1>7. QED
  BY <1>3, <1>4, <1>5, <1>6

(* The walk over the tags DT_NEEDED goes on with the same file.            *)
LEMMA NeededStays ==
  ASSUME LoaderInv, At("pheaders"), NEW fr \in Frame, Stay(fr),
         UNCHANGED <<disk, libraries, programs, shortage>>,
         fr.file = Top.file, fr.entry = Top.entry, fr.slots = Top.slots,
         fr.stage \in {"pheaders", "sections"},
         ~shortage /\ NeedsListed(disk, libraries, Top) => NeedsListed(disk, libraries, fr)
  PROVE  LoaderInv'
<1>1. TopIs("pheaders")
  BY AtTop
<1>2. /\ Top.stage = "pheaders" /\ FrameOK(disk, libraries, Top, Len(stack), shortage)
      /\ Grows(libraries, libraries')
  BY <1>1 DEF TopIs
<1>3. Begun(disk, libraries, Top, Len(stack)) /\ Top.slots = <<>>
  BY <1>2 DEF FrameOK, Past
<1>4. Begun(disk, libraries, fr, Len(stack))
  BY <1>3 DEF Begun
<1>5. SoundNeeds(disk, fr.file) /\ disk.kind[fr.file] \in {"program", "library"} /\ ~shortage =>
         NeedsListed(disk, libraries, fr)
  BY <1>2 DEF FrameOK
<1>6. FrameOK(disk, libraries, fr, Len(stack), shortage)
  BY <1>3, <1>4, <1>5 DEF FrameOK, Past
<1>7. LibrariesOK(disk, libraries, WithTop(stack, fr))
  BY <1>1, StayLibraries
<1>8. QED
  BY <1>2, <1>6, <1>7, StayStep

LEMMA NeededKeeps == LoaderInv /\ elf_process_dynamic_tag_needed => LoaderInv'
<1> SUFFICES ASSUME LoaderInv, elf_process_dynamic_tag_needed PROVE LoaderInv'
  OBVIOUS
<1> DEFINE needed == disk.needed[Top.file]
           g == needed[Top.tag]
<1>1. TopIs("pheaders") /\ At("pheaders")
  BY AtTop DEF elf_process_dynamic_tag_needed
<1>2. /\ Top \in Frame /\ Top.stage = "pheaders" /\ Top = stack[Len(stack)]
      /\ FrameOK(disk, libraries, Top, Len(stack), shortage) /\ stack # <<>>
      /\ UNCHANGED <<disk, libraries, programs, shortage, descriptors>> /\ shortage \in BOOLEAN
      /\ Top.file \in File /\ disk \in Disk /\ libraries \in Seq(Library)
      /\ stack \in Seq(Frame) /\ StackOK(disk, libraries, stack, shortage)
      /\ LibrariesOK(disk, libraries, stack)
  BY <1>1 DEF TopIs, elf_process_dynamic_tag_needed
<1>3. needed \in Seq(File) /\ Top.tag \in Nat \ {0}
  BY <1>2, DiskFacts DEF Frame
<1>4. CASE Top.tag > Len(needed)
  <2> DEFINE fr == [Top EXCEPT !.stage = "sections"]
  <2>1. Stay(fr)
    BY <1>4 DEF elf_process_dynamic_tag_needed
  <2>2. /\ fr \in Frame /\ fr.file = Top.file /\ fr.entry = Top.entry /\ fr.slots = Top.slots
        /\ fr.stage = "sections"
    BY <1>2 DEF Frame, Stage
  <2> HIDE DEF fr
  <2>3. NeedsListed(disk, libraries, Top) => NeedsListed(disk, libraries, fr)
    <3>1. \A j \in DOMAIN needed : j \in 1 .. Top.tag - 1
      BY <1>3, <1>4
    <3>2. QED
      BY <1>2, <2>2, <3>1 DEF NeedsListed, Gone, Past
  <2>4. QED
    BY <1>1, <1>2, <2>1, <2>2, <2>3, NeededStays
<1>5. CASE Top.tag <= Len(needed) /\ library_get(g) # NoLibrary
  <2> DEFINE fr == [Top EXCEPT !.tag = @ + 1]
  <2>0. ~(Top.tag > Len(needed))
    BY <1>3, <1>5
  <2>1. Stay(fr)
    BY <1>5, <2>0 DEF elf_process_dynamic_tag_needed
  <2>2. /\ fr \in Frame /\ fr.file = Top.file /\ fr.entry = Top.entry /\ fr.slots = Top.slots
        /\ fr.stage = "pheaders" /\ fr.tag = Top.tag + 1
    <3>1. Top.tag + 1 \in Nat \ {0}
      BY <1>3
    <3>2. QED
      BY <1>2, <3>1 DEF Frame
  <2> HIDE DEF fr
  <2>3. Named(libraries, g)
    <3>1. GetFinds(g)
      BY <1>2, LibraryGet
    <3>2. QED
      BY <1>5, <3>1 DEF GetFinds, Named
  <2>4. NeedsListed(disk, libraries, Top) => NeedsListed(disk, libraries, fr)
    <3>1. ASSUME NeedsListed(disk, libraries, Top), NEW j \in DOMAIN needed, j \in 1 .. Top.tag
          PROVE  Named(libraries, needed[j])
      <4>1. CASE j = Top.tag
        BY <2>3, <4>1
      <4>2. CASE j # Top.tag
        <5>1. j \in 1 .. Top.tag - 1
          BY <1>3, <3>1, <4>2
        <5>2. QED
          BY <1>2, <3>1, <5>1 DEF NeedsListed, Gone, Past
      <4>3. QED
        BY <4>1, <4>2
    <3>2. Gone(fr) = 1 .. Top.tag
      BY <1>3, <2>2 DEF Gone
    <3>3. QED
      BY <2>2, <3>1, <3>2 DEF NeedsListed
  <2>5. QED
    BY <1>1, <1>2, <2>1, <2>2, <2>4, NeededStays
<1>6. CASE Top.tag <= Len(needed) /\ library_get(g) = NoLibrary
  <2> DEFINE fr == Enter(g)
  <2>0. ~(Top.tag > Len(needed)) /\ Top.tag \in DOMAIN needed
    BY <1>3, <1>6
  <2>1. stack' = Append(stack, fr)
    BY <1>6, <2>0 DEF elf_process_dynamic_tag_needed
  <2>2. g \in File
    BY <1>2, <2>0, NeededFacts
  <2>3. /\ fr \in Frame /\ fr.file = g /\ fr.entry = NoLibrary /\ fr.tag = 1
        /\ fr.stage = "open" /\ fr.slots = <<>>
    BY <2>2 DEF Enter, Frame, Stage, NoLibrary
  <2> HIDE DEF fr
  <2>4. ~Named(libraries, g)
    <3>1. GetFinds(g)
      BY <1>2, LibraryGet
    <3>2. QED
      BY <1>6, <3>1 DEF GetFinds
  <2>5. Calls(disk, stack[Len(stack)], fr)
    BY <1>2, <2>0, <2>3 DEF Calls
  <2>6. FrameOK(disk, libraries, fr, Len(stack) + 1, shortage)
    BY <2>3, <2>4 DEF FrameOK, Past, NeedsListed
  <2>7. StackOK(disk, libraries, Append(stack, fr), shortage)
    BY <1>2, <2>3, <2>5, <2>6, PushKeepsStack
  <2>8. LoadsOnce(disk, Append(stack, fr))
    <3>1. LoadsOnce(disk, stack)
      BY DEF LoaderInv, LoaderFine
    <3>2. ~Named(libraries, fr.file)
      BY <2>3, <2>4
    <3>3. QED
      BY <1>2, <2>3, <2>5, <3>1, <3>2, PushLoadsOnce
  <2>9. LibrariesOK(disk, libraries, Append(stack, fr))
    BY <1>2, <2>3, PushInProgress, LibrariesKept
  <2>10. LoaderFine(disk, libraries, Append(stack, fr), programs, shortage)
    BY <2>7, <2>8, <2>9 DEF LoaderFine, LoaderInv
  <2>11. LoaderFine(disk', libraries', stack', programs', shortage')
    BY <1>2, <2>1, <2>10
  <2>12. QED
    BY <2>11 DEF LoaderInv
<1>7. QED
  BY <1>3, <1>4, <1>5, <1>6

LEMMA SectionsKeep == LoaderInv /\ elf_process_sections => LoaderInv'
<1> SUFFICES ASSUME LoaderInv, elf_process_sections PROVE LoaderInv'
  OBVIOUS
<1> DEFINE fr == [Top EXCEPT !.stage = "symbols"]
           e == Top.entry
<1>1. TopIs("sections") /\ At("sections") /\ Stay(fr)
  BY AtTop DEF elf_process_sections
<1>2. /\ Top \in Frame /\ Top.stage = "sections" /\ Top = stack[Len(stack)]
      /\ FrameOK(disk, libraries, Top, Len(stack), shortage)
      /\ UNCHANGED <<disk, programs, shortage>>
      /\ libraries \in Seq(Library) /\ stack \in Seq(Frame) /\ stack # <<>>
      /\ LibrariesOK(disk, libraries, stack)
  BY <1>1 DEF TopIs, elf_process_sections
<1>3. /\ fr \in Frame /\ fr.file = Top.file /\ fr.entry = Top.entry /\ fr.slots = Top.slots
      /\ fr.stage = "symbols"
  BY <1>2 DEF Frame, Stage
<1>4. Begun(disk, libraries, Top, Len(stack)) /\ Top.slots = <<>>
  BY <1>2 DEF FrameOK, Past
<1> HIDE DEF fr
<1>5. LibrariesOK(disk, libraries, WithTop(stack, fr))
  BY <1>1, <1>3, StayLibraries
<1>6. /\ Grows(libraries, libraries') /\ LibrariesOK(disk, libraries', WithTop(stack, fr))
      /\ e # NoLibrary => libraries'[e].sections
  <2>1. CASE e = NoLibrary
    BY <1>1, <1>5, <2>1 DEF elf_process_sections, TopIs
  <2>2. CASE e # NoLibrary
    <3> DEFINE l == [libraries[e] EXCEPT !.sections = TRUE]
    <3>1. e \in 1 .. Len(libraries) /\ libraries[e] \in Library
      BY <1>2, <1>4, <2>2 DEF Begun
    <3>2. libraries' = [libraries EXCEPT ![e] = l]
      BY <2>2 DEF elf_process_sections
    <3>3. /\ l \in Library /\ l.name = libraries[e].name /\ l.run = libraries[e].run
          /\ l.symbols = libraries[e].symbols /\ l.memory = libraries[e].memory /\ l.sections
      BY <3>1 DEF Library
    <3> HIDE DEF l
    <3>4. LibraryOK(disk, l)
      BY <1>2, <3>1, <3>3 DEF LibrariesOK, LibraryOK
    <3>5. \A k \in 1 .. Len(libraries) :
             InProgress(WithTop(stack, fr), k) => InProgress(WithTop(stack, fr), k)
      OBVIOUS
    <3>6. /\ Grows(libraries, [libraries EXCEPT ![e] = l])
          /\ LibrariesOK(disk, [libraries EXCEPT ![e] = l], WithTop(stack, fr))
      BY <1>5, <3>1, <3>3, <3>4, <3>5, ListChange
    <3>7. libraries'[e] = l
      BY <1>2, <3>1, <3>2
    <3>8. QED
      BY <3>2, <3>3, <3>6, <3>7
  <2>3. QED
    BY <2>1, <2>2
<1>7. FrameOK(disk, libraries', fr, Len(stack), shortage)
  <2>1. GrowsFacts(disk, libraries, libraries')
    BY <1>6, GrowsKeeps
  <2>2. Begun(disk, libraries', fr, Len(stack))
    BY <1>3, <1>4, <1>6, <2>1 DEF Begun, Grows, GrowsFacts
  <2>3. NeedsListed(disk, libraries, Top) => NeedsListed(disk, libraries', fr)
    BY <1>2, <1>3, <2>1 DEF NeedsListed, Gone, Past, GrowsFacts
  <2>4. SoundNeeds(disk, fr.file) /\ disk.kind[fr.file] \in {"program", "library"} /\ ~shortage =>
           NeedsListed(disk, libraries', fr)
    BY <1>2, <1>3, <2>3 DEF FrameOK
  <2>5. QED
    BY <1>3, <1>4, <1>6, <2>2, <2>4 DEF FrameOK, Past
<1>8. QED
  BY <1>1, <1>2, <1>3, <1>6, <1>7, StayStep

LEMMA SymbolsKeep == LoaderInv /\ elf_process_symbols => LoaderInv'
<1> SUFFICES ASSUME LoaderInv, elf_process_symbols PROVE LoaderInv'
  OBVIOUS
<1> DEFINE fr == [Top EXCEPT !.stage = "relocations"]
           e == Top.entry
           long == \E i \in DOMAIN disk.exports[Top.file] : disk.exports[Top.file][i] \in Overlong
<1>1. TopIs("symbols") /\ At("symbols")
  BY AtTop DEF elf_process_symbols
<1>2. /\ Top \in Frame /\ Top.stage = "symbols" /\ Top = stack[Len(stack)]
      /\ FrameOK(disk, libraries, Top, Len(stack), shortage)
      /\ UNCHANGED <<disk, programs, shortage>> /\ shortage \in BOOLEAN
      /\ libraries \in Seq(Library) /\ stack \in Seq(Frame) /\ stack # <<>>
      /\ LibrariesOK(disk, libraries, stack) /\ Top.file \in File /\ disk \in Disk
      /\ Grows(libraries, libraries)
  BY <1>1 DEF TopIs, elf_process_symbols
<1>3. /\ fr \in Frame /\ fr.file = Top.file /\ fr.entry = Top.entry /\ fr.slots = Top.slots
      /\ fr.stage = "relocations"
  BY <1>2 DEF Frame, Stage
<1>4. Begun(disk, libraries, Top, Len(stack)) /\ Top.slots = <<>>
      /\ (e # NoLibrary => libraries[e].sections)
  BY <1>2 DEF FrameOK, Past
<1> HIDE DEF fr
<1>5. ASSUME NEW k \in 1 .. Len(libraries), k # e, InProgress(stack, k)
      PROVE  InProgress(WithTop(stack, fr), k)
  BY <1>2, <1>3, <1>5, TopInProgress
<1>6. ASSUME Grows(libraries, libraries'),
             LibrariesOK(disk, libraries', WithTop(stack, fr)), Stay(fr)
      PROVE  LoaderInv'
  <2>1. GrowsFacts(disk, libraries, libraries')
    BY <1>6, GrowsKeeps
  <2>2. Begun(disk, libraries', fr, Len(stack))
    BY <1>3, <1>4, <1>6, <2>1 DEF Begun, Grows, GrowsFacts
  <2>3. NeedsListed(disk, libraries, Top) => NeedsListed(disk, libraries', fr)
    BY <1>2, <1>3, <2>1 DEF NeedsListed, Gone, Past, GrowsFacts
  <2>4. SoundNeeds(disk, fr.file) /\ disk.kind[fr.file] \in {"program", "library"} /\ ~shortage =>
           NeedsListed(disk, libraries', fr)
    BY <1>2, <1>3, <2>3 DEF FrameOK
  <2>5. e # NoLibrary => libraries'[e].sections
    BY <1>4, <1>6 DEF Begun, Grows
  <2>6. FrameOK(disk, libraries', fr, Len(stack), shortage)
    BY <1>3, <1>4, <2>2, <2>4, <2>5 DEF FrameOK, Past
  <2>7. QED
    BY <1>1, <1>2, <1>3, <1>6, <2>6, StayStep
<1>7. CASE e = NoLibrary
  <2>1. UNCHANGED libraries /\ Stay(fr)
    BY <1>7 DEF elf_process_symbols, fr
  <2>2. ASSUME NEW k \in 1 .. Len(libraries), InProgress(stack, k)
        PROVE  InProgress(WithTop(stack, fr), k)
    <3>1. k # e
      BY <1>7 DEF NoLibrary
    <3>2. QED
      BY <1>5, <2>2, <3>1
  <2>3. LibrariesOK(disk, libraries, WithTop(stack, fr))
    BY <1>2, <2>2, LibrariesKept
  <2>4. QED
    BY <1>2, <1>6, <2>1, <2>3
<1>8. CASE e # NoLibrary
  <2> DEFINE l == [libraries[e] EXCEPT !.symbols = Exported(Top.file)]
             libs2 == [libraries EXCEPT ![e] = l]
  <2>1. e \in 1 .. Len(libraries) /\ libraries[e] \in Library /\ libraries[e].name = Top.file
    BY <1>2, <1>4, <1>8 DEF Begun
  <2>2. libraries' = libs2 /\ (long => Return("failed")) /\ (~long => Stay(fr))
    BY <1>8 DEF elf_process_symbols, fr
  <2>3. Exported(Top.file) = Exports(disk, Top.file)
    BY DEF Exported, Exports
  <2>4. Exports(disk, Top.file) \in SUBSET Symbol
    <3>1. disk.exports[Top.file] \in Seq(Symbol)
      BY <1>2, DiskFacts
    <3>2. QED
      BY <3>1 DEF Exports
  <2>5. /\ l \in Library /\ l.name = libraries[e].name /\ l.run = libraries[e].run
        /\ l.symbols = Exports(disk, l.name) /\ l.memory = libraries[e].memory
        /\ l.sections = libraries[e].sections
    BY <2>1, <2>3, <2>4 DEF Library
  <2> HIDE DEF l
  <2>6. LibraryOK(disk, l)
    BY <1>2, <1>4, <1>8, <2>1, <2>5 DEF LibrariesOK, LibraryOK
  <2>7. Grows(libraries, libs2) /\ LibrariesOK(disk, libs2, WithTop(stack, fr))
    BY <1>2, <1>5, <2>1, <2>5, <2>6, ListChange
  <2>8. Grows(libraries, libs2) /\ LibrariesOK(disk, libs2, stack)
    <3>1. \A k \in 1 .. Len(libraries) : k # e /\ InProgress(stack, k) => InProgress(stack, k)
      OBVIOUS
    <3>2. QED
      BY <1>2, <2>1, <2>5, <2>6, <3>1, ListChange
  <2>9. CASE ~long
    BY <1>6, <2>2, <2>7, <2>9
  <2>10. CASE long
    <3> HIDE DEF libs2
    <3>1. LoaderFine(disk, libs2, stack, programs, shortage)
      <4>1. \A p \in programs : ProgramOK(disk, libs2, p)
        BY <2>8, ProgramGrows DEF LoaderInv, LoaderFine
      <4>2. StackOK(disk, libs2, stack, shortage)
        <5>1. StackOK(disk, libraries, stack, shortage)
          BY DEF LoaderInv, LoaderFine
        <5>2. FrameOK(disk, libs2, Top, Len(stack), shortage)
          BY <1>2, <2>8, FrameGrows
        <5>3. WithTop(stack, Top) = stack
          BY <1>2 DEF WithTop
        <5>4. StackOK(disk, libs2, WithTop(stack, Top), shortage)
          BY <1>2, <2>8, <5>1, <5>2, TopKeepsStack
        <5>5. QED
          BY <5>3, <5>4
      <4>3. QED
        BY <2>8, <4>1, <4>2 DEF LoaderInv, LoaderFine
    <3>2. ~Good(disk, Top.file)
      BY <1>2, <2>10, GoodFacts
    <3>3. MayReturn(disk, libs2, stack, "failed", shortage')
      BY <1>2, <3>2 DEF MayReturn
    <3>4. shortage' \in BOOLEAN /\ (shortage => shortage') /\ "failed" \in Results
      BY <1>2 DEF Results
    <3>5. LoaderFine(disk, libs2, Returned(stack, "failed"), programs, shortage')
      BY <1>2, <3>1, <3>3, <3>4, ReturnKeeps
    <3>6. stack' = Returned(stack, "failed")
      BY <1>2, <2>2, <2>10, ReturnIs
    <3>7. LoaderFine(disk', libraries', stack', programs', shortage')
      BY <1>2, <2>2, <3>5, <3>6
    <3>8. QED
      BY <3>7 DEF LoaderInv
  <2>11. QED
    BY <2>9, <2>10
<1>9. QED
  BY <1>7, <1>8

LEMMA OutKeeps == LoaderInv /\ elf_load_out => LoaderInv'
<1> SUFFICES ASSUME LoaderInv, elf_load_out PROVE LoaderInv'
  OBVIOUS
<1>1. TopIs("out") /\ At("out")
  BY AtTop DEF elf_load_out
<1>2. /\ Top \in Frame /\ Top.stage = "out" /\ Top = stack[Len(stack)]
      /\ FrameOK(disk, libraries, Top, Len(stack), shortage)
      /\ UNCHANGED <<disk, libraries, programs, shortage>> /\ shortage \in BOOLEAN
      /\ Return(Top.result)
  BY <1>1 DEF TopIs, elf_load_out
<1>3. Top.result \in {"failed", "EINFORMAT"}
  BY <1>2 DEF FrameOK, Frame
<1>4. ~(SoundNeeds(disk, Top.file) /\ disk.kind[Top.file] \in {"program", "library"})
  BY <1>2 DEF FrameOK
<1>5. ~Good(disk, Top.file)
  BY <1>4 DEF Good, SoundOn
<1>6. MayReturn(disk, libraries, stack, Top.result, shortage')
  BY <1>2, <1>3, <1>4, <1>5 DEF MayReturn
<1>7. Top.result \in Results /\ shortage' \in BOOLEAN /\ (shortage => shortage')
  BY <1>2, <1>3 DEF Results
<1>8. QED
  BY <1>1, <1>2, <1>6, <1>7, ReturnStep

-----------------------------------------------------------------------------
(* Where the slots of a program lead *)

(* The walk of elf_get_loaded_symbol_address ends at a needed library that *)
(* is not on the list, or has the symbol.                                  *)
Stops(f, s) == {i \in DOMAIN disk.needed[f] :
                  \/ library_get(disk.needed[f][i]) = NoLibrary
                  \/ s \in libraries[library_get(disk.needed[f][i])].symbols}

AddressIs(f, s) ==
    \/ Stops(f, s) = {} /\ elf_get_loaded_symbol_address(f, s) = NoLibrary
    \/ \E i \in Stops(f, s) :
          /\ \A j \in Stops(f, s) : i <= j
          /\ elf_get_loaded_symbol_address(f, s) = library_get(disk.needed[f][i])

LEMMA AddressStops ==
  ASSUME disk \in Disk, NEW f \in File, NEW s
  PROVE  AddressIs(f, s)
<1>1. disk.needed[f] \in Seq(File)
  BY DiskFacts
<1>2. CASE Stops(f, s) = {}
  BY <1>2 DEF elf_get_loaded_symbol_address, AddressIs, Stops
<1>3. CASE Stops(f, s) # {}
  <2> DEFINE T == Stops(f, s)
             i == CHOOSE x \in T : \A j \in T : x <= j
  <2>1. T \in SUBSET Nat
    BY <1>1 DEF Stops
  <2>2. elf_get_loaded_symbol_address(f, s) = library_get(disk.needed[f][i])
    BY <1>3 DEF elf_get_loaded_symbol_address, Stops
  <2> HIDE DEF T
  <2>3. \E x \in T : \A j \in T : x <= j
    BY <1>3, <2>1, LeastNat DEF T
  <2>4. i \in T /\ \A j \in T : i <= j
    BY <2>3
  <2> HIDE DEF i
  <2>5. QED
    BY <2>2, <2>4 DEF AddressIs, T
<1>4. QED
  BY <1>2, <1>3

(* An address that is not 0 leads into a needed library with the symbol.   *)
LEMMA AddressLeads ==
  ASSUME disk \in Disk, LibrariesOK(disk, libraries, stack), NEW f \in File, NEW i,
         NEW k, k = elf_get_loaded_symbol_address(f, disk.relocations[f][i]), k # NoLibrary
  PROVE  LeadsTo(disk, libraries, f, i, k) /\ FirstNamed(libraries, k)
<1> DEFINE s == disk.relocations[f][i]
<1>1. libraries \in Seq(Library)
  BY DEF LibrariesOK
<1>2. AddressIs(f, s)
  BY AddressStops
<1>3. PICK q \in Stops(f, s) : k = library_get(disk.needed[f][q])
  BY <1>2 DEF AddressIs
<1>4. q \in DOMAIN disk.needed[f] /\ s \in libraries[k].symbols
  BY <1>3 DEF Stops
<1>5. k \in 1 .. Len(libraries) /\ libraries[k].name = disk.needed[f][q] /\ FirstNamed(libraries, k)
  <2>1. GetFinds(disk.needed[f][q])
    BY <1>1, LibraryGet
  <2>2. QED
    BY <1>3, <2>1 DEF GetFinds
<1>6. libraries[k].name \in NeededBy(disk, f)
  BY <1>4, <1>5, NeededFacts
<1>7. LibraryOK(disk, libraries[k])
  BY <1>5 DEF LibrariesOK
<1> HIDE DEF s
<1>8. libraries[k].sections /\ s \in Exports(disk, libraries[k].name)
  BY <1>4, <1>7 DEF LibraryOK
<1>9. QED
  BY <1>5, <1>6, <1>8 DEF LeadsTo, s

(* If the needed libraries are sound and loaded, the symbol is the one of  *)
(* the first that exports it.                                              *)
LEMMA AddressDefines ==
  ASSUME disk \in Disk, LibrariesOK(disk, libraries, stack), NEW f \in File, NEW s,
         SoundNeeds(disk, f), DefinersOn(disk, f, s) # {},
         \A q \in DOMAIN disk.needed[f] : Named(libraries, disk.needed[f][q]),
         \A k \in 1 .. Len(libraries) : ~InProgress(stack, k)
  PROVE  /\ elf_get_loaded_symbol_address(f, s) # NoLibrary
         /\ FirstDefines(disk, libraries, f, s, elf_get_loaded_symbol_address(f, s))
<1> DEFINE got(q) == library_get(disk.needed[f][q])
<1>1. libraries \in Seq(Library)
  BY DEF LibrariesOK
<1>2. ASSUME NEW q \in DOMAIN disk.needed[f]
      PROVE  /\ got(q) \in 1 .. Len(libraries) /\ got(q) # NoLibrary
             /\ libraries[got(q)].name = disk.needed[f][q]
             /\ s \in libraries[got(q)].symbols <=> q \in DefinersOn(disk, f, s)
  <2> DEFINE g == disk.needed[f][q]
  <2>1. got(q) \in 1 .. Len(libraries) /\ got(q) # NoLibrary /\ libraries[got(q)].name = g
    <3>1. GetFinds(g) /\ Named(libraries, g)
      BY <1>1, LibraryGet
    <3>2. QED
      BY <3>1 DEF GetFinds, NoLibrary
  <2>2. Good(disk, g) /\ g \in File
    BY GoodNeeds, NeededFacts
  <2>3. libraries[got(q)].symbols = Exports(disk, g)
    BY <2>1, <2>2 DEF LibrariesOK
  <2>4. Exports(disk, g) = {disk.exports[g][i] : i \in DOMAIN disk.exports[g]}
    BY <2>2, GoodFacts
  <2>5. QED
    BY <2>1, <2>3, <2>4 DEF DefinersOn
<1> HIDE DEF got
<1>3. Stops(f, s) = DefinersOn(disk, f, s)
  BY <1>2 DEF Stops, got, DefinersOn
<1>4. AddressIs(f, s)
  BY AddressStops
<1>5. PICK i \in DefinersOn(disk, f, s) :
        /\ \A j \in DefinersOn(disk, f, s) : i <= j
        /\ elf_get_loaded_symbol_address(f, s) = got(i)
  BY <1>3, <1>4 DEF AddressIs, got
<1>6. i \in DOMAIN disk.needed[f]
  BY DEF DefinersOn
<1>7. QED
  BY <1>2, <1>5, <1>6 DEF FirstDefines

(* The program that is loaded is linked as far as its libraries allow.     *)
LEMMA SlotsLinked ==
  ASSUME TopIs("relocations"), Len(stack) = 1, disk.kind[Top.file] = "program",
         NEW slots,
         slots = [i \in DOMAIN disk.relocations[Top.file] |->
                    elf_resolve_relocation(Top.file, disk.relocations[Top.file][i])]
  PROVE  /\ slots \in Seq(Int)
         /\ LinkedSlots(disk, libraries, Top.file, slots, shortage)
<1> DEFINE f == Top.file
           table == disk.relocations[f]
<1>1. /\ Top \in Frame /\ Top.stage = "relocations" /\ Top = stack[Len(stack)]
      /\ FrameOK(disk, libraries, Top, 1, shortage) /\ f \in File /\ disk \in Disk
      /\ LibrariesOK(disk, libraries, stack) /\ libraries \in Seq(Library)
      /\ stack \in Seq(Frame)
  BY DEF TopIs
<1>2. table \in Seq(Relocation) /\ Len(table) \in Nat /\ DOMAIN table = 1 .. Len(table)
  BY <1>1, DiskFacts
<1>3. ASSUME NEW s
      PROVE  elf_get_loaded_symbol_address(f, s) \in Int
  <2>1. AddressIs(f, s)
    BY <1>1, AddressStops
  <2>2. \A g : GetFinds(g)
    BY <1>1, LibraryGet
  <2>3. \A g : library_get(g) \in Int
    BY <1>1, <2>2 DEF GetFinds, NoLibrary
  <2>4. QED
    BY <2>1, <2>3 DEF AddressIs, NoLibrary
<1>4. slots \in Seq(Int) /\ Len(slots) = Len(table)
  <2>1. \A i \in 1 .. Len(table) : slots[i] \in Int
    BY <1>2, <1>3 DEF elf_resolve_relocation, Own
  <2>2. slots = [i \in 1 .. Len(table) |-> slots[i]]
    BY <1>2
  <2> HIDE DEF table
  <2>3. slots \in [1 .. Len(table) -> Int]
    BY <2>1, <2>2
  <2>4. \A m \in Nat : \A t \in [1 .. m -> Int] : t \in Seq(Int) /\ Len(t) = m
    OBVIOUS
  <2>5. QED
    BY <1>2, <2>3, <2>4
<1>5. ASSUME NEW i \in 1 .. Len(table), table[i] \in Symbol
      PROVE  slots[i] = elf_get_loaded_symbol_address(f, table[i])
  BY <1>2, <1>5, LoaderAssumption DEF elf_resolve_relocation
<1>6. ASSUME NEW k \in 1 .. Len(libraries) PROVE ~InProgress(stack, k)
  BY <1>1 DEF InProgress
<1>7. ASSUME NEW i \in 1 .. Len(table), table[i] \in Symbol
      PROVE  slots[i] # NoLibrary => /\ LeadsTo(disk, libraries, f, i, slots[i])
                                     /\ FirstNamed(libraries, slots[i])
  BY <1>1, <1>5, <1>7, AddressLeads
<1>8. ASSUME NEW i \in 1 .. Len(table), table[i] \in Symbol,
             ~shortage, SoundNeeds(disk, f), DefinersOn(disk, f, table[i]) # {}
      PROVE  slots[i] # NoLibrary /\ FirstDefines(disk, libraries, f, table[i], slots[i])
  <2>1. NeedsListed(disk, libraries, Top)
    BY <1>1, <1>8 DEF FrameOK
  <2>2. \A q \in DOMAIN disk.needed[f] : Named(libraries, disk.needed[f][q])
    <3>1. disk.needed[f] \in Seq(File)
      BY <1>1, DiskFacts
    <3>2. \A q \in DOMAIN disk.needed[f] : q \in Nat
      BY <3>1
    <3>3. QED
      BY <1>1, <2>1, <3>2 DEF NeedsListed, Gone, Past
  <2> DEFINE s == table[i]
  <2>3. slots[i] = elf_get_loaded_symbol_address(f, s) /\ DefinersOn(disk, f, s) # {}
    BY <1>5, <1>8
  <2> HIDE DEF s, f, table
  <2>4. /\ elf_get_loaded_symbol_address(f, s) # NoLibrary
        /\ FirstDefines(disk, libraries, f, s, elf_get_loaded_symbol_address(f, s))
    BY <1>1, <1>6, <1>8, <2>2, <2>3, AddressDefines
  <2>5. QED
    BY <2>3, <2>4 DEF s
<1> HIDE DEF table
<1>9. QED
  BY <1>4, <1>7, <1>8 DEF LinkedSlots, table

LEMMA RelocationsKeep == LoaderInv /\ elf_resolve_relocations => LoaderInv'
<1> SUFFICES ASSUME LoaderInv, elf_resolve_relocations PROVE LoaderInv'
  OBVIOUS
<1> DEFINE table == disk.relocations[Top.file]
           unsupported == \E i \in DOMAIN table : table[i] = Unsupported
           slots == [i \in DOMAIN table |-> elf_resolve_relocation(Top.file, table[i])]
           fr == [Top EXCEPT !.stage = "loaded", !.slots = slots]
           runs == disk.kind[Top.file] = "program" /\ Len(stack) = 1
<1>1. TopIs("relocations") /\ At("relocations")
  BY AtTop DEF elf_resolve_relocations
<1>2. /\ Top \in Frame /\ Top.stage = "relocations" /\ Top = stack[Len(stack)]
      /\ FrameOK(disk, libraries, Top, Len(stack), shortage)
      /\ UNCHANGED <<disk, libraries, programs, shortage>> /\ shortage \in BOOLEAN
      /\ Top.file \in File /\ disk \in Disk /\ Grows(libraries, libraries)
  BY <1>1 DEF TopIs, elf_resolve_relocations
<1>3. /\ unsupported => Return("failed")
      /\ ~unsupported /\ runs => Stay(fr)
      /\ ~unsupported /\ ~runs => Return("loaded")
  BY DEF elf_resolve_relocations
<1>4. shortage' \in BOOLEAN /\ (shortage => shortage')
  BY <1>2
<1>5. Begun(disk, libraries, Top, Len(stack))
  BY <1>2 DEF FrameOK, Past
<1>6. CASE unsupported
  <2>1. ~Good(disk, Top.file)
    BY <1>2, <1>6, GoodFacts
  <2>2. MayReturn(disk, libraries, stack, "failed", shortage')
    BY <1>2, <2>1 DEF MayReturn
  <2>3. QED
    BY <1>1, <1>2, <1>3, <1>4, <1>6, <2>2, ReturnStep DEF Results
<1>7. CASE ~unsupported /\ ~runs
  <2>1. Len(stack) = 1 => disk.kind[Top.file] = "library"
    BY <1>5, <1>7 DEF Begun
  <2>2. MayReturn(disk, libraries, stack, "loaded", shortage')
    BY <1>2, <2>1 DEF MayReturn
  <2>3. QED
    BY <1>1, <1>2, <1>3, <1>4, <1>7, <2>2, ReturnStep DEF Results
<1>8. CASE ~unsupported /\ runs
  <2>1. slots \in Seq(Int) /\ LinkedSlots(disk, libraries, Top.file, slots, shortage)
    BY <1>1, <1>8, SlotsLinked
  <2> HIDE DEF slots
  <2>2. /\ fr \in Frame /\ fr.file = Top.file /\ fr.entry = Top.entry /\ fr.slots = slots
        /\ fr.stage = "loaded"
    BY <1>2, <2>1 DEF Frame, Stage
  <2>3. Stay(fr)
    BY <1>3, <1>8 DEF slots
  <2> HIDE DEF fr
  <2>4. Begun(disk, libraries, fr, Len(stack))
    BY <1>5, <2>2 DEF Begun
  <2>5. SoundNeeds(disk, fr.file) /\ disk.kind[fr.file] \in {"program", "library"} /\ ~shortage =>
           NeedsListed(disk, libraries, fr)
    <3>1. NeedsListed(disk, libraries, Top) => NeedsListed(disk, libraries, fr)
      BY <1>2, <2>2 DEF NeedsListed, Gone, Past
    <3>2. QED
      BY <1>2, <2>2, <3>1 DEF FrameOK
  <2>6. FrameOK(disk, libraries, fr, Len(stack), shortage)
    BY <1>8, <2>1, <2>2, <2>4, <2>5 DEF FrameOK, Past
  <2>7. LibrariesOK(disk, libraries, WithTop(stack, fr))
    BY <1>1, <2>2, StayLibraries
  <2>8. QED
    BY <1>1, <1>2, <2>2, <2>3, <2>6, <2>7, StayStep
<1>9. QED
  BY <1>6, <1>7, <1>8

-----------------------------------------------------------------------------
(* The end of a load *)

(* What process.c sees of the file it asked for, when elf_load is over.    *)
LEMMA LoadOver ==
  ASSUME NEW stage, TopIs(stage), stage \in {"loaded", "failed", "nothing", "EINFORMAT"},
         NEW d2, d2 = disk, NEW libs2, NEW progs2, NEW short2 \in BOOLEAN,
         LibrariesOK(disk, libs2, stack), Len(libs2) = Len(libraries),
         \A p \in progs2 : ProgramOK(disk, libs2, p)
  PROVE  LoaderFine(d2, libs2, <<>>, progs2, short2)
<1>1. /\ Top.stage = stage /\ Top = stack[Len(stack)] /\ disk \in Disk
      /\ FrameOK(disk, libraries, Top, Len(stack), shortage) /\ stack \in Seq(Frame)
  BY DEF TopIs
<1>2. Len(stack) = 1
  BY <1>1 DEF FrameOK
<1>3. \A k : ~InProgress(stack, k)
  BY <1>1, <1>2 DEF InProgress
<1>4. LibrariesOK(disk, libs2, <<>>)
  BY <1>3, LibrariesKept
<1>5. Len(<<>>) = 0 /\ <<>> \in Seq(Frame)
  OBVIOUS
<1>6. StackOK(disk, libs2, <<>>, short2) /\ LoadsOnce(disk, <<>>)
  BY <1>5 DEF StackOK, LoadsOnce
<1>7. QED
  BY <1>1, <1>4, <1>6 DEF LoaderFine

LEMMA ProgramsGrow ==
  ASSUME LoaderInv, NEW libs2, Grows(libraries, libs2)
  PROVE  \A p \in programs : ProgramOK(disk, libs2, p)
BY ProgramGrows DEF LoaderInv, LoaderFine

LEMMA MapMemoryKeeps == LoaderInv /\ process_map_memory => LoaderInv'
<1> SUFFICES ASSUME LoaderInv, process_map_memory PROVE LoaderInv'
  OBVIOUS
<1> DEFINE f == Top.file
           slots == Top.slots
           p == Loaded(slots)
<1>1. TopIs("loaded") /\ At("loaded")
  BY AtTop DEF process_map_memory
<1>2. /\ Top \in Frame /\ Top.stage = "loaded" /\ shortage \in BOOLEAN
      /\ FrameOK(disk, libraries, Top, Len(stack), shortage)
      /\ libraries \in Seq(Library) /\ Grows(libraries, libraries)
      /\ LibrariesOK(disk, libraries, stack)
  BY <1>1 DEF TopIs
<1>3. /\ UNCHANGED <<disk, libraries, shortage>> /\ stack' = <<>>
      /\ programs' = programs \cup {p} /\ disk.kind[f] = "program"
  BY DEF process_map_memory
<1>4. LinkedSlots(disk, libraries, f, slots, shortage) /\ slots \in Seq(Int)
  BY <1>2 DEF FrameOK, Frame
<1>5. /\ p.file = f /\ p.slots = slots
      /\ p.mapped = {k \in DOMAIN libraries : libraries[k].sections}
      /\ p.intact <=> /\ ~shortage
                       /\ \A k \in DOMAIN libraries :
                             libraries[k].run => k # library_get(libraries[k].name)
  BY DEF Loaded, library_map_all
<1> HIDE DEF p
<1>6. DOMAIN libraries = 1 .. Len(libraries) /\ Len(libraries) \in Nat
  BY <1>2
<1>7. ASSUME NEW k \in 1 .. Len(libraries), FirstNamed(libraries, k), p.intact
      PROVE  ~libraries[k].run
  <2>1. GetFinds(libraries[k].name)
    BY <1>2, LibraryGet
  <2>2. library_get(libraries[k].name) = k
    BY <1>6, <1>7, <2>1 DEF GetFinds, Named, FirstNamed
  <2>3. QED
    BY <1>5, <1>6, <1>7, <2>2
<1>8. ProgramOK(disk, libraries, p)
  <2>1. ASSUME NEW i \in 1 .. Len(slots), disk.relocations[f][i] \in Symbol
        PROVE  /\ slots[i] # NoLibrary =>
                     slots[i] \in p.mapped /\ LeadsTo(disk, libraries, f, i, slots[i])
               /\ p.intact /\ SoundNeeds(disk, f) /\ DefinersOn(disk, f, disk.relocations[f][i]) # {} =>
                     /\ slots[i] # NoLibrary
                     /\ FirstDefines(disk, libraries, f, disk.relocations[f][i], slots[i])
                     /\ ~libraries[slots[i]].run
    <3>1. slots[i] # NoLibrary => LeadsTo(disk, libraries, f, i, slots[i])
      BY <1>4, <2>1 DEF LinkedSlots
    <3>2. LeadsTo(disk, libraries, f, i, slots[i]) => slots[i] \in p.mapped
      BY <1>5, <1>6 DEF LeadsTo
    <3>3. ASSUME p.intact, SoundNeeds(disk, f), DefinersOn(disk, f, disk.relocations[f][i]) # {}
          PROVE  /\ slots[i] # NoLibrary
                 /\ FirstDefines(disk, libraries, f, disk.relocations[f][i], slots[i])
                 /\ ~libraries[slots[i]].run
      <4>1. /\ slots[i] # NoLibrary
            /\ FirstDefines(disk, libraries, f, disk.relocations[f][i], slots[i])
            /\ FirstNamed(libraries, slots[i])
        BY <1>4, <1>5, <2>1, <3>3 DEF LinkedSlots
      <4>2. slots[i] \in 1 .. Len(libraries)
        BY <4>1 DEF FirstDefines
      <4>3. QED
        BY <1>7, <3>3, <4>1, <4>2
    <3>4. QED
      BY <3>1, <3>2, <3>3
  <2>2. Len(slots) = Len(disk.relocations[f])
    BY <1>3, <1>4 DEF LinkedSlots
  <2> HIDE DEF f, slots
  <2>3. QED
    BY <1>4, <1>5, <2>1, <2>2 DEF ProgramOK
<1>9. \A q \in programs \cup {p} : ProgramOK(disk, libraries, q)
  <2>1. \A q \in programs : ProgramOK(disk, libraries, q)
    BY <1>2, ProgramsGrow
  <2>2. QED
    BY <1>8, <2>1
<1>10. LoaderFine(disk, libraries, <<>>, programs \cup {p}, shortage)
  BY <1>1, <1>2, <1>9, LoadOver
<1>11. LoaderFine(disk', libraries', stack', programs', shortage')
  BY <1>3, <1>10
<1>12. QED
  BY <1>11 DEF LoaderInv

LEMMA RefusedKeeps == LoaderInv /\ process_load_elf_refused => LoaderInv'
<1> SUFFICES ASSUME LoaderInv, process_load_elf_refused PROVE LoaderInv'
  OBVIOUS
<1> DEFINE e == Top.entry
           l == [libraries[e] EXCEPT !.memory = FALSE]
           libs2 == [libraries EXCEPT ![e] = l]
<1>1. TopIs("loaded") /\ At("loaded")
  BY AtTop DEF process_load_elf_refused
<1>2. /\ Top.stage = "loaded" /\ shortage \in BOOLEAN
      /\ FrameOK(disk, libraries, Top, Len(stack), shortage)
      /\ libraries \in Seq(Library) /\ LibrariesOK(disk, libraries, stack)
  BY <1>1 DEF TopIs
<1>3. /\ UNCHANGED <<disk, programs, shortage>> /\ stack' = <<>>
      /\ libraries' = libs2 /\ disk.kind[Top.file] = "library"
  BY DEF process_load_elf_refused
<1>4. Begun(disk, libraries, Top, Len(stack)) /\ Len(stack) = 1
  BY <1>2 DEF FrameOK, Past
<1>5. e \in 1 .. Len(libraries) /\ libraries[e].run /\ libraries[e] \in Library
  BY <1>2, <1>3, <1>4 DEF Begun
<1>6. /\ l \in Library /\ l.name = libraries[e].name /\ l.run = libraries[e].run
      /\ l.symbols = libraries[e].symbols /\ l.sections = libraries[e].sections
  BY <1>5 DEF Library
<1> HIDE DEF l
<1>7. LibraryOK(disk, l)
  BY <1>2, <1>5, <1>6 DEF LibrariesOK, LibraryOK
<1>8. Grows(libraries, libs2) /\ LibrariesOK(disk, libs2, stack)
  <2>1. \A k \in 1 .. Len(libraries) : k # e /\ InProgress(stack, k) => InProgress(stack, k)
    OBVIOUS
  <2>2. QED
    BY <1>2, <1>5, <1>6, <1>7, <2>1, ListChange
<1>9. Len(libs2) = Len(libraries)
  BY <1>2
<1> HIDE DEF libs2
<1>10. \A p \in programs : ProgramOK(disk, libs2, p)
  BY <1>8, ProgramsGrow
<1>11. LoaderFine(disk, libs2, <<>>, programs, shortage)
  BY <1>1, <1>2, <1>8, <1>9, <1>10, LoadOver
<1>12. LoaderFine(disk', libraries', stack', programs', shortage')
  BY <1>3, <1>11
<1>13. QED
  BY <1>12 DEF LoaderInv

LEMMA BinaryKeeps == LoaderInv /\ process_load_binary_data => LoaderInv'
<1> SUFFICES ASSUME LoaderInv, process_load_binary_data PROVE LoaderInv'
  OBVIOUS
<1> DEFINE p == Loaded(<<>>)
<1>1. TopIs("EINFORMAT") /\ At("EINFORMAT")
  BY AtTop DEF process_load_binary_data
<1>2. /\ Top.stage = "EINFORMAT" /\ shortage \in BOOLEAN
      /\ FrameOK(disk, libraries, Top, Len(stack), shortage)
      /\ LibrariesOK(disk, libraries, stack) /\ Grows(libraries, libraries)
  BY <1>1 DEF TopIs
<1>3. UNCHANGED <<disk, libraries>> /\ stack' = <<>>
      /\ (programs' = programs \cup {p} \/ programs' = programs) /\ shortage' \in BOOLEAN
  BY <1>2 DEF process_load_binary_data
<1>4. ~(SoundNeeds(disk, Top.file) /\ disk.kind[Top.file] \in {"program", "library"})
  BY <1>2 DEF FrameOK
<1>5. p.file = Top.file /\ p.slots = <<>>
  BY DEF Loaded
<1> HIDE DEF p
<1>6. ProgramOK(disk, libraries, p)
  BY <1>4, <1>5 DEF ProgramOK
<1>7. \A q \in programs' : ProgramOK(disk, libraries, q)
  <2>1. \A q \in programs : ProgramOK(disk, libraries, q)
    BY <1>2, ProgramsGrow
  <2>2. QED
    BY <1>3, <1>6, <2>1
<1>8. LoaderFine(disk, libraries, <<>>, programs', shortage')
  BY <1>1, <1>2, <1>3, <1>7, LoadOver
<1>9. LoaderFine(disk', libraries', stack', programs', shortage')
  BY <1>3, <1>8
<1>10. QED
  BY <1>9 DEF LoaderInv

LEMMA FailedKeeps == LoaderInv /\ process_load_failed => LoaderInv'
<1> SUFFICES ASSUME LoaderInv, process_load_failed PROVE LoaderInv'
  OBVIOUS
<1>1. UNCHANGED <<disk, libraries, programs, shortage>> /\ stack' = <<>>
  BY DEF process_load_failed
<1>2. PICK stage \in {"failed", "nothing"} : TopIs(stage)
  BY AtTop DEF process_load_failed
<1>3. shortage \in BOOLEAN /\ LibrariesOK(disk, libraries, stack) /\ Grows(libraries, libraries)
  BY <1>2 DEF TopIs
<1>4. \A p \in programs : ProgramOK(disk, libraries, p)
  BY <1>3, ProgramsGrow
<1>5. LoaderFine(disk, libraries, <<>>, programs, shortage)
  BY <1>2, <1>3, <1>4, LoadOver
<1>6. LoaderFine(disk', libraries', stack', programs', shortage')
  BY <1>1, <1>5
<1>7. QED
  BY <1>6 DEF LoaderInv

LEMMA BeginKeeps == ASSUME LoaderInv, NEW f \in File, process_load_elf(f) PROVE LoaderInv'
<1> DEFINE fr == Enter(f)
<1>1. UNCHANGED <<disk, libraries, programs, shortage>> /\ stack = <<>> /\ stack' = <<fr>>
  BY DEF process_load_elf
<1>2. /\ fr \in Frame /\ fr.file = f /\ fr.entry = NoLibrary /\ fr.tag = 1
      /\ fr.stage = "open" /\ fr.slots = <<>>
  BY DEF Enter, Frame, Stage, NoLibrary
<1> HIDE DEF fr
<1>3. FrameOK(disk, libraries, fr, 1, shortage)
  BY <1>2 DEF FrameOK, Past, NeedsListed
<1>4. StackOK(disk, libraries, <<fr>>, shortage) /\ LoadsOnce(disk, <<fr>>)
  BY <1>2, <1>3 DEF StackOK, LoadsOnce
<1>5. LibrariesOK(disk, libraries, <<fr>>)
  <2>1. \A k : ~InProgress(stack, k)
    BY <1>1 DEF InProgress
  <2>2. LibrariesOK(disk, libraries, stack)
    BY DEF LoaderInv, LoaderFine
  <2>3. QED
    BY <2>1, <2>2, LibrariesKept
<1>6. LoaderFine(disk, libraries, <<fr>>, programs, shortage)
  BY <1>4, <1>5 DEF LoaderInv, LoaderFine
<1>7. LoaderFine(disk', libraries', stack', programs', shortage')
  BY <1>1, <1>6
<1>8. QED
  BY <1>7 DEF LoaderInv

LEMMA LoaderBegins == LoaderInit => LoaderInv
<1> SUFFICES ASSUME LoaderInit PROVE LoaderInv
  OBVIOUS
<1>1. /\ disk \in Disk /\ libraries = <<>> /\ stack = <<>> /\ programs = {} /\ shortage = FALSE
      /\ libraries \in Seq(Library) /\ stack \in Seq(Frame)
  BY DEF LoaderInit
<1>2. StackOK(disk, libraries, stack, shortage) /\ LoadsOnce(disk, stack)
      /\ LibrariesOK(disk, libraries, stack)
  BY <1>1 DEF StackOK, LoadsOnce, LibrariesOK
<1>3. QED
  BY <1>1, <1>2 DEF LoaderInv, LoaderFine

LEMMA LoaderSteps == LoaderInv /\ [LoaderNext]_lvars => LoaderInv'
<1>1. CASE UNCHANGED lvars
  BY <1>1 DEF lvars, LoaderInv
<1>2. QED
  BY <1>1, BeginKeeps, OpenKeeps, HeaderKeeps, NeededKeeps, SectionsKeep, SymbolsKeep,
     RelocationsKeep, OutKeeps, MapMemoryKeeps, RefusedKeeps, BinaryKeeps, FailedKeeps
  DEF LoaderNext, Continue

(* The stack, the list and the programs fit together at every step.        *)
THEOREM LoaderSound == LoaderSpec => []LoaderInv
<1>1. QED
  BY LoaderBegins, LoaderSteps, PTL DEF LoaderSpec

-----------------------------------------------------------------------------
(* What the operators of the properties are on the disk that is there.     *)
OnDisk == /\ \A f : Needs(f) = NeededBy(disk, f)
          /\ \A f : Exported(f) = Exports(disk, f)
          /\ \A f : SoundlyNeeds(f) => SoundNeeds(disk, f)
          /\ \A f, s : Definers(f, s) = DefinersOn(disk, f, s)
          /\ NoProgramNeeded => NeedsNoProgram(disk)

LEMMA DiskOperators == OnDisk
<1>1. \A f : Needs(f) = NeededBy(disk, f)
  BY DEF Needs, NeededBy
<1>2. \A f : Exported(f) = Exports(disk, f)
  BY DEF Exported, Exports
<1>3. \A f : Sound(f) = SoundOn(disk, f)
  BY DEF Sound, SoundOn
<1>4. \A f : SoundlyNeeds(f) => SoundNeeds(disk, f)
  BY <1>1, <1>3 DEF SoundlyNeeds, SoundNeeds
<1>5. \A f, s : Definers(f, s) = DefinersOn(disk, f, s)
  BY DEF Definers, DefinersOn
<1>6. NoProgramNeeded => NeedsNoProgram(disk)
  BY <1>1 DEF NoProgramNeeded, NeedsNoProgram
<1>7. QED
  BY <1>1, <1>2, <1>4, <1>5, <1>6 DEF OnDisk

LEMMA InvLoadedOnce == LoaderInv => LoadedOnce
<1> SUFFICES ASSUME LoaderInv PROVE LoadedOnce
  OBVIOUS
<1>1. /\ libraries \in Seq(Library) /\ stack \in Seq(Frame) /\ LoadsOnce(disk, stack)
      /\ LibrariesOK(disk, libraries, stack)
  BY DEF LoaderInv, LoaderFine, LibrariesOK, StackOK
<1>2. DOMAIN stack = 1 .. Len(stack) /\ DOMAIN libraries = 1 .. Len(libraries) /\ Len(libraries) \in Nat
  BY <1>1
<1>3. NoProgramNeeded => \A i, j \in DOMAIN stack : stack[i].file = stack[j].file => i = j
  BY <1>1, <1>2, DiskOperators DEF OnDisk, LoadsOnce
<1>4. ASSUME NEW i \in DOMAIN libraries, NEW j \in DOMAIN libraries, i < j,
             libraries[i].name = libraries[j].name
      PROVE  libraries[j].run
  <2>1. i \in 1 .. j - 1
    BY <1>2, <1>4
  <2>2. QED
    BY <1>1, <1>2, <1>4, <2>1 DEF LibrariesOK
<1>5. QED
  BY <1>3, <1>4 DEF LoadedOnce

LEMMA InvSlots == LoaderInv => SlotsLeadToLibraries
<1> SUFFICES ASSUME LoaderInv, NEW p \in programs, NEW i \in DOMAIN p.slots,
                    disk.relocations[p.file][i] \in Symbol, p.slots[i] # NoLibrary
             PROVE  /\ p.slots[i] \in p.mapped
                    /\ libraries[p.slots[i]].name \in Needs(p.file)
                    /\ disk.relocations[p.file][i] \in Exported(libraries[p.slots[i]].name)
  BY DEF SlotsLeadToLibraries
<1>1. ProgramOK(disk, libraries, p)
  BY DEF LoaderInv, LoaderFine
<1>2. i \in 1 .. Len(p.slots)
  BY <1>1 DEF ProgramOK
<1>3. p.slots[i] \in p.mapped /\ LeadsTo(disk, libraries, p.file, i, p.slots[i])
  BY <1>1, <1>2 DEF ProgramOK
<1>4. QED
  BY <1>3, DiskOperators DEF OnDisk, LeadsTo

LEMMA InvLinked == LoaderInv => SoundProgramLinked
<1> SUFFICES ASSUME LoaderInv, NEW p \in programs,
                    p.intact, disk.kind[p.file] = "program", SoundlyNeeds(p.file)
             PROVE  /\ Len(p.slots) = Len(disk.relocations[p.file])
                    /\ \A i \in DOMAIN p.slots :
                         LET s == disk.relocations[p.file][i]
                         IN  s \in Symbol /\ Definers(p.file, s) # {} =>
                                 /\ p.slots[i] # NoLibrary
                                 /\ libraries[p.slots[i]].memory
                                 /\ LinksTo(p.file, s, p.slots[i])
  BY DEF SoundProgramLinked
<1>1. ProgramOK(disk, libraries, p) /\ LibrariesOK(disk, libraries, stack)
  BY DEF LoaderInv, LoaderFine
<1>2. SoundNeeds(disk, p.file)
  BY DiskOperators DEF OnDisk
<1>3. Len(p.slots) = Len(disk.relocations[p.file])
  BY <1>1, <1>2 DEF ProgramOK
<1>4. ASSUME NEW i \in DOMAIN p.slots, disk.relocations[p.file][i] \in Symbol,
             Definers(p.file, disk.relocations[p.file][i]) # {}
      PROVE  /\ p.slots[i] # NoLibrary
             /\ libraries[p.slots[i]].memory
             /\ LinksTo(p.file, disk.relocations[p.file][i], p.slots[i])
  <2> DEFINE s == disk.relocations[p.file][i]
             k == p.slots[i]
  <2>1. i \in 1 .. Len(p.slots)
    BY <1>1, <1>4 DEF ProgramOK
  <2>2. Definers(p.file, s) = DefinersOn(disk, p.file, s)
    BY DiskOperators DEF OnDisk
  <2>3. k # NoLibrary /\ FirstDefines(disk, libraries, p.file, s, k) /\ ~libraries[k].run
    BY <1>1, <1>2, <1>4, <2>1, <2>2 DEF ProgramOK
  <2> HIDE DEF s, k
  <2>4. k \in 1 .. Len(libraries)
    BY <2>3 DEF FirstDefines
  <2>5. libraries[k].memory
    BY <1>1, <2>3, <2>4 DEF LibrariesOK, LibraryOK
  <2>6. LinksTo(p.file, s, k)
    BY <2>2, <2>3 DEF FirstDefines, LinksTo
  <2>7. QED
    BY <2>3, <2>5, <2>6 DEF s, k
<1>5. QED
  BY <1>3, <1>4

(* No file is loaded while it is being loaded (elf_process_dynamic_tag_    *)
(* needed), as long as no file needs a program.                            *)
THEOREM LoadedOnceHolds == LoaderSpec => []LoadedOnce
<1>1. QED
  BY LoaderSound, InvLoadedOnce, PTL

(* A slot that is not 0 leads into a needed library that has the symbol    *)
(* and that the process can reach (elf_get_loaded_symbol_address).         *)
THEOREM SlotsLeadHolds == LoaderSpec => []SlotsLeadToLibraries
<1>1. QED
  BY LoaderSound, InvSlots, PTL

(* A program whose libraries are sound is linked to the first that exports *)
(* each of its symbols, whatever was loaded before it (process_load_elf).  *)
THEOREM SoundProgramLinkedHolds == LoaderSpec => []SoundProgramLinked
<1>1. QED
  BY LoaderSound, InvLinked, PTL
=============================================================================
