-------------------------- MODULE UserMemoryProofs ---------------------------
(***************************************************************************)
(* Module UserMemory, for every heap, every number of processes and every  *)
(* set of programs: whose the pages are.                                   *)
(***************************************************************************)
EXTENDS UserMemory, Lemmas

(* The addresses the heap returns. *)
Address == {PAGE * h : h \in Nat}

LEMMA PagePositive == PAGE \in Nat \ {0}
  BY UserMemoryAssumption

LEMMA SizesPositive ==
  {StackSize, LibrarySize, ArgumentSize, PointerSize} \cup Sizes \subseteq Nat \ {0}
  BY UserMemoryAssumption

(* Where an address is rounded to. *)
LEMMA LowerPageIs ==
  ASSUME NEW a \in Nat
  PROVE  a \div PAGE \in Nat /\ LowerPage(a) = PAGE * (a \div PAGE) /\ PAGE * (a \div PAGE) <= a
  BY PagePositive, RoundDown DEF LowerPage

LEMMA UpperPageIs ==
  ASSUME NEW a \in Nat
  PROVE  \E u \in Nat : UpperPage(a) = PAGE * u /\ a <= PAGE * u /\ PAGE * u < a + PAGE
  BY PagePositive, RoundUp DEF UpperPage

LEMMA Aligned ==
  ASSUME NEW q \in Int
  PROVE  (PAGE * q) \div PAGE = q
<1>1. 0 \in 0 .. PAGE - 1
  BY PagePositive
<1>2. (PAGE * q + 0) \div PAGE = q
  BY <1>1, PagePositive, DivUnique
<1>3. PAGE * q + 0 = PAGE * q
  BY PagePositive
<1>4. QED
  BY <1>2, <1>3

(* The pages of memory that begins with page h. *)
LEMMA PagesOfBlock ==
  ASSUME NEW h \in Nat, NEW size \in Nat
  PROVE  \E u \in Nat : /\ UpperPage(PAGE * h + size) = PAGE * u
                        /\ PAGE * h + size <= PAGE * u
                        /\ PagesOf(PAGE * h, size) = h .. u - 1
<1> DEFINE a == PAGE * h
<1>1. a \in Nat /\ a \div PAGE = h
  BY PagePositive, Aligned
<1> HIDE DEF a
<1>2. PICK u \in Nat : UpperPage(a + size) = PAGE * u /\ a + size <= PAGE * u
  BY <1>1, UpperPageIs
<1>3. LowerPage(a) \div PAGE = h
  BY <1>1, LowerPageIs, Aligned
<1>4. (PAGE * u) \div PAGE = u
  BY Aligned
<1>5. QED
  BY <1>2, <1>3, <1>4 DEF PagesOf, a

(* They are pages, and there is one if there is a byte. *)
LEMMA PagesOfAddress ==
  ASSUME NEW a \in Address, NEW size \in Nat
  PROVE  PagesOf(a, size) \subseteq Nat
<1>1. PICK h \in Nat : a = PAGE * h
  BY DEF Address
<1>2. PICK u \in Nat : PagesOf(PAGE * h, size) = h .. u - 1
  BY PagesOfBlock
<1>3. QED
  BY <1>1, <1>2

-----------------------------------------------------------------------------
(* The types of the kernel's state. *)
Entry == [page : Int, write : BOOLEAN]
Directory == UNION {[D -> Entry] : D \in SUBSET Int}
Memory == [file : File, image : Address, stack : Address, video : Address,
           allocations : Seq(Address), sizes : Seq(Nat \ {0}), directory : Directory]
Kernel == [processes : [Process -> Memory \cup {NoProcess}], taken : SUBSET HeapPage,
           foreground : Process \cup {NULL}, libraries : Seq(Address), closed : BOOLEAN,
           leaked : SUBSET Int, ended : BOOLEAN, got : Address \cup {NULL}]

(* What the heap leaves alone. *)
SameButHeap(k, n) ==
  /\ n.processes = k.processes /\ n.foreground = k.foreground
  /\ n.libraries = k.libraries /\ n.closed = k.closed /\ n.leaked = k.leaked

(* kmalloc returns memory nobody holds, or nothing. *)
LEMMA kmallocGives ==
  ASSUME NEW k \in Kernel, NEW size \in Nat \ {0},
         NEW n, n = kmalloc(k, size)
  PROVE  /\ n \in Kernel /\ SameButHeap(k, n)
         /\ \/ n.got = NULL /\ n.taken = k.taken
            \/ /\ n.got \in Address
               /\ PagesOf(n.got, size) \cap k.taken = {}
               /\ n.taken = k.taken \cup PagesOf(n.got, size)
<1> DEFINE fits == Fits(HeapPage \ k.taken, size)
           h == CHOOSE x \in fits : \A g \in fits : x <= g
<1>1. n = Take(k, size, fits)
  BY DEF kmalloc
<1>2. fits \in SUBSET Nat
  BY UserMemoryAssumption DEF Fits, HeapPage
<1>3. \A x \in fits : PagesOf(x * PAGE, size) \subseteq HeapPage \ k.taken
  BY DEF Fits
<1> HIDE DEF fits
<1>4. CASE fits = {}
  <2>1. n = [k EXCEPT !.got = NULL, !.ended = @ \/ HeapLast \notin k.taken]
    BY <1>1, <1>4 DEF Take
  <2>2. QED
    BY <2>1 DEF Kernel, SameButHeap
<1>5. CASE fits # {}
  <2>1. h \in fits
    BY <1>2, <1>5, LeastNat
  <2>2. n = [k EXCEPT !.got = h * PAGE, !.taken = @ \cup PagesOf(h * PAGE, size)]
    BY <1>1, <1>5 DEF Take
  <2> HIDE DEF h
  <2>3. h \in Nat /\ h * PAGE = PAGE * h
    BY <2>1, <1>2, PagePositive
  <2>4. h * PAGE \in Address
    BY <2>3 DEF Address
  <2>5. PagesOf(h * PAGE, size) \cap k.taken = {}
    BY <2>1, <1>3
  <2>6. PagesOf(h * PAGE, size) \subseteq HeapPage
    BY <2>1, <1>3
  <2> DEFINE a == h * PAGE
             P == PagesOf(a, size)
  <2>7. a \in Address /\ P \cap k.taken = {} /\ P \subseteq HeapPage
        /\ n = [k EXCEPT !.got = a, !.taken = @ \cup P]
    BY <2>2, <2>4, <2>5, <2>6
  <2> HIDE DEF P, a
  <2>8. n.got = a /\ n.taken = k.taken \cup P /\ n \in Kernel /\ SameButHeap(k, n)
    BY <2>7 DEF Kernel, SameButHeap
  <2>9. QED
    BY <2>7, <2>8 DEF P
<1>6. QED
  BY <1>4, <1>5
-----------------------------------------------------------------------------
(* Page directories. *)
LEMMA DirectoryIs ==
  ASSUME NEW d \in Directory
  PROVE  DOMAIN d \subseteq Int /\ \A v \in DOMAIN d : d[v] \in Entry
<1>1. PICK D \in SUBSET Int : d \in [D -> Entry]
  BY DEF Directory
<1>2. QED
  BY <1>1

LEMMA IsDirectory ==
  ASSUME NEW D \in SUBSET Int, NEW d \in [D -> Entry]
  PROVE  d \in Directory
  BY DEF Directory

(* What paging_map_to makes of a directory. *)
Window(virt, q, u) == (virt \div PAGE) .. (virt \div PAGE) + (u - q) - 1

Mapped(n, d, virt, q, u, write) ==
  /\ n \in Directory /\ DOMAIN n = DOMAIN d \cup Window(virt, q, u)
  /\ \A v \in Window(virt, q, u) :
        /\ n[v] = [page |-> q + (v - (virt \div PAGE)), write |-> write]
        /\ q + (v - (virt \div PAGE)) \in q .. u - 1
  /\ \A v \in DOMAIN d \ Window(virt, q, u) : n[v] = d[v]

LEMMA MapTo ==
  ASSUME NEW d \in Directory, NEW virt \in Nat, NEW q \in Nat, NEW u \in Nat,
         NEW write \in BOOLEAN
  PROVE  Mapped(paging_map_to(d, virt, PAGE * q, PAGE * u, write), d, virt, q, u, write)
<1> DEFINE first == virt \div PAGE
           R == Window(virt, q, u)
           n == paging_map_to(d, virt, PAGE * q, PAGE * u, write)
<1>1. first \in Nat
  BY LowerPageIs
<1>2. (PAGE * u - PAGE * q) \div PAGE = u - q
  <2>1. PAGE * u - PAGE * q = PAGE * (u - q) /\ u - q \in Int
    BY PagePositive
  <2>2. QED
    BY <2>1, Aligned
<1>3. (PAGE * q) \div PAGE = q
  BY Aligned
<1>4. n = [v \in DOMAIN d \cup R |->
             IF v \in R THEN [page |-> q + (v - first), write |-> write] ELSE d[v]]
  BY <1>2, <1>3 DEF paging_map_to, Window
<1>5. R \subseteq Int /\ \A v \in R : q + (v - first) \in q .. u - 1
  BY <1>1 DEF Window
<1>6. DOMAIN d \subseteq Int /\ \A v \in DOMAIN d : d[v] \in Entry
  BY DirectoryIs
<1> HIDE DEF first, R, n
<1>7. DOMAIN d \cup R \in SUBSET Int
  BY <1>5, <1>6
<1>8. \A v \in R : [page |-> q + (v - first), write |-> write] \in Entry
  BY <1>5 DEF Entry
<1>9. n \in [DOMAIN d \cup R -> Entry]
  BY <1>4, <1>6, <1>8
<1>10. n \in Directory
  BY <1>7, <1>9, IsDirectory
<1>11. QED
  <2>1. \A v \in R : n[v] = [page |-> q + (v - first), write |-> write]
    BY <1>4
  <2>2. DOMAIN n = DOMAIN d \cup R /\ \A v \in DOMAIN d \ R : n[v] = d[v]
    BY <1>4
  <2>3. QED
    BY <1>5, <1>10, <2>1, <2>2 DEF first, R, n, Mapped

(* A directory leads to the pages of A, and the page of the screen to V. *)
Leads(d, A, V) ==
  d \in Directory /\ \A v \in DOMAIN d : d[v].page \in A \cup (IF v = VideoPage THEN V ELSE {})

(* The pages of some memory of A are mapped. *)
LEMMA MapLeads ==
  ASSUME NEW A, NEW V, NEW d, Leads(d, A, V), NEW virt \in Nat, NEW q \in Nat, NEW u \in Nat,
         NEW write \in BOOLEAN, q .. u - 1 \subseteq A
  PROVE  Leads(paging_map_to(d, virt, PAGE * q, PAGE * u, write), A, V)
<1> DEFINE R == Window(virt, q, u)
           n == paging_map_to(d, virt, PAGE * q, PAGE * u, write)
<1>1. d \in Directory
  BY DEF Leads
<1>2. Mapped(n, d, virt, q, u, write)
  BY <1>1, MapTo
<1> HIDE DEF n
<1>3. ASSUME NEW v \in R PROVE n[v].page \in A
  <2>1. n[v] = [page |-> q + (v - (virt \div PAGE)), write |-> write]
        /\ q + (v - (virt \div PAGE)) \in q .. u - 1
    BY <1>2 DEF Mapped
  <2>2. QED
    BY <2>1
<1>4. ASSUME NEW v \in DOMAIN d \ R
      PROVE  n[v].page \in A \cup (IF v = VideoPage THEN V ELSE {})
  BY <1>2 DEF Leads, Mapped
<1>5. n \in Directory /\ DOMAIN n = DOMAIN d \cup R
  BY <1>2 DEF Mapped
<1>6. QED
  BY <1>3, <1>4, <1>5 DEF Leads, n

(* What changes in the directory of a process that runs: the entry of the  *)
(* screen, and pages of the heap, which lead to themselves.                *)
Identity(v) == [page |-> v, write |-> TRUE]

Steady(d, n) ==
  /\ DOMAIN d \subseteq DOMAIN n
  /\ \A v \in DOMAIN n : \/ v = VideoPage
                         \/ v \in DOMAIN d /\ n[v] = d[v]
                         \/ v \in HeapPage /\ n[v] = Identity(v)

(* A page is mapped at VideoPage: the entry there is the new one. *)
LEMMA MapVideo ==
  ASSUME NEW A, NEW V, NEW d, Leads(d, A, V), NEW q \in Nat
  PROVE  /\ Steady(d, paging_map_to(d, VideoPage * PAGE, PAGE * q, PAGE * q + PAGE, TRUE))
         /\ Leads(paging_map_to(d, VideoPage * PAGE, PAGE * q, PAGE * q + PAGE, TRUE), A, {q})
         /\ q \in A => Leads(paging_map_to(d, VideoPage * PAGE, PAGE * q, PAGE * q + PAGE, TRUE), A, {})
<1> DEFINE n == paging_map_to(d, VideoPage * PAGE, PAGE * q, PAGE * (q + 1), TRUE)
<1>1. d \in Directory /\ VideoPage \in Nat
  BY UserMemoryAssumption DEF Leads
<1>2. PAGE * q + PAGE = PAGE * (q + 1) /\ VideoPage * PAGE = PAGE * VideoPage
      /\ PAGE * VideoPage \in Nat
  BY <1>1, PagePositive
<1>3. (VideoPage * PAGE) \div PAGE = VideoPage
  BY <1>1, <1>2, Aligned
<1>4. Window(VideoPage * PAGE, q, q + 1) = {VideoPage} /\ q + (VideoPage - VideoPage) = q
  BY <1>1, <1>3 DEF Window
<1>5. /\ n \in Directory /\ DOMAIN n = DOMAIN d \cup {VideoPage}
      /\ n[VideoPage] = [page |-> q, write |-> TRUE]
      /\ \A v \in DOMAIN d \ {VideoPage} : n[v] = d[v]
  <2>1. VideoPage * PAGE \in Nat /\ q + 1 \in Nat
    BY <1>2
  <2>2. n = paging_map_to(d, VideoPage * PAGE, PAGE * q, PAGE * (q + 1), TRUE)
    OBVIOUS
  <2> HIDE DEF n
  <2>3. Mapped(n, d, VideoPage * PAGE, q, q + 1, TRUE)
    BY <1>1, <2>1, <2>2, MapTo
  <2>4. QED
    BY <2>3, <1>3, <1>4 DEF Mapped
<1> HIDE DEF n
<1>6. n[VideoPage].page = q
  BY <1>5
<1>7. ASSUME NEW v \in DOMAIN d \ {VideoPage} PROVE n[v].page \in A
  BY <1>5 DEF Leads
<1>8. Leads(n, A, {q}) /\ (q \in A => Leads(n, A, {}))
  BY <1>5, <1>6, <1>7 DEF Leads
<1>9. Steady(d, n)
  BY <1>5 DEF Steady
<1>10. QED
  BY <1>2, <1>8, <1>9 DEF n
-----------------------------------------------------------------------------
(* What is where in a directory.  Memory at phys is placed at virt if each *)
(* page it touches is mapped to the page it should be.                     *)
Placed(d, virt, phys, size, write) ==
  \A v \in PagesOf(virt, size) :
     v \in DOMAIN d /\ d[v] = [page |-> (phys \div PAGE) + (v - (virt \div PAGE)), write |-> write]

Congruent(virt, phys) == \E c \in Int : virt = phys + PAGE * c

(* A map of size bytes: what it places, and what it leaves alone. *)
Places(n, d, virt, phys, size, write) ==
  /\ n \in Directory
  /\ Placed(n, virt, phys, size, write)
  /\ DOMAIN n = DOMAIN d \cup PagesOf(virt, size)
  /\ \A v \in DOMAIN d \ PagesOf(virt, size) : n[v] = d[v]

(* Rounding moves with whole pages. *)
LEMMA DivShift ==
  ASSUME NEW a \in Int, NEW c \in Int
  PROVE  (a + PAGE * c) \div PAGE = (a \div PAGE) + c /\ (a + PAGE * c) % PAGE = a % PAGE
<1> DEFINE q == a \div PAGE
           r == a % PAGE
<1>1. q \in Int /\ r \in 0 .. PAGE - 1 /\ a = PAGE * q + r
  BY PagePositive, DivMod
<1> HIDE DEF q, r
<1>2. a + PAGE * c = PAGE * (q + c) + r /\ q + c \in Int
  BY <1>1, PagePositive
<1>3. (PAGE * (q + c) + r) \div PAGE = q + c /\ (PAGE * (q + c) + r) % PAGE = r
  BY <1>1, <1>2, PagePositive, DivUnique
<1>4. QED
  BY <1>2, <1>3 DEF q, r

LEMMA UpperShift ==
  ASSUME NEW a \in Int, NEW c \in Int
  PROVE  UpperPage(a + PAGE * c) = UpperPage(a) + PAGE * c
<1> DEFINE b == PAGE * c
           r == a % PAGE
<1>1. b \in Int /\ PAGE \in Int
  BY PagePositive
<1>2. (a + b) % PAGE = r
  BY DivShift
<1>3. r \in Int
  <2>1. r \in 0 .. PAGE - 1
    BY PagePositive, DivMod
  <2>2. QED
    BY <2>1, <1>1
<1>4. /\ UpperPage(a + b) = IF r = 0 THEN a + b ELSE (a + b) + PAGE - r
      /\ UpperPage(a) = IF r = 0 THEN a ELSE a + PAGE - r
  BY <1>2 DEF UpperPage
<1> HIDE DEF b, r
<1>5. UpperPage(a + b) = UpperPage(a) + b
  BY <1>1, <1>3, <1>4
<1>6. QED
  BY <1>5 DEF b

(* The pages of the bytes, and the window that is mapped for them. *)
LEMMA SameWindow ==
  ASSUME NEW virt \in Nat, NEW phys \in Nat, NEW size \in Nat, Congruent(virt, phys),
         NEW q \in Nat, NEW u \in Nat, LowerPage(phys) = PAGE * q, UpperPage(phys + size) = PAGE * u
  PROVE  /\ PagesOf(virt, size) = Window(LowerPage(virt), q, u)
         /\ LowerPage(virt) \in Nat /\ LowerPage(virt) \div PAGE = virt \div PAGE
         /\ phys \div PAGE = q
<1>1. PICK c \in Int : virt = phys + PAGE * c
  BY DEF Congruent
<1> DEFINE w == virt \div PAGE
           p == phys \div PAGE
<1>2. /\ w \in Nat /\ LowerPage(virt) = PAGE * w
      /\ p \in Nat /\ LowerPage(phys) = PAGE * p
  BY LowerPageIs
<1>3. w = p + c
  BY <1>1, DivShift
<1> HIDE DEF w, p
<1>4. (PAGE * w) \div PAGE = w /\ (PAGE * p) \div PAGE = p /\ (PAGE * q) \div PAGE = q
      /\ PAGE * w \in Nat
  <2>1. \A x \in Nat : PAGE * x \in Nat
    BY PagePositive
  <2>2. QED
    BY <1>2, <2>1, Aligned
<1>5. p = q
  BY <1>2, <1>4
<1>6. UpperPage(virt + size) = PAGE * (u + c)
  <2>1. phys + size \in Int /\ PAGE * c \in Int
    BY PagePositive
  <2>2. virt + size = (phys + size) + PAGE * c
    BY <1>1, <2>1
  <2>3. UpperPage(virt + size) = PAGE * u + PAGE * c
    BY <2>1, <2>2, UpperShift
  <2>4. QED
    BY <2>3, PagePositive
<1>7. (PAGE * (u + c)) \div PAGE = u + c
  BY Aligned
<1>8. PagesOf(virt, size) = w .. (u + c) - 1
  BY <1>2, <1>4, <1>6, <1>7 DEF PagesOf
<1>9. Window(LowerPage(virt), q, u) = w .. w + (u - q) - 1
  BY <1>2, <1>4 DEF Window
<1>10. w + (u - q) - 1 = (u + c) - 1
  BY <1>2, <1>3, <1>5
<1>11. QED
  BY <1>2, <1>4, <1>5, <1>8, <1>9, <1>10 DEF w, p

LEMMA MapPlaces ==
  ASSUME NEW d \in Directory, NEW virt \in Nat, NEW phys \in Nat, NEW size \in Nat,
         NEW write \in BOOLEAN, Congruent(virt, phys)
  PROVE  Places(paging_map_to(d, LowerPage(virt), LowerPage(phys), UpperPage(phys + size), write),
                d, virt, phys, size, write)
<1>1. PICK q \in Nat : LowerPage(phys) = PAGE * q
  BY LowerPageIs
<1>2. PICK u \in Nat : UpperPage(phys + size) = PAGE * u
  <2>1. phys + size \in Nat
    OBVIOUS
  <2>2. QED
    BY <2>1, UpperPageIs
<1>3. /\ PagesOf(virt, size) = Window(LowerPage(virt), q, u)
      /\ LowerPage(virt) \in Nat /\ LowerPage(virt) \div PAGE = virt \div PAGE
      /\ phys \div PAGE = q
  BY <1>1, <1>2, SameWindow
<1> DEFINE n == paging_map_to(d, LowerPage(virt), PAGE * q, PAGE * u, write)
<1>4. Mapped(n, d, LowerPage(virt), q, u, write)
  BY <1>3, MapTo
<1> HIDE DEF n
<1>5. Places(n, d, virt, phys, size, write)
  BY <1>3, <1>4 DEF Mapped, Places, Placed
<1>6. QED
  BY <1>1, <1>2, <1>5 DEF n

(* Where a byte of what was placed is found. *)
ByteAt(d, a, b, write) ==
  /\ a \div PAGE \in DOMAIN d
  /\ paging_get_physical_address(d, a) = b
  /\ d[a \div PAGE].write = write

LEMMA PlacedBytes ==
  ASSUME NEW d, NEW virt \in Nat, NEW phys \in Nat, NEW size \in Nat, NEW write \in BOOLEAN,
         Congruent(virt, phys), Placed(d, virt, phys, size, write), NEW i \in 0 .. size - 1
  PROVE  ByteAt(d, virt + i, phys + i, write)
<1> DEFINE a == virt + i
           v == a \div PAGE
           r == a % PAGE
           w == virt \div PAGE
           s == virt % PAGE
           p == phys \div PAGE
<1>1. PICK c \in Int : virt = phys + PAGE * c
  BY DEF Congruent
<1>2. /\ a \in Nat /\ virt <= a /\ a < virt + size
      /\ v \in Nat /\ r \in 0 .. PAGE - 1 /\ a = PAGE * v + r
      /\ w \in Nat /\ s \in 0 .. PAGE - 1 /\ virt = PAGE * w + s
      /\ p \in Nat /\ LowerPage(virt) = PAGE * w
  <2>1. a \in Nat /\ virt <= a /\ a < virt + size
    OBVIOUS
  <2> HIDE DEF a
  <2>2. v \in Nat /\ w \in Nat /\ LowerPage(virt) = PAGE * w /\ p \in Nat
    BY <2>1, LowerPageIs
  <2>3. r \in 0 .. PAGE - 1 /\ a = PAGE * v + r
    BY <2>1, PagePositive, DivMod
  <2>4. s \in 0 .. PAGE - 1 /\ virt = PAGE * w + s
    BY PagePositive, DivMod
  <2> HIDE DEF v, w, p, r, s
  <2>5. QED
    BY <2>1, <2>2, <2>3, <2>4
<1>3. w = p + c /\ phys = PAGE * p + s
  <2> DEFINE t == phys % PAGE
  <2>1. phys \in Int
    OBVIOUS
  <2>2. (phys + PAGE * c) \div PAGE = p + c /\ (phys + PAGE * c) % PAGE = t
    BY <2>1, DivShift
  <2>3. phys = PAGE * p + t
    BY <2>1, PagePositive, DivMod
  <2> HIDE DEF p, t
  <2>4. w = p + c /\ s = t
    BY <1>1, <2>2
  <2> HIDE DEF w, s
  <2>5. QED
    BY <2>3, <2>4
<1>4. PICK u \in Nat : UpperPage(virt + size) = PAGE * u /\ virt + size <= PAGE * u
  <2>1. virt + size \in Nat
    OBVIOUS
  <2>2. QED
    BY <2>1, UpperPageIs
<1> HIDE DEF a, v, r, w, s, p
<1>5. PagesOf(virt, size) = w .. u - 1
  <2>1. (PAGE * w) \div PAGE = w /\ (PAGE * u) \div PAGE = u
    BY <1>2, Aligned
  <2>2. QED
    BY <1>2, <1>4, <2>1 DEF PagesOf
<1>6. w <= v
  <2>1. PAGE * w < PAGE * (v + 1)
    <3>1. PAGE * w \in Int /\ PAGE * v \in Int /\ PAGE * (v + 1) = PAGE * v + PAGE
      BY <1>2, PagePositive
    <3>2. QED
      BY <1>2, <3>1, PagePositive
  <2>2. w < v + 1
    BY <1>2, <2>1, PagePositive, TimesLess
  <2>3. QED
    BY <1>2, <2>2
<1>7. v < u
  <2>1. PAGE * v < PAGE * u
    <3>1. PAGE * u \in Int /\ PAGE * v \in Int
      BY <1>2, PagePositive
    <3>2. QED
      BY <1>2, <1>4, <3>1
  <2>2. QED
    BY <1>2, <2>1, PagePositive, TimesLess
<1>8. v \in PagesOf(virt, size)
  BY <1>2, <1>5, <1>6, <1>7
<1>9. v \in DOMAIN d /\ d[v] = [page |-> p + (v - w), write |-> write]
  BY <1>8 DEF Placed, p, w
<1>10. paging_get_physical_address(d, a) = (p + (v - w)) * PAGE + r
  BY <1>9 DEF paging_get_physical_address, v, r
<1>11. (p + (v - w)) * PAGE + r = phys + i
  <2>1. PAGE \in Int /\ p \in Int /\ v \in Int /\ w \in Int
    BY <1>2, PagePositive
  <2>2. (p + (v - w)) * PAGE = PAGE * p + PAGE * (v - w)
    BY <2>1
  <2>3. PAGE * (v - w) = PAGE * v - PAGE * w
    BY <2>1
  <2> DEFINE pp == PAGE * p
             pv == PAGE * v
             pw == PAGE * w
  <2>4. pp \in Int /\ pv \in Int /\ pw \in Int
    BY <2>1
  <2>5. a = virt + i /\ a = pv + r /\ virt = pw + s /\ phys = pp + s
    BY <1>2, <1>3 DEF a
  <2>6. (p + (v - w)) * PAGE = pp + (pv - pw)
    BY <2>2, <2>3
  <2>7. r \in Int /\ s \in Int /\ i \in Int
    BY <1>2, PagePositive
  <2> HIDE DEF pp, pv, pw
  <2>8. (pp + (pv - pw)) + r = phys + i
    BY <2>4, <2>5, <2>7
  <2>9. QED
    BY <2>6, <2>8
<1>12. QED
  BY <1>9, <1>10, <1>11 DEF ByteAt, a, v

(* Addresses are multiples of a page, and so is how far they are apart. *)
LEMMA AddressIs ==
  ASSUME NEW a \in Address
  PROVE  a \in Nat /\ LowerPage(a) = a
<1>1. PICK h \in Nat : a = PAGE * h
  BY DEF Address
<1>2. a \in Nat
  BY <1>1, PagePositive
<1>3. a \div PAGE = h /\ LowerPage(a) = PAGE * (a \div PAGE)
  BY <1>1, <1>2, Aligned, LowerPageIs
<1>4. QED
  BY <1>1, <1>2, <1>3

LEMMA AddressesCongruent ==
  ASSUME NEW a \in Address, NEW b \in Address
  PROVE  Congruent(a, b)
<1>1. PICK h \in Nat : a = PAGE * h
  BY DEF Address
<1>2. PICK g \in Nat : b = PAGE * g
  BY DEF Address
<1>3. PAGE * h = PAGE * g + PAGE * (h - g) /\ h - g \in Int
  BY PagePositive
<1>4. QED
  BY <1>1, <1>2, <1>3 DEF Congruent

LEMMA PageAddress ==
  ASSUME NEW h \in Nat
  PROVE  h * PAGE \in Address
<1>1. h * PAGE = PAGE * h
  BY PagePositive
<1>2. QED
  BY <1>1 DEF Address

(* A block of memory is mapped. *)
LEMMA BlockPlaced ==
  ASSUME NEW d \in Directory, NEW virt \in Address, NEW a \in Address, NEW size \in Nat
  PROVE  Places(paging_map_to(d, virt, a, UpperPage(a + size), TRUE), d, virt, a, size, TRUE)
<1>1. /\ virt \in Nat /\ LowerPage(virt) = virt
      /\ a \in Nat /\ LowerPage(a) = a
      /\ Congruent(virt, a)
  BY AddressIs, AddressesCongruent
<1>2. Places(paging_map_to(d, LowerPage(virt), LowerPage(a), UpperPage(a + size), TRUE),
             d, virt, a, size, TRUE)
  BY <1>1, MapPlaces
<1>3. QED
  BY <1>1, <1>2

(* Memory of the heap, where it is. *)
LEMMA BlockSteady ==
  ASSUME NEW d \in Directory, NEW a \in Address, NEW size \in Nat,
         PagesOf(a, size) \subseteq HeapPage,
         NEW n, n = paging_map_to(d, a, a, UpperPage(a + size), TRUE)
  PROVE  Steady(d, n) /\ PagesOf(a, size) \subseteq DOMAIN n
<1> DEFINE P == PagesOf(a, size)
           q == a \div PAGE
<1>1. Places(n, d, a, a, size, TRUE)
  BY BlockPlaced
<1>2. q \in Int /\ HeapPage \subseteq Int
  BY AddressIs, LowerPageIs DEF HeapPage
<1>3. /\ DOMAIN n = DOMAIN d \cup P
      /\ \A v \in P : n[v] = [page |-> q + (v - q), write |-> TRUE]
      /\ \A v \in DOMAIN d \ P : n[v] = d[v]
  BY <1>1 DEF Places, Placed
<1> HIDE DEF P, q
<1>4. P \subseteq HeapPage
  BY DEF P
<1>5. \A v \in P : q + (v - q) = v
  BY <1>2, <1>4
<1>6. \A v \in P : n[v] = Identity(v)
  BY <1>3, <1>5 DEF Identity
<1>7. QED
  BY <1>3, <1>4, <1>6 DEF Steady, P

(* What is neither the screen's nor the heap's stays where it was placed. *)
LEMMA StillPlaced ==
  ASSUME NEW d, NEW n, NEW virt, NEW phys, NEW size, NEW write,
         Placed(d, virt, phys, size, write), Steady(d, n),
         PagesOf(virt, size) \cap (HeapPage \cup {VideoPage}) = {}
  PROVE  Placed(n, virt, phys, size, write)
<1>1. ASSUME NEW v \in PagesOf(virt, size) PROVE v \in DOMAIN n /\ n[v] = d[v]
  BY DEF Placed, Steady
<1>2. QED
  BY <1>1 DEF Placed
-----------------------------------------------------------------------------
(* A process finds what it was given: the pages of the heap it can reach   *)
(* are where they are, those of its allocations among them, and its stack  *)
(* and its program where they are linked to.                               *)
HeaderPlaced(d, h, image) == Placed(d, h.vaddr, image + h.offset, h.filesz, h.write)

ProgramPlaced(d, f, image) ==
  /\ f.type = "binary" => Placed(d, ProgramPage * PAGE, image, f.size, TRUE)
  /\ f.type # "binary" => \A i \in DOMAIN f.headers : HeaderPlaced(d, f.headers[i], image)

Right(m) ==
  /\ \A v \in DOMAIN m.directory \cap HeapPage : m.directory[v] = Identity(v)
  /\ Allocated(m) \subseteq DOMAIN m.directory \cap HeapPage
  /\ Placed(m.directory, StackPage * PAGE, m.stack, StackSize, TRUE)
  /\ ProgramPlaced(m.directory, m.file, m.image)

LEMMA FileLaid ==
  ASSUME NEW f \in File
  PROVE  /\ LinkedTo(f) \cap (StackPages \cup HeapPage \cup {VideoPage}) = {}
         /\ f.type = "binary" => PagesOf(ProgramPage * PAGE, f.size) = LinkedTo(f)
         /\ f.type # "binary" => \A i \in DOMAIN f.headers :
               PagesOf(f.headers[i].vaddr, f.headers[i].filesz) \subseteq LinkedTo(f)
<1>1. LinkedTo(f) \cap (StackPages \cup HeapPage \cup {VideoPage}) = {}
  BY LayoutAssumption DEF WellLaid
<1>2. f.type # "binary" => \A i \in DOMAIN f.headers : Linked(f.headers[i]) \subseteq LinkedTo(f)
  BY DEF LinkedTo
<1>3. f.type = "binary" => PagesOf(ProgramPage * PAGE, f.size) = LinkedTo(f)
  BY DEF LinkedTo
<1>4. QED
  BY <1>1, <1>2, <1>3 DEF Linked

(* Nothing of it moves while the process runs. *)
LEMMA ProgramStays ==
  ASSUME NEW f \in File, NEW image, NEW d, NEW n, ProgramPlaced(d, f, image), Steady(d, n)
  PROVE  ProgramPlaced(n, f, image)
<1>1. CASE f.type = "binary"
  <2>1. /\ Placed(d, ProgramPage * PAGE, image, f.size, TRUE)
        /\ PagesOf(ProgramPage * PAGE, f.size) \cap (HeapPage \cup {VideoPage}) = {}
    BY <1>1, FileLaid DEF ProgramPlaced
  <2>2. Placed(n, ProgramPage * PAGE, image, f.size, TRUE)
    BY <2>1, StillPlaced
  <2>3. QED
    BY <1>1, <2>2 DEF ProgramPlaced
<1>2. CASE f.type # "binary"
  <2>1. ASSUME NEW i \in DOMAIN f.headers PROVE HeaderPlaced(n, f.headers[i], image)
    <3> DEFINE h == f.headers[i]
    <3>1. /\ HeaderPlaced(d, h, image)
          /\ PagesOf(h.vaddr, h.filesz) \cap (HeapPage \cup {VideoPage}) = {}
      BY <1>2, FileLaid DEF ProgramPlaced
    <3> HIDE DEF h
    <3>2. HeaderPlaced(n, h, image)
      BY <3>1, StillPlaced DEF HeaderPlaced
    <3>3. QED
      BY <3>2 DEF h
  <2>2. QED
    BY <1>2, <2>1 DEF ProgramPlaced
<1>3. QED
  BY <1>1, <1>2

LEMMA RightStays ==
  ASSUME NEW m, Right(m), m.file \in File, NEW d, Steady(m.directory, d),
         NEW n, n.file = m.file, n.image = m.image, n.stack = m.stack, n.directory = d,
         NEW P, Allocated(n) = Allocated(m) \cup P, P \subseteq DOMAIN d \cap HeapPage
  PROVE  Right(n)
<1>1. VideoPage \notin HeapPage /\ StackPages \cap (HeapPage \cup {VideoPage}) = {}
  BY LayoutAssumption DEF WellLaid
<1>2. Placed(d, StackPage * PAGE, m.stack, StackSize, TRUE)
  BY <1>1, StillPlaced DEF Right, StackPages
<1>3. ProgramPlaced(d, m.file, m.image)
  BY ProgramStays DEF Right
<1>4. \A v \in DOMAIN d \cap HeapPage : d[v] = Identity(v)
  BY <1>1 DEF Right, Steady
<1>5. Allocated(n) \subseteq DOMAIN d \cap HeapPage
  BY DEF Right, Steady
<1>6. QED
  BY <1>2, <1>3, <1>4, <1>5 DEF Right
-----------------------------------------------------------------------------
(* A process and its memory: its stack shares no page with what is freed   *)
(* with it, and its directory leads to its memory, to the libraries' pages *)
(* L, and the page of the screen to V.                                     *)
Own(m, L, V) ==
  /\ Right(m)
  /\ m \in Memory
  /\ Len(m.sizes) = Len(m.allocations)
  /\ PagesOf(m.stack, StackSize)
     \cap (PagesOf(m.image, m.file.size) \cup PagesOf(m.video, PAGE) \cup Allocated(m)) = {}
  /\ Leads(m.directory, HeldBy(m) \cup L, V)

LEMMA MemoryIsProcess ==
  ASSUME NEW m \in Memory
  PROVE  m # NoProcess
<1>1. m.file \in File /\ NoProcess.file = NULL
  BY DEF Memory, NoProcess
<1>2. QED
  BY <1>1, UserMemoryAssumption

LEMMA FileIs ==
  ASSUME NEW f \in File
  PROVE  /\ f.size \in Nat \ {0} /\ f.headers \in Seq(Header)
         /\ \A i \in DOMAIN f.headers : f.headers[i].offset + f.headers[i].filesz <= f.size
<1>1. f \in Program
  BY FileAssumption
<1>2. f.size \in Nat \ {0} /\ f.headers \in Seq(Header)
  BY <1>1 DEF Program
<1>3. QED
  BY <1>2, FileAssumption

(* The directory is all that changes. *)
LEMMA NewDirectory ==
  ASSUME NEW m, NEW L, NEW V, Own(m, L, V), NEW d, NEW W, Leads(d, HeldBy(m) \cup L, W),
         Steady(m.directory, d), NEW n, n = [m EXCEPT !.directory = d]
  PROVE  Own(n, L, W) /\ HeldBy(n) = HeldBy(m)
<1>1. m \in Memory /\ d \in Directory
  BY DEF Own, Leads
<1>2. /\ n \in Memory /\ n.directory = d
      /\ n.file = m.file /\ n.image = m.image /\ n.stack = m.stack /\ n.video = m.video
      /\ n.allocations = m.allocations /\ n.sizes = m.sizes
  BY <1>1 DEF Memory
<1>3. Allocated(n) = Allocated(m)
  BY <1>2 DEF Allocated
<1>4. HeldBy(n) = HeldBy(m)
  BY <1>2, <1>3 DEF HeldBy
<1>5. Right(n)
  <2>1. Right(m) /\ m.file \in File
    BY <1>1 DEF Own, Memory
  <2> DEFINE P == {}
  <2>2. Allocated(n) = Allocated(m) \cup P /\ P \subseteq DOMAIN d \cap HeapPage
    BY <1>3
  <2> HIDE DEF P
  <2>3. QED
    BY <2>1, <2>2, <1>2, RightStays
<1>6. QED
  BY <1>2, <1>3, <1>4, <1>5 DEF Own

(* task_map_video_memory and task_unmap_video_memory, at a switch. *)
LEMMA VideoMapped ==
  ASSUME NEW m, NEW L, NEW V, Own(m, L, V)
  PROVE  /\ Own([m EXCEPT !.directory = task_map_video_memory(@, m.video)], L, {})
         /\ HeldBy([m EXCEPT !.directory = task_map_video_memory(@, m.video)]) = HeldBy(m)
<1> DEFINE A == HeldBy(m) \cup L
           d == task_map_video_memory(m.directory, m.video)
<1>1. PICK h \in Nat : m.video = PAGE * h
  BY DEF Own, Memory, Address
<1>2. h \in A
  <2>1. PICK u \in Nat : PAGE * h + PAGE <= PAGE * u /\ PagesOf(PAGE * h, PAGE) = h .. u - 1
    BY PagePositive, PagesOfBlock
  <2>2. PAGE * h < PAGE * u
    BY <2>1, PagePositive
  <2>3. h < u
    BY <2>2, PagePositive, TimesLess
  <2>4. h \in PagesOf(m.video, PAGE)
    BY <1>1, <2>1, <2>3
  <2>5. QED
    BY <2>4 DEF HeldBy
<1>3. Leads(m.directory, A, V)
  BY DEF Own
<1>4. d = paging_map_to(m.directory, VideoPage * PAGE, PAGE * h, PAGE * h + PAGE, TRUE)
  BY <1>1 DEF task_map_video_memory
<1>5. Leads(d, A, {}) /\ Steady(m.directory, d)
  <2> HIDE DEF A, d
  <2>1. QED
    BY <1>2, <1>3, <1>4, MapVideo
<1>6. [m EXCEPT !.directory = task_map_video_memory(@, m.video)] = [m EXCEPT !.directory = d]
  OBVIOUS
<1> HIDE DEF d
<1>7. QED
  BY <1>5, <1>6, NewDirectory

LEMMA VideoUnmapped ==
  ASSUME NEW m, NEW L, NEW V, Own(m, L, V)
  PROVE  /\ Own([m EXCEPT !.directory = task_unmap_video_memory(@)], L, {VideoPage})
         /\ HeldBy([m EXCEPT !.directory = task_unmap_video_memory(@)]) = HeldBy(m)
<1> DEFINE A == HeldBy(m) \cup L
           d == task_unmap_video_memory(m.directory)
<1>1. Leads(m.directory, A, V)
  BY DEF Own
<1>2. VideoPage \in Nat
  BY UserMemoryAssumption
<1>3. VideoPage * PAGE = PAGE * VideoPage /\ (VideoPage + 1) * PAGE = PAGE * VideoPage + PAGE
  BY <1>2, PagePositive
<1>4. d = paging_map_to(m.directory, VideoPage * PAGE, PAGE * VideoPage, PAGE * VideoPage + PAGE, TRUE)
  BY <1>3 DEF task_unmap_video_memory
<1>5. Leads(d, A, {VideoPage}) /\ Steady(m.directory, d)
  <2> HIDE DEF A, d
  <2>1. QED
    BY <1>1, <1>2, <1>4, MapVideo
<1>6. [m EXCEPT !.directory = task_unmap_video_memory(@)] = [m EXCEPT !.directory = d]
  OBVIOUS
<1> HIDE DEF d
<1>7. QED
  BY <1>5, <1>6, NewDirectory

LEMMA LeadsMore ==
  ASSUME NEW A, NEW V, NEW d, Leads(d, A, V), NEW B, A \subseteq B, NEW W, V \subseteq W
  PROVE  Leads(d, B, W)
<1>1. ASSUME NEW v \in DOMAIN d
      PROVE  d[v].page \in B \cup (IF v = VideoPage THEN W ELSE {})
  <2>1. d[v].page \in A \cup (IF v = VideoPage THEN V ELSE {})
    BY DEF Leads
  <2>2. QED
    BY <2>1
<1>2. QED
  BY <1>1 DEF Leads

(* The memory of a block is mapped where it is, or somewhere else. *)
LEMMA MapBlock ==
  ASSUME NEW A, NEW V, NEW d, Leads(d, A, V), NEW virt \in Nat, NEW a \in Address,
         NEW size \in Nat, PagesOf(a, size) \subseteq A
  PROVE  Leads(paging_map_to(d, virt, a, UpperPage(a + size), TRUE), A, V)
<1>1. PICK h \in Nat : a = PAGE * h
  BY DEF Address
<1>2. PICK u \in Nat : UpperPage(PAGE * h + size) = PAGE * u /\ PagesOf(PAGE * h, size) = h .. u - 1
  BY PagesOfBlock
<1>3. Leads(paging_map_to(d, virt, PAGE * h, PAGE * u, TRUE), A, V)
  BY <1>1, <1>2, MapLeads
<1>4. QED
  BY <1>1, <1>2, <1>3

LEMMA AddressIsNat ==
  ASSUME NEW a \in Address
  PROVE  a \in Nat
<1>1. PICK h \in Nat : a = PAGE * h
  BY DEF Address
<1>2. QED
  BY <1>1, PagePositive

(* What a process is given more. *)
Grown(m, a, size) ==
  [m EXCEPT !.allocations = Append(@, a), !.sizes = Append(@, size),
            !.directory = paging_map_to(@, a, a, UpperPage(a + size), TRUE)]

LEMMA GrownOwns ==
  ASSUME NEW m, NEW L, NEW V, Own(m, L, V), NEW a \in Address, NEW size \in Nat \ {0},
         PagesOf(a, size) \cap HeldBy(m) = {}, PagesOf(a, size) \subseteq HeapPage
  PROVE  /\ Own(Grown(m, a, size), L, V)
         /\ HeldBy(Grown(m, a, size)) = HeldBy(m) \cup PagesOf(a, size)
<1> DEFINE n == Grown(m, a, size)
           P == PagesOf(a, size)
           d == paging_map_to(m.directory, a, a, UpperPage(a + size), TRUE)
<1>1. m \in Memory /\ Leads(m.directory, HeldBy(m) \cup L, V) /\ Len(m.sizes) = Len(m.allocations)
  BY DEF Own
<1>2. Leads(d, HeldBy(m) \cup P \cup L, V)
  <2>1. Leads(m.directory, HeldBy(m) \cup P \cup L, V)
    BY <1>1, LeadsMore
  <2>2. a \in Nat
    BY AddressIsNat
  <2>3. QED
    BY <2>1, <2>2, MapBlock
<1>3. n = [m EXCEPT !.allocations = Append(@, a), !.sizes = Append(@, size), !.directory = d]
  BY DEF Grown
<1>4. d \in Directory /\ Steady(m.directory, d) /\ P \subseteq DOMAIN d \cap HeapPage
  <2>1. m.directory \in Directory /\ size \in Nat /\ d \in Directory
    BY <1>1, <1>2 DEF Leads
  <2>2. QED
    BY <2>1, BlockSteady
<1>5. /\ m.allocations \in Seq(Address) /\ m.sizes \in Seq(Nat \ {0})
      /\ Append(m.allocations, a) \in Seq(Address) /\ Append(m.sizes, size) \in Seq(Nat \ {0})
  BY <1>1 DEF Memory
<1> HIDE DEF d, n
<1>6. /\ n \in Memory /\ n.directory = d
      /\ n.file = m.file /\ n.image = m.image /\ n.stack = m.stack /\ n.video = m.video
      /\ n.allocations = Append(m.allocations, a) /\ n.sizes = Append(m.sizes, size)
  <2>1. n \in Memory
    BY <1>1, <1>3, <1>4, <1>5 DEF Memory
  <2>2. QED
    BY <1>1, <1>3, <2>1 DEF Memory
<1>7. Allocated(n) = Allocated(m) \cup P
  <2> DEFINE len == Len(m.allocations)
  <2>1. /\ len \in Nat /\ DOMAIN m.allocations = 1 .. len /\ DOMAIN n.allocations = 1 .. len + 1
        /\ n.allocations[len + 1] = a /\ n.sizes[len + 1] = size
        /\ \A i \in 1 .. len : n.allocations[i] = m.allocations[i] /\ n.sizes[i] = m.sizes[i]
    BY <1>1, <1>5, <1>6, AppendProperties, LenProperties
  <2> HIDE DEF len
  <2>2. PagesOf(n.allocations[len + 1], n.sizes[len + 1]) = P
    BY <2>1
  <2>3. \A i \in 1 .. len : PagesOf(n.allocations[i], n.sizes[i]) = PagesOf(m.allocations[i], m.sizes[i])
    BY <2>1
  <2>4. \A i : i \in 1 .. len + 1 <=> i \in 1 .. len \/ i = len + 1
    BY <2>1
  <2> HIDE DEF P
  <2>5. \A x : x \in Allocated(m) <=>
                   \E i \in 1 .. len : x \in PagesOf(m.allocations[i], m.sizes[i])
    BY <2>1 DEF Allocated
  <2>6. \A x : x \in Allocated(n) <=>
                   \E i \in 1 .. len + 1 : x \in PagesOf(n.allocations[i], n.sizes[i])
    BY <2>1 DEF Allocated
  <2>7. ASSUME NEW x \in Allocated(n) PROVE x \in Allocated(m) \cup P
    <3>1. PICK i \in 1 .. len + 1 : x \in PagesOf(n.allocations[i], n.sizes[i])
      BY <2>6, <2>7
    <3>2. CASE i = len + 1
      BY <2>2, <3>1, <3>2
    <3>3. CASE i \in 1 .. len
      BY <2>3, <2>5, <3>1, <3>3
    <3>4. QED
      BY <2>4, <3>2, <3>3
  <2>8. ASSUME NEW x \in Allocated(m) PROVE x \in Allocated(n)
    <3>1. PICK i \in 1 .. len : x \in PagesOf(m.allocations[i], m.sizes[i])
      BY <2>5, <2>8
    <3>2. i \in 1 .. len + 1 /\ x \in PagesOf(n.allocations[i], n.sizes[i])
      BY <2>3, <2>4, <3>1
    <3>3. QED
      BY <2>6, <3>2
  <2>9. ASSUME NEW x \in P PROVE x \in Allocated(n)
    <3>1. len + 1 \in 1 .. len + 1
      BY <2>4
    <3>2. QED
      BY <2>2, <2>6, <2>9, <3>1
  <2>10. QED
    BY <2>7, <2>8, <2>9
<1>8. HeldBy(n) = HeldBy(m) \cup P
  BY <1>6, <1>7 DEF HeldBy
<1>9. Len(n.sizes) = Len(n.allocations)
  BY <1>1, <1>5, <1>6, AppendProperties
<1>10. PagesOf(m.stack, StackSize) \cap P = {}
  BY DEF HeldBy
<1>11. PagesOf(n.stack, StackSize)
       \cap (PagesOf(n.image, n.file.size) \cup PagesOf(n.video, PAGE) \cup Allocated(n)) = {}
  <2>1. PagesOf(m.stack, StackSize)
        \cap (PagesOf(m.image, m.file.size) \cup PagesOf(m.video, PAGE) \cup Allocated(m)) = {}
    BY DEF Own
  <2> HIDE DEF P
  <2>2. QED
    BY <2>1, <1>6, <1>7, <1>10
<1>12. Leads(n.directory, HeldBy(n) \cup L, V)
  BY <1>2, <1>6, <1>8 DEF d
<1>13. Right(n)
  <2>1. Right(m) /\ m.file \in File
    BY <1>1 DEF Own, Memory
  <2> HIDE DEF P
  <2>2. QED
    BY <2>1, <1>4, <1>6, <1>7, RightStays
<1>14. QED
  BY <1>6, <1>8, <1>9, <1>11, <1>12, <1>13 DEF Own, n
-----------------------------------------------------------------------------
(* The pages a header of a program describes are pages of its image. *)
HeaderPages(image, offset, filesz, size, q, u) ==
  /\ LowerPage(image + offset) = PAGE * q
  /\ UpperPage(image + offset + filesz) = PAGE * u
  /\ q .. u - 1 \subseteq PagesOf(image, size)

LEMMA PagesOfHeader ==
  ASSUME NEW image \in Address, NEW offset \in Nat, NEW filesz \in Nat, NEW size \in Nat,
         offset + filesz <= size
  PROVE  \E q, u \in Nat : HeaderPages(image, offset, filesz, size, q, u)
<1>1. PICK h \in Nat : image = PAGE * h
  BY DEF Address
<1> DEFINE a == image + offset
           b == image + offset + filesz
           q == a \div PAGE
<1>2. image \in Nat /\ a \in Nat /\ b \in Nat /\ image <= a /\ b <= image + size
  BY AddressIsNat
<1> HIDE DEF a, b
<1>3. q \in Nat /\ LowerPage(a) = PAGE * q /\ a < PAGE * q + PAGE
  <2>1. a = PAGE * q + (a % PAGE) /\ a % PAGE \in 0 .. PAGE - 1
    BY <1>2, PagePositive, DivMod
  <2>2. q \in Nat /\ LowerPage(a) = PAGE * q
    BY <1>2, LowerPageIs
  <2> HIDE DEF q
  <2>3. PAGE * q \in Nat
    BY <2>2, PagePositive
  <2>4. QED
    BY <2>1, <2>2, <2>3, PagePositive
<1>4. PICK u \in Nat : UpperPage(b) = PAGE * u /\ PAGE * u < b + PAGE
  BY <1>2, UpperPageIs
<1>5. PICK w \in Nat : PAGE * h + size <= PAGE * w /\ PagesOf(PAGE * h, size) = h .. w - 1
  BY PagesOfBlock
<1> HIDE DEF q
<1>6. h <= q
  <2>1. PAGE * h < PAGE * (q + 1)
    <3>1. PAGE * (q + 1) = PAGE * q + PAGE /\ PAGE * q \in Nat /\ PAGE * h \in Nat
      BY <1>3, PagePositive
    <3>2. QED
      BY <1>1, <1>2, <1>3, <3>1, PagePositive
  <2>2. q + 1 \in Int
    BY <1>3
  <2>3. h < q + 1
    BY <2>1, <2>2, PagePositive, TimesLess
  <2>4. QED
    BY <2>3, <1>3
<1>7. u <= w
  <2>1. PAGE * u < PAGE * (w + 1)
    <3>1. /\ PAGE * (w + 1) = PAGE * w + PAGE /\ PAGE * w \in Nat /\ PAGE * u \in Nat
          /\ PAGE * h \in Nat
      BY PagePositive
    <3>2. QED
      BY <1>1, <1>2, <1>4, <1>5, <3>1, PagePositive
  <2>2. w + 1 \in Int
    OBVIOUS
  <2>3. u < w + 1
    BY <2>1, <2>2, PagePositive, TimesLess
  <2>4. QED
    BY <2>3
<1>8. q .. u - 1 \subseteq PagesOf(image, size)
  BY <1>1, <1>3, <1>5, <1>6, <1>7
<1>9. HeaderPages(image, offset, filesz, size, q, u)
  BY <1>3, <1>4, <1>8 DEF a, b, HeaderPages
<1>10. QED
  BY <1>3, <1>9

(* process_map_elf, header by header, in a set of directories that every   *)
(* step stays in.                                                          *)
ElfStep(x, f, image, i) ==
  paging_map_to(x, LowerPage(f.headers[i].vaddr), LowerPage(image + f.headers[i].offset),
                UpperPage(image + f.headers[i].offset + f.headers[i].filesz),
                f.headers[i].write)

LEMMA ElfRecursion ==
  ASSUME NEW f \in File, NEW image, NEW S, NEW d \in S,
         \A i \in 1 .. Len(f.headers), x \in S : ElfStep(x, f, image, i) \in S
  PROVE  \E g \in [0 .. Len(f.headers) -> S] :
           /\ g[0] = d
           /\ \A i \in 1 .. Len(f.headers) : g[i] = ElfStep(g[i - 1], f, image, i)
           /\ process_map_elf(d, f, image) = g[Len(f.headers)]
<1> DEFINE n == Len(f.headers)
           Body(g) == [i \in 0 .. n |->
             IF i = 0 THEN d
             ELSE paging_map_to(g[i - 1], LowerPage(f.headers[i].vaddr),
                                LowerPage(image + f.headers[i].offset),
                                UpperPage(image + f.headers[i].offset + f.headers[i].filesz),
                                f.headers[i].write)]
           mapped == CHOOSE g : g = Body(g)
           step == [i \in 1 .. n |-> [x \in S |-> ElfStep(x, f, image, i)]]
<1>1. process_map_elf(d, f, image) = mapped[n]
  BY DEF process_map_elf
<1>2. n \in Nat
  BY FileIs, LenProperties
<1>3. step \in [1 .. n -> [S -> S]]
  OBVIOUS
<1>4. PICK g \in [0 .. n -> S] : Iterates(g, n, d, step)
  <2> HIDE DEF step, n
  <2>1. QED
    BY <1>2, <1>3, Recursion
<1>5. g[0] = d
  BY <1>4 DEF Iterates
<1>6. ASSUME NEW i \in 1 .. n PROVE g[i] = ElfStep(g[i - 1], f, image, i)
  <2>1. i - 1 \in 0 .. n
    BY <1>2
  <2>2. g[i] = step[i][g[i - 1]] /\ g[i - 1] \in S
    BY <1>4, <2>1 DEF Iterates
  <2>3. QED
    BY <2>2
<1>7. g = Body(g)
  <2> HIDE DEF n
  <2>1. \A i \in 0 .. n : i = 0 \/ i \in 1 .. n
    BY <1>2
  <2>2. \A i \in 0 .. n : g[i] = Body(g)[i]
    BY <1>5, <1>6, <2>1 DEF ElfStep
  <2>3. QED
    BY <1>4, <2>2
<1>8. mapped = Body(mapped)
  BY <1>7
<1> HIDE DEF mapped, n
<1>9. mapped[0] = d /\ \A i \in 1 .. n : mapped[i] = ElfStep(mapped[i - 1], f, image, i)
  <2>1. 0 \in 0 .. n /\ \A i \in 1 .. n : i \in 0 .. n /\ i # 0
    BY <1>2
  <2>2. QED
    BY <1>8, <2>1 DEF ElfStep
<1> DEFINE T == {i \in 0 .. n : mapped[i] = g[i]}
<1>10. 0 \in T
  BY <1>2, <1>5, <1>9
<1>11. ASSUME NEW i \in 1 .. n, i - 1 \in T PROVE i \in T
  BY <1>2, <1>6, <1>9, <1>11
<1>12. n \in T
  <2> HIDE DEF T
  <2>1. 0 .. n \subseteq T
    BY <1>2, <1>10, <1>11, UpTo
  <2>2. QED
    BY <2>1, <1>2
<1>13. process_map_elf(d, f, image) = g[n]
  BY <1>1, <1>12
<1>14. QED
  BY <1>4, <1>5, <1>6, <1>13 DEF n

(* What the kernel reads of a header. *)
LEMMA HeaderIs ==
  ASSUME NEW f \in File, NEW i \in 1 .. Len(f.headers), NEW h, h = f.headers[i]
  PROVE  /\ h.vaddr \in Nat /\ h.offset \in Nat /\ h.filesz \in Nat /\ h.write \in BOOLEAN
         /\ h.offset + h.filesz <= f.size /\ f.size \in Nat
         /\ i \in DOMAIN f.headers
<1>1. f.headers \in Seq(Header) /\ f.size \in Nat
  BY FileIs
<1>2. i \in DOMAIN f.headers /\ f.headers[i] \in Header
  BY <1>1, LenProperties, ElementOfSeq
<1>3. h.offset + h.filesz <= f.size
  BY <1>2, FileIs
<1>4. QED
  BY <1>1, <1>2, <1>3 DEF Header

(* process_map_elf maps pages of the image. *)
LEMMA ElfLeads ==
  ASSUME NEW A, NEW V, NEW d, Leads(d, A, V), NEW f \in File, NEW image \in Address,
         PagesOf(image, f.size) \subseteq A
  PROVE  Leads(process_map_elf(d, f, image), A, V)
<1> DEFINE n == Len(f.headers)
           S == {x \in Directory : Leads(x, A, V)}
<1>1. d \in S
  BY DEF Leads
<1>2. ASSUME NEW i \in 1 .. n, NEW x \in S PROVE ElfStep(x, f, image, i) \in S
  <2> DEFINE h == f.headers[i]
  <2>1. /\ h.vaddr \in Nat /\ h.offset \in Nat /\ h.filesz \in Nat /\ h.write \in BOOLEAN
        /\ h.offset + h.filesz <= f.size /\ f.size \in Nat
    BY HeaderIs
  <2> HIDE DEF h
  <2>2. PICK q, u \in Nat : HeaderPages(image, h.offset, h.filesz, f.size, q, u)
    BY <2>1, PagesOfHeader
  <2>3. LowerPage(h.vaddr) \in Nat
    <3>1. h.vaddr \div PAGE \in Nat /\ LowerPage(h.vaddr) = PAGE * (h.vaddr \div PAGE)
      BY <2>1, LowerPageIs
    <3> DEFINE v == h.vaddr \div PAGE
    <3> HIDE DEF v
    <3>2. v \in Nat => PAGE * v \in Nat
      BY PagePositive
    <3>3. QED
      BY <3>1, <3>2 DEF v
  <2>4. Leads(x, A, V) /\ q .. u - 1 \subseteq A
    BY <2>2 DEF HeaderPages
  <2>5. Leads(paging_map_to(x, LowerPage(h.vaddr), PAGE * q, PAGE * u, h.write), A, V)
    BY <2>1, <2>3, <2>4, MapLeads
  <2>6. Leads(ElfStep(x, f, image, i), A, V)
    BY <2>2, <2>5 DEF h, HeaderPages, ElfStep
  <2>7. QED
    BY <2>6 DEF Leads
<1>3. PICK g \in [0 .. n -> S] : process_map_elf(d, f, image) = g[n]
  <2> HIDE DEF S
  <2>1. QED
    BY <1>1, <1>2, ElfRecursion
<1>4. n \in 0 .. n
  BY FileIs, LenProperties
<1>5. QED
  BY <1>3, <1>4

(* A header's data and its addresses lie alike in their pages. *)
LiesAlike(h, image) ==
  \E c \in Int : /\ h.vaddr - h.offset = PAGE * c
                /\ h.vaddr = (image + h.offset) + PAGE * (c - (image \div PAGE))

LEMMA HeaderCongruent ==
  ASSUME NEW f \in File, NEW i \in 1 .. Len(f.headers), NEW h, h = f.headers[i],
         NEW image \in Address
  PROVE  LiesAlike(h, image) /\ Congruent(h.vaddr, image + h.offset)
<1>1. h.vaddr \in Nat /\ h.offset \in Nat /\ i \in DOMAIN f.headers
  BY HeaderIs
<1>2. (h.vaddr - h.offset) % PAGE = 0
  BY <1>1, LayoutAssumption DEF WellLaid
<1> DEFINE a == h.vaddr - h.offset
           c == a \div PAGE
           b == image \div PAGE
<1>3. a \in Int /\ c \in Int /\ a = PAGE * c
  <2>1. a \in Int
    BY <1>1
  <2>2. c \in Int /\ a = PAGE * c + (a % PAGE)
    BY <2>1, PagePositive, DivMod
  <2> HIDE DEF c
  <2>3. PAGE * c \in Int
    BY <2>2, PagePositive
  <2>4. QED
    BY <2>1, <2>2, <2>3, <1>2
<1>4. b \in Nat /\ image = PAGE * b /\ image \in Nat
  BY AddressIs, LowerPageIs
<1> HIDE DEF c, b
<1>5. PAGE * (c - b) = PAGE * c - PAGE * b
  BY <1>3, <1>4, PagePositive
<1>6. h.vaddr = (image + h.offset) + PAGE * (c - b)
  <2>1. PAGE * c \in Int /\ PAGE * b \in Int
    BY <1>3, <1>4, PagePositive
  <2>2. h.vaddr - h.offset = PAGE * c
    BY <1>3
  <2>3. QED
    BY <2>1, <2>2, <1>1, <1>4, <1>5
<1>7. LiesAlike(h, image)
  BY <1>3, <1>6 DEF b, LiesAlike
<1>8. Congruent(h.vaddr, image + h.offset)
  <2>1. c - b \in Int
    BY <1>3, <1>4
  <2>2. QED
    BY <2>1, <1>6 DEF Congruent
<1>9. QED
  BY <1>7, <1>8

(* So the entry a header gives a page depends on no more than that. *)
HeaderEntry(h, image, v) ==
  [page |-> ((image + h.offset) \div PAGE) + (v - (h.vaddr \div PAGE)), write |-> h.write]

LEMMA AlikeEntry ==
  ASSUME NEW f \in File, NEW i \in 1 .. Len(f.headers), NEW j \in 1 .. Len(f.headers),
         NEW image \in Address, Alike(f.headers[i], f.headers[j]), NEW v \in Int
  PROVE  HeaderEntry(f.headers[i], image, v) = HeaderEntry(f.headers[j], image, v)
<1>1. ASSUME NEW k \in 1 .. Len(f.headers), NEW h, h = f.headers[k]
      PROVE  \E c \in Int : h.vaddr - h.offset = PAGE * c
                 /\ ((image + h.offset) \div PAGE) + (v - (h.vaddr \div PAGE)) = v - (c - (image \div PAGE))
  <2>1. PICK c \in Int : /\ h.vaddr - h.offset = PAGE * c
                         /\ h.vaddr = (image + h.offset) + PAGE * (c - (image \div PAGE))
    BY <1>1, HeaderCongruent DEF LiesAlike
  <2> DEFINE e == c - (image \div PAGE)
             p == image + h.offset
             q == p \div PAGE
             w == h.vaddr \div PAGE
  <2>2. e \in Int /\ p \in Nat
    <3>1. image \in Nat /\ h.offset \in Nat
      BY <1>1, AddressIs, HeaderIs
    <3>2. image \div PAGE \in Nat
      BY <3>1, LowerPageIs
    <3>3. QED
      BY <3>1, <3>2
  <2>3. h.vaddr = p + PAGE * e
    BY <2>1
  <2> HIDE DEF e, p
  <2>4. w = q + e /\ q \in Int
    <3>1. p \in Int
      BY <2>2
    <3>2. (p + PAGE * e) \div PAGE = q + e
      BY <2>2, <3>1, DivShift
    <3>3. q \in Int
      BY <3>1, PagePositive, DivMod
    <3>4. QED
      BY <3>2, <3>3, <2>3
  <2> HIDE DEF w, q
  <2>5. q + (v - w) = v - e
    BY <2>2, <2>4
  <2>6. QED
    BY <2>1, <2>5 DEF w, q, e, p
<1> DEFINE g == f.headers[i]
           h == f.headers[j]
<1>2. PICK c \in Int : /\ g.vaddr - g.offset = PAGE * c
                       /\ ((image + g.offset) \div PAGE) + (v - (g.vaddr \div PAGE)) = v - (c - (image \div PAGE))
  BY <1>1
<1>3. PICK b \in Int : /\ h.vaddr - h.offset = PAGE * b
                       /\ ((image + h.offset) \div PAGE) + (v - (h.vaddr \div PAGE)) = v - (b - (image \div PAGE))
  BY <1>1
<1>4. g.vaddr - g.offset = h.vaddr - h.offset /\ g.write = h.write
  BY DEF Alike
<1> HIDE DEF g, h
<1>5. b = c
  <2>1. PAGE * b = PAGE * c
    BY <1>2, <1>3, <1>4
  <2>2. (PAGE * b) \div PAGE = b /\ (PAGE * c) \div PAGE = c
    BY Aligned
  <2>3. QED
    BY <2>1, <2>2
<1>6. HeaderEntry(g, image, v) = HeaderEntry(h, image, v)
  BY <1>2, <1>3, <1>4, <1>5 DEF HeaderEntry
<1>7. QED
  BY <1>6 DEF g, h

(* A header is mapped; those that were mapped stay, for one that shares a  *)
(* page with it describes the page alike.                                  *)
HeaderMapped(n, d, f, image, i) ==
  /\ n \in Directory /\ HeaderPlaced(n, f.headers[i], image)
  /\ DOMAIN n = DOMAIN d \cup PagesOf(f.headers[i].vaddr, f.headers[i].filesz)
  /\ \A j \in 1 .. Len(f.headers) :
        HeaderPlaced(d, f.headers[j], image) => HeaderPlaced(n, f.headers[j], image)

LEMMA HeaderPlaces ==
  ASSUME NEW f \in File, NEW i \in 1 .. Len(f.headers), NEW image \in Address,
         NEW d \in Directory
  PROVE  HeaderMapped(ElfStep(d, f, image, i), d, f, image, i)
<1> DEFINE n == ElfStep(d, f, image, i)
           h == f.headers[i]
           phys == image + h.offset
<1>1. /\ h.vaddr \in Nat /\ h.offset \in Nat /\ h.filesz \in Nat /\ h.write \in BOOLEAN
      /\ i \in DOMAIN f.headers
  BY HeaderIs
<1>2. phys \in Nat
  BY <1>1, AddressIs
<1>3. Congruent(h.vaddr, phys)
  BY HeaderCongruent
<1>4. Places(n, d, h.vaddr, phys, h.filesz, h.write)
  <2>1. n = paging_map_to(d, LowerPage(h.vaddr), LowerPage(phys), UpperPage(phys + h.filesz), h.write)
    BY DEF ElfStep
  <2> HIDE DEF n, h, phys
  <2>2. QED
    BY <2>1, <1>1, <1>2, <1>3, MapPlaces
<1> HIDE DEF n
<1> DEFINE P == PagesOf(h.vaddr, h.filesz)
<1>5. /\ n \in Directory /\ HeaderPlaced(n, h, image) /\ DOMAIN n = DOMAIN d \cup P
      /\ \A v \in DOMAIN d \ P : n[v] = d[v]
  BY <1>4 DEF Places, HeaderPlaced
<1>6. ASSUME NEW j \in 1 .. Len(f.headers), HeaderPlaced(d, f.headers[j], image)
      PROVE  HeaderPlaced(n, f.headers[j], image)
  <2> DEFINE g == f.headers[j]
             Q == PagesOf(g.vaddr, g.filesz)
  <2>1. j \in DOMAIN f.headers
    BY HeaderIs
  <2>2. P \cap Q = {} \/ Alike(h, g)
    BY <1>1, <2>1, LayoutAssumption DEF WellLaid, Linked
  <2>3. \A v \in Q : v \in DOMAIN d /\ d[v] = HeaderEntry(g, image, v)
    BY <1>6 DEF HeaderPlaced, Placed, HeaderEntry
  <2>4. \A v \in P : v \in DOMAIN n /\ n[v] = HeaderEntry(h, image, v)
    BY <1>5 DEF HeaderPlaced, Placed, HeaderEntry
  <2>5. Alike(h, g) => \A v \in Int : HeaderEntry(h, image, v) = HeaderEntry(g, image, v)
    BY AlikeEntry
  <2>6. DOMAIN d \subseteq Int
    BY DirectoryIs
  <2> HIDE DEF g, h, P, Q
  <2>7. \A v \in Q : v \in DOMAIN n /\ n[v] = HeaderEntry(g, image, v)
    BY <2>2, <2>3, <2>4, <2>5, <2>6, <1>5
  <2>8. HeaderPlaced(n, g, image)
    BY <2>7 DEF HeaderPlaced, Placed, HeaderEntry, Q
  <2>9. QED
    BY <2>8 DEF g
<1>7. HeaderMapped(n, d, f, image, i)
  BY <1>5, <1>6 DEF HeaderMapped
<1>8. QED
  BY <1>7 DEF n

(* process_map_elf places all of a program. *)
LEMMA ElfPlaced ==
  ASSUME NEW d \in Directory, NEW f \in File, f.type # "binary", NEW image \in Address,
         NEW m, m = process_map_elf(d, f, image)
  PROVE  /\ m \in Directory /\ ProgramPlaced(m, f, image)
         /\ DOMAIN m \subseteq DOMAIN d \cup LinkedTo(f)
<1> DEFINE n == Len(f.headers)
<1>1. n \in Nat /\ DOMAIN f.headers = 1 .. n
  BY FileIs, LenProperties
<1>2. \A i \in 1 .. n, x \in Directory : ElfStep(x, f, image, i) \in Directory
  BY HeaderPlaces DEF HeaderMapped
<1>3. PICK g \in [0 .. n -> Directory] :
        /\ g[0] = d
        /\ \A i \in 1 .. n : g[i] = ElfStep(g[i - 1], f, image, i)
        /\ m = g[n]
  BY <1>2, ElfRecursion
<1> HIDE DEF n
<1> DEFINE Good(i) == /\ DOMAIN g[i] \subseteq DOMAIN d \cup LinkedTo(f)
                      /\ \A j \in 1 .. i : HeaderPlaced(g[i], f.headers[j], image)
           T == {i \in 0 .. n : Good(i)}
<1>4. 0 \in T
  <2>1. 0 \in 0 .. n /\ \A j : j \notin 1 .. 0
    BY <1>1
  <2>2. QED
    BY <2>1, <1>3
<1>5. ASSUME NEW i \in 1 .. n, i - 1 \in T PROVE i \in T
  <2> DEFINE x == g[i - 1]
             P == PagesOf(f.headers[i].vaddr, f.headers[i].filesz)
  <2>1. x \in Directory /\ g[i] = ElfStep(x, f, image, i) /\ Good(i - 1) /\ i \in 0 .. n
    <3>1. i - 1 \in 0 .. n /\ Good(i - 1)
      BY <1>5
    <3>2. i \in 0 .. n
      BY <1>1
    <3> HIDE DEF Good
    <3>3. x \in Directory /\ g[i] = ElfStep(x, f, image, i)
      BY <1>3, <3>1
    <3>4. QED
      BY <3>1, <3>2, <3>3
  <2>2. /\ HeaderPlaced(g[i], f.headers[i], image)
        /\ DOMAIN g[i] = DOMAIN x \cup P
        /\ \A j \in 1 .. n : HeaderPlaced(x, f.headers[j], image) => HeaderPlaced(g[i], f.headers[j], image)
    <3>1. HeaderMapped(g[i], x, f, image, i)
      <4>1. i \in 1 .. Len(f.headers)
        BY DEF n
      <4> HIDE DEF x, n
      <4>2. HeaderMapped(ElfStep(x, f, image, i), x, f, image, i)
        BY <2>1, <4>1, HeaderPlaces
      <4>3. QED
        BY <2>1, <4>2
    <3>2. QED
      BY <3>1 DEF HeaderMapped, n
  <2>3. P \subseteq LinkedTo(f)
    BY <1>1, FileLaid
  <2> HIDE DEF P
  <2>4. DOMAIN x \subseteq DOMAIN d \cup LinkedTo(f) /\ \A j \in 1 .. i - 1 : HeaderPlaced(x, f.headers[j], image)
    BY <2>1
  <2> HIDE DEF x
  <2>5. \A j \in 1 .. i : j = i \/ (j \in 1 .. i - 1 /\ j \in 1 .. n)
    BY <1>1
  <2>6. Good(i)
    BY <2>2, <2>3, <2>4, <2>5
  <2>7. QED
    BY <2>1, <2>6
<1>6. n \in T
  <2> HIDE DEF T
  <2>1. 0 .. n \subseteq T
    BY <1>1, <1>4, <1>5, UpTo
  <2>2. QED
    BY <2>1, <1>1
<1>7. QED
  BY <1>1, <1>3, <1>6 DEF ProgramPlaced
-----------------------------------------------------------------------------
(* The memory of the libraries, mapped for a process. *)
LEMMA LibraryPagesAre ==
  ASSUME NEW list \in Seq(Address)
  PROVE  LibraryPages(list) \subseteq Nat
<1>1. ASSUME NEW i \in DOMAIN list PROVE PagesOf(list[i], LibrarySize) \subseteq Nat
  <2>1. list[i] \in Address
    BY <1>1, ElementOfSeq, LenProperties
  <2>2. LibrarySize \in Nat
    BY SizesPositive
  <2>3. QED
    BY <2>1, <2>2, PagesOfAddress
<1>2. QED
  BY <1>1 DEF LibraryPages

LEMMA LibrariesLead ==
  ASSUME NEW A, NEW V, NEW d, Leads(d, A, V), NEW list \in Seq(Address),
         LibraryPages(list) \subseteq A
  PROVE  Leads(library_map_all(d, list), A, V)
<1> DEFINE L == LibraryPages(list)
           n == library_map_all(d, list)
<1>1. L \subseteq Int
  BY LibraryPagesAre
<1>2. n = [v \in DOMAIN d \cup L |-> IF v \in L THEN [page |-> v, write |-> TRUE] ELSE d[v]]
  BY DEF library_map_all
<1>3. DOMAIN d \subseteq Int /\ \A v \in DOMAIN d : d[v] \in Entry
  BY DirectoryIs DEF Leads
<1> HIDE DEF L, n
<1>4. \A v \in L : [page |-> v, write |-> TRUE] \in Entry
  BY <1>1 DEF Entry
<1>5. n \in [DOMAIN d \cup L -> Entry] /\ DOMAIN d \cup L \in SUBSET Int
  BY <1>1, <1>2, <1>3, <1>4
<1>6. n \in Directory /\ DOMAIN n = DOMAIN d \cup L
  BY <1>5, IsDirectory
<1>7. ASSUME NEW v \in L PROVE n[v].page \in A
  <2>1. n[v] = [page |-> v, write |-> TRUE]
    BY <1>2
  <2>2. QED
    BY <2>1 DEF L
<1>8. ASSUME NEW v \in DOMAIN d \ L
      PROVE  n[v].page \in A \cup (IF v = VideoPage THEN V ELSE {})
  <2>1. n[v] = d[v]
    BY <1>2
  <2>2. QED
    BY <2>1 DEF Leads
<1>9. QED
  BY <1>6, <1>7, <1>8 DEF Leads, n

(* process_map_memory maps what was loaded, and the libraries. *)
LEMMA MemoryMapped ==
  ASSUME NEW f \in File, NEW image \in Address, NEW stack \in Address, NEW video \in Address,
         NEW list \in Seq(Address), NEW A, NEW m,
         m = PagesOf(image, f.size) \cup PagesOf(stack, StackSize) \cup PagesOf(video, PAGE),
         A = m \cup LibraryPages(list)
  PROVE  Leads(process_map_memory(f, image, stack, video, list), A, {})
<1> DEFINE fresh == task_map_video_memory(<<>>, video)
           program == IF f.type = "elf" THEN process_map_elf(fresh, f, image)
                      ELSE process_map_binary(fresh, f, image)
           full == paging_map_to(program, StackPage * PAGE, stack, UpperPage(stack + StackSize), TRUE)
<1>1. process_map_memory(f, image, stack, video, list) = library_map_all(full, list)
  BY DEF process_map_memory
<1>2. Leads(<<>>, A, {})
  <2>1. <<>> \in [{} -> Entry]
    OBVIOUS
  <2>2. <<>> \in Directory
    <3>1. {} \in SUBSET Int
      OBVIOUS
    <3>2. QED
      BY <2>1, <3>1, IsDirectory
  <2>3. QED
    BY <2>2 DEF Leads
<1>3. /\ PAGE \in Nat \ {0} /\ f.size \in Nat /\ StackSize \in Nat
      /\ VideoPage * PAGE \in Nat /\ StackPage * PAGE \in Nat /\ ProgramPage * PAGE \in Nat
  <2>1. VideoPage \in Nat /\ StackPage \in Nat /\ ProgramPage \in Nat
    BY UserMemoryAssumption
  <2>2. \A x \in Nat : x * PAGE \in Nat
    BY PagePositive
  <2>3. QED
    BY <2>1, <2>2, PagePositive, SizesPositive, FileIs
<1>4. Leads(fresh, A, {})
  <2>1. PICK h \in Nat : video = PAGE * h
    BY DEF Address
  <2>2. PICK u \in Nat : PAGE * h + PAGE <= PAGE * u /\ PagesOf(PAGE * h, PAGE) = h .. u - 1
    BY <1>3, PagesOfBlock
  <2>3. h \in PagesOf(video, PAGE)
    <3>1. PAGE * h < PAGE * u
      BY <2>2, PagePositive
    <3>2. h < u
      BY <3>1, PagePositive, TimesLess
    <3>3. QED
      BY <2>1, <2>2, <3>2
  <2>4. fresh = paging_map_to(<<>>, VideoPage * PAGE, PAGE * h, PAGE * h + PAGE, TRUE)
    BY <2>1 DEF task_map_video_memory
  <2>5. h \in A
    BY <2>3
  <2>6. ASSUME NEW e, Leads(e, A, {})
        PROVE  Leads(paging_map_to(e, VideoPage * PAGE, PAGE * h, PAGE * h + PAGE, TRUE), A, {})
    BY <2>5, <2>6, MapVideo
  <2>7. QED
    BY <1>2, <2>4, <2>6
<1> HIDE DEF fresh
<1>5. Leads(program, A, {})
  <2>1. PagesOf(image, f.size) \subseteq A
    OBVIOUS
  <2>2. Leads(process_map_elf(fresh, f, image), A, {})
    BY <1>4, <2>1, ElfLeads
  <2>3. Leads(process_map_binary(fresh, f, image), A, {})
    BY <1>3, <1>4, <2>1, MapBlock DEF process_map_binary
  <2>4. QED
    BY <2>2, <2>3
<1> HIDE DEF program
<1>6. Leads(full, A, {})
  <2>1. PagesOf(stack, StackSize) \subseteq A
    OBVIOUS
  <2>2. QED
    BY <1>3, <1>5, <2>1, MapBlock
<1> HIDE DEF full
<1>7. LibraryPages(list) \subseteq A
  OBVIOUS
<1>8. QED
  BY <1>1, <1>6, <1>7, LibrariesLead

(* The libraries are mapped where they are. *)
LEMMA LibrariesSteady ==
  ASSUME NEW d, NEW list, LibraryPages(list) \subseteq HeapPage
  PROVE  Steady(d, library_map_all(d, list))
<1> DEFINE L == LibraryPages(list)
<1>1. library_map_all(d, list) = [v \in DOMAIN d \cup L |-> IF v \in L THEN Identity(v) ELSE d[v]]
  BY DEF library_map_all, Identity
<1> HIDE DEF L
<1>2. L \subseteq HeapPage
  BY DEF L
<1>3. QED
  BY <1>1, <1>2 DEF Steady

MemoryAt(d, f, image, stack) ==
  /\ \A v \in DOMAIN d \cap HeapPage : d[v] = Identity(v)
  /\ Placed(d, StackPage * PAGE, stack, StackSize, TRUE)
  /\ ProgramPlaced(d, f, image)

LEMMA MemoryPlaced ==
  ASSUME NEW f \in File, NEW image \in Address, NEW stack \in Address, NEW video \in Address,
         NEW list \in Seq(Address), LibraryPages(list) \subseteq HeapPage,
         NEW d, d = process_map_memory(f, image, stack, video, list)
  PROVE  MemoryAt(d, f, image, stack)
<1> DEFINE fresh == task_map_video_memory(<<>>, video)
           program == IF f.type = "elf" THEN process_map_elf(fresh, f, image)
                      ELSE process_map_binary(fresh, f, image)
           full == paging_map_to(program, StackPage * PAGE, stack, UpperPage(stack + StackSize), TRUE)
<1>1. d = library_map_all(full, list)
  BY DEF process_map_memory
<1>2. /\ f.size \in Nat /\ StackSize \in Nat
      /\ StackPage * PAGE \in Address /\ ProgramPage * PAGE \in Address
      /\ f.type \in {"binary", "elf"}
  <2>1. StackPage \in Nat /\ ProgramPage \in Nat /\ f \in Program
    BY UserMemoryAssumption, FileAssumption
  <2>2. QED
    BY <2>1, SizesPositive, FileIs, PageAddress DEF Program
<1>3. fresh \in Directory /\ DOMAIN fresh = {VideoPage}
  <2>1. <<>> \in Directory /\ DOMAIN <<>> = {}
    <3>1. <<>> \in [{} -> Entry] /\ {} \in SUBSET Int
      OBVIOUS
    <3>2. QED
      BY <3>1, IsDirectory
  <2>2. VideoPage \in Nat
    BY UserMemoryAssumption
  <2>3. PICK h \in Nat : video = PAGE * h
    BY DEF Address
  <2>4. video + PAGE = PAGE * (h + 1) /\ h + 1 \in Nat
    BY <2>3, PagePositive
  <2>5. VideoPage * PAGE \in Nat /\ (VideoPage * PAGE) \div PAGE = VideoPage
    <3>1. VideoPage * PAGE = PAGE * VideoPage
      BY <2>2, PagePositive
    <3>2. QED
      BY <2>2, <3>1, PageAddress, AddressIs, Aligned
  <2>6. Mapped(fresh, <<>>, VideoPage * PAGE, h, h + 1, TRUE)
    <3>1. fresh = paging_map_to(<<>>, VideoPage * PAGE, PAGE * h, PAGE * (h + 1), TRUE)
      BY <2>3, <2>4 DEF task_map_video_memory
    <3>2. QED
      BY <2>1, <2>4, <2>5, <3>1, MapTo
  <2>7. Window(VideoPage * PAGE, h, h + 1) = {VideoPage}
    BY <2>2, <2>5 DEF Window
  <2> HIDE DEF fresh
  <2>8. QED
    BY <2>1, <2>6, <2>7 DEF Mapped
<1> HIDE DEF fresh
<1>4. /\ program \in Directory /\ ProgramPlaced(program, f, image)
      /\ DOMAIN program \subseteq {VideoPage} \cup LinkedTo(f)
  <2>1. CASE f.type # "binary"
    <3>1. program = process_map_elf(fresh, f, image)
      BY <1>2, <2>1
    <3> HIDE DEF program
    <3>2. QED
      BY <2>1, <3>1, <1>3, ElfPlaced
  <2>2. CASE f.type = "binary"
    <3>1. program = paging_map_to(fresh, ProgramPage * PAGE, image, UpperPage(image + f.size), TRUE)
      BY <2>2 DEF process_map_binary
    <3> HIDE DEF program
    <3>2. Places(program, fresh, ProgramPage * PAGE, image, f.size, TRUE)
      BY <3>1, <1>2, <1>3, BlockPlaced
    <3>3. PagesOf(ProgramPage * PAGE, f.size) = LinkedTo(f)
      BY <2>2, FileLaid
    <3>4. QED
      BY <2>2, <3>2, <3>3, <1>3 DEF Places, ProgramPlaced
  <2>3. QED
    BY <2>1, <2>2
<1> HIDE DEF program
<1>5. Places(full, program, StackPage * PAGE, stack, StackSize, TRUE)
  BY <1>2, <1>4, BlockPlaced
<1> HIDE DEF full
<1>6. Placed(full, StackPage * PAGE, stack, StackSize, TRUE)
  BY <1>5 DEF Places
<1>7. ProgramPlaced(full, f, image)
  <2>1. \A v \in LinkedTo(f) : v \in DOMAIN program => v \in DOMAIN full /\ full[v] = program[v]
    BY <1>5, FileLaid DEF Places, StackPages
  <2>2. CASE f.type = "binary"
    <3>1. Placed(full, ProgramPage * PAGE, image, f.size, TRUE)
      BY <2>1, <2>2, <1>4, FileLaid DEF ProgramPlaced, Placed
    <3>2. QED
      BY <2>2, <3>1 DEF ProgramPlaced
  <2>3. CASE f.type # "binary"
    <3>1. ASSUME NEW i \in DOMAIN f.headers PROVE HeaderPlaced(full, f.headers[i], image)
      <4> DEFINE h == f.headers[i]
      <4>1. HeaderPlaced(program, h, image) /\ PagesOf(h.vaddr, h.filesz) \subseteq LinkedTo(f)
        BY <2>3, <1>4, FileLaid DEF ProgramPlaced
      <4> HIDE DEF h
      <4>2. HeaderPlaced(full, h, image)
        BY <2>1, <4>1 DEF HeaderPlaced, Placed
      <4>3. QED
        BY <4>2 DEF h
    <3>2. QED
      BY <2>3, <3>1 DEF ProgramPlaced
  <2>4. QED
    BY <2>2, <2>3
<1>8. DOMAIN full \cap HeapPage = {}
  <2>1. /\ (LinkedTo(f) \cup StackPages) \cap HeapPage = {} /\ VideoPage \notin HeapPage
    BY FileLaid, LayoutAssumption DEF WellLaid
  <2>2. DOMAIN full \subseteq {VideoPage} \cup LinkedTo(f) \cup StackPages
    BY <1>4, <1>5 DEF Places, StackPages
  <2>3. QED
    BY <2>1, <2>2
<1>9. Steady(full, d)
  BY <1>1, LibrariesSteady
<1>10. ProgramPlaced(d, f, image)
  BY <1>7, <1>9, ProgramStays
<1>11. Placed(d, StackPage * PAGE, stack, StackSize, TRUE)
  <2>1. PagesOf(StackPage * PAGE, StackSize) \cap (HeapPage \cup {VideoPage}) = {}
    BY LayoutAssumption DEF WellLaid, StackPages
  <2>2. QED
    BY <2>1, <1>6, <1>9, StillPlaced
<1>12. \A v \in DOMAIN d \cap HeapPage : d[v] = Identity(v)
  <2>1. VideoPage \notin HeapPage
    BY LayoutAssumption DEF WellLaid
  <2>2. QED
    BY <2>1, <1>8, <1>9 DEF Steady
<1>13. QED
  BY <1>10, <1>11, <1>12 DEF MemoryAt

(* A process that was loaded owns its memory. *)
LEMMA LoadedOwns ==
  ASSUME NEW f \in File, NEW image \in Address, NEW stack \in Address, NEW video \in Address,
         NEW list \in Seq(Address), LibraryPages(list) \subseteq HeapPage,
         NEW n, n = Loaded(f, image, stack, video, list),
         PagesOf(stack, StackSize) \cap (PagesOf(image, f.size) \cup PagesOf(video, PAGE)) = {}
  PROVE  /\ Own(n, LibraryPages(list), {})
         /\ HeldBy(n) = PagesOf(image, f.size) \cup PagesOf(stack, StackSize) \cup PagesOf(video, PAGE)
<1> DEFINE d == process_map_memory(f, image, stack, video, list)
           m == PagesOf(image, f.size) \cup PagesOf(stack, StackSize) \cup PagesOf(video, PAGE)
<1>1. Leads(d, m \cup LibraryPages(list), {})
  BY MemoryMapped
<1>2. n = [file |-> f, image |-> image, stack |-> stack, video |-> video,
           allocations |-> <<>>, sizes |-> <<>>, directory |-> d]
  BY DEF Loaded
<1> HIDE DEF d
<1>3. n \in Memory
  <2>1. <<>> \in Seq(Address) /\ <<>> \in Seq(Nat \ {0}) /\ d \in Directory
    BY <1>1, EmptySeq DEF Leads
  <2>2. QED
    BY <1>2, <2>1 DEF Memory
<1>4. /\ n.file = f /\ n.image = image /\ n.stack = stack /\ n.video = video
      /\ n.allocations = <<>> /\ n.sizes = <<>> /\ n.directory = d
  BY <1>2
<1>5. Allocated(n) = {}
  <2>1. DOMAIN n.allocations = {}
    BY <1>4
  <2>2. QED
    BY <2>1 DEF Allocated
<1>6. HeldBy(n) = m
  BY <1>4, <1>5 DEF HeldBy
<1>7. Len(n.sizes) = Len(n.allocations)
  BY <1>4
<1>8. Leads(n.directory, HeldBy(n) \cup LibraryPages(list), {})
  BY <1>1, <1>4, <1>6
<1>9. PagesOf(n.stack, StackSize)
      \cap (PagesOf(n.image, n.file.size) \cup PagesOf(n.video, PAGE) \cup Allocated(n)) = {}
  BY <1>4, <1>5
<1>10. Right(n)
  <2>1. d = process_map_memory(f, image, stack, video, list)
    BY DEF d
  <2>2. MemoryAt(d, f, image, stack)
    BY <2>1, MemoryPlaced
  <2>3. MemoryAt(n.directory, n.file, n.image, n.stack)
    BY <2>2, <1>4
  <2>4. QED
    BY <2>3, <1>5 DEF Right, MemoryAt
<1>11. QED
  BY <1>3, <1>6, <1>7, <1>8, <1>9, <1>10 DEF Own
-----------------------------------------------------------------------------
(* The pages of a process, if there is one, and those that have an owner. *)
HeldIn(k, p) == IF k.processes[p] = NoProcess THEN {} ELSE HeldBy(k.processes[p])
Owned(k) == (UNION {HeldIn(k, p) : p \in Process}) \cup LibraryPages(k.libraries) \cup k.leaked
Screen(k, p) == IF p = k.foreground THEN {VideoPage} ELSE {}

(* What a handler relies on and sees to: the heap holds the pages with an  *)
(* owner, and the pages X it has taken and not yet given to anybody; no    *)
(* page has two owners.                                                    *)
Sound(k, X) ==
  /\ k \in Kernel
  /\ k.taken = Owned(k) \cup X
  /\ X \cap Owned(k) = {}
  /\ \A p \in Live(k) : Own(k.processes[p], LibraryPages(k.libraries), Screen(k, p))
  /\ \A p \in Process : HeldIn(k, p) \cap (LibraryPages(k.libraries) \cup k.leaked) = {}
  /\ \A p, q \in Process : p # q => HeldIn(k, p) \cap HeldIn(k, q) = {}

LEMMA LiveHolds ==
  ASSUME NEW k, NEW p \in Live(k)
  PROVE  p \in Process /\ k.processes[p] # NoProcess /\ HeldIn(k, p) = HeldBy(k.processes[p])
  BY DEF Live, HeldIn

LEMMA OwnedIs ==
  ASSUME NEW k, NEW x
  PROVE  x \in Owned(k) <=> \/ \E p \in Process : x \in HeldIn(k, p)
                           \/ x \in LibraryPages(k.libraries)
                           \/ x \in k.leaked
<1> DEFINE U == UNION {HeldIn(k, p) : p \in Process}
<1>1. x \in U <=> \E p \in Process : x \in HeldIn(k, p)
  OBVIOUS
<1>2. Owned(k) = U \cup LibraryPages(k.libraries) \cup k.leaked
  BY DEF Owned
<1> HIDE DEF U
<1>3. QED
  BY <1>1, <1>2

(* All of them are pages of the heap. *)
LEMMA SoundPages ==
  ASSUME NEW k, NEW X, Sound(k, X)
  PROVE  X \subseteq HeapPage /\ LibraryPages(k.libraries) \subseteq HeapPage
<1>1. k.taken \subseteq HeapPage /\ k.taken = Owned(k) \cup X
  BY DEF Sound, Kernel
<1>2. LibraryPages(k.libraries) \subseteq Owned(k)
  BY OwnedIs
<1>3. QED
  BY <1>1, <1>2

LEMMA HeapPagesAre == HeapPage \subseteq Int
BY UserMemoryAssumption DEF HeapPage

(* Only the heap has changed. *)
LEMMA SoundHeap ==
  ASSUME NEW k, NEW X, Sound(k, X), NEW n \in Kernel, SameButHeap(k, n),
         NEW Y, n.taken = Owned(k) \cup Y, Y \cap Owned(k) = {}
  PROVE  Sound(n, Y)
<1>1. \A p \in Process : HeldIn(n, p) = HeldIn(k, p)
  BY DEF HeldIn, SameButHeap
<1>2. n.libraries = k.libraries /\ n.leaked = k.leaked /\ n.processes = k.processes
  BY DEF SameButHeap
<1>3. Owned(n) = Owned(k)
  BY <1>1, <1>2 DEF Owned
<1>4. \A p \in Process : Screen(n, p) = Screen(k, p)
  BY DEF Screen, SameButHeap
<1>5. Live(n) = Live(k) /\ Live(n) \subseteq Process
  BY <1>2 DEF Live
<1>6. \A p \in Live(n) : Own(n.processes[p], LibraryPages(n.libraries), Screen(n, p))
  BY <1>2, <1>4, <1>5 DEF Sound
<1>7. /\ \A p \in Process : HeldIn(n, p) \cap (LibraryPages(n.libraries) \cup n.leaked) = {}
      /\ \A p, q \in Process : p # q => HeldIn(n, p) \cap HeldIn(n, q) = {}
  BY <1>1, <1>2 DEF Sound
<1>8. QED
  BY <1>3, <1>6, <1>7 DEF Sound

LEMMA kmallocSound ==
  ASSUME NEW k, NEW X, Sound(k, X), NEW size \in Nat \ {0}, NEW n, n = kmalloc(k, size)
  PROVE  /\ SameButHeap(k, n)
         /\ \/ n.got = NULL /\ Sound(n, X)
            \/ /\ n.got \in Address
               /\ PagesOf(n.got, size) \cap (Owned(k) \cup X) = {}
               /\ Sound(n, X \cup PagesOf(n.got, size))
<1>1. k \in Kernel /\ k.taken = Owned(k) \cup X /\ X \cap Owned(k) = {}
  BY DEF Sound
<1>2. /\ n \in Kernel /\ SameButHeap(k, n)
      /\ \/ n.got = NULL /\ n.taken = k.taken
         \/ /\ n.got \in Address
            /\ PagesOf(n.got, size) \cap k.taken = {}
            /\ n.taken = k.taken \cup PagesOf(n.got, size)
  BY <1>1, kmallocGives
<1>3. CASE n.got = NULL /\ n.taken = k.taken
  BY <1>1, <1>2, <1>3, SoundHeap
<1>4. CASE /\ n.got \in Address
           /\ PagesOf(n.got, size) \cap k.taken = {}
           /\ n.taken = k.taken \cup PagesOf(n.got, size)
  <2> DEFINE Y == X \cup PagesOf(n.got, size)
  <2>1. n.taken = Owned(k) \cup Y /\ Y \cap Owned(k) = {}
    BY <1>1, <1>4
  <2> HIDE DEF Y
  <2>2. Sound(n, Y)
    BY <1>2, <2>1, SoundHeap
  <2>3. QED
    BY <1>1, <1>2, <1>4, <2>2 DEF Y
<1>5. QED
  BY <1>2, <1>3, <1>4

(* A process is given the pages that were taken. *)
LEMMA SoundMemory ==
  ASSUME NEW k, NEW X, Sound(k, X), NEW p \in Process,
         NEW m, Own(m, LibraryPages(k.libraries), Screen(k, p)), HeldBy(m) = HeldIn(k, p) \cup X,
         NEW n \in Kernel, n.processes = [k.processes EXCEPT ![p] = m],
         n.foreground = k.foreground, n.libraries = k.libraries, n.leaked = k.leaked,
         n.taken = k.taken
  PROVE  Sound(n, {}) /\ Live(n) = Live(k) \cup {p}
<1>1. k.processes \in [Process -> Memory \cup {NoProcess}]
  BY DEF Sound, Kernel
<1>2. n.processes[p] = m /\ \A q \in Process \ {p} : n.processes[q] = k.processes[q]
  BY <1>1
<1>3. m # NoProcess
  BY MemoryIsProcess DEF Own
<1>4. HeldIn(n, p) = HeldIn(k, p) \cup X /\ \A q \in Process \ {p} : HeldIn(n, q) = HeldIn(k, q)
  BY <1>2, <1>3 DEF HeldIn
<1>5. Live(n) = Live(k) \cup {p}
  BY <1>2, <1>3 DEF Live
<1>6. \A q \in Live(n) : Own(n.processes[q], LibraryPages(n.libraries), Screen(n, q))
  <2>1. \A q : Screen(n, q) = Screen(k, q)
    BY DEF Screen
  <2>2. \A q \in Live(k) \ {p} : n.processes[q] = k.processes[q]
    BY <1>2 DEF Live
  <2>3. \A q \in Live(k) : Own(k.processes[q], LibraryPages(k.libraries), Screen(k, q))
    BY DEF Sound
  <2>4. QED
    BY <1>2, <1>5, <2>1, <2>2, <2>3
<1>7. Owned(n) = Owned(k) \cup X
  <2>1. ASSUME NEW x PROVE x \in Owned(n) <=> x \in Owned(k) \cup X
    <3>1. (\E q \in Process : x \in HeldIn(n, q)) <=> (\E q \in Process : x \in HeldIn(k, q)) \/ x \in X
      BY <1>4
    <3>2. QED
      BY <3>1, OwnedIs
  <2>2. QED
    BY <2>1
<1>8. n.taken = Owned(n)
  BY <1>7 DEF Sound
<1>9. X \cap (LibraryPages(k.libraries) \cup k.leaked) = {} /\ \A q \in Process : X \cap HeldIn(k, q) = {}
  <2>1. X \cap Owned(k) = {}
    BY DEF Sound
  <2>2. QED
    BY <2>1, OwnedIs
<1>10. \A q \in Process : HeldIn(n, q) \cap (LibraryPages(n.libraries) \cup n.leaked) = {}
  <2>1. \A q \in Process : HeldIn(k, q) \cap (LibraryPages(k.libraries) \cup k.leaked) = {}
    BY DEF Sound
  <2>2. QED
    BY <2>1, <1>4, <1>9
<1>11. \A q, r \in Process : q # r => HeldIn(n, q) \cap HeldIn(n, r) = {}
  <2>1. \A q, r \in Process : q # r => HeldIn(k, q) \cap HeldIn(k, r) = {}
    BY DEF Sound
  <2>2. QED
    BY <2>1, <1>4, <1>9
<1>12. QED
  BY <1>5, <1>6, <1>8, <1>10, <1>11 DEF Sound

(* The pages that were taken are lost. *)
LEMMA SoundLeaked ==
  ASSUME NEW k, NEW X, Sound(k, X), NEW n, n = [k EXCEPT !.leaked = @ \cup X]
  PROVE  Sound(n, {})
<1>1. k \in Kernel /\ k.taken = Owned(k) \cup X /\ X \cap Owned(k) = {} /\ X \subseteq Int
  <2>1. k \in Kernel /\ k.taken = Owned(k) \cup X /\ X \cap Owned(k) = {}
    BY DEF Sound
  <2>2. k.taken \subseteq Int
    BY <2>1, HeapPagesAre DEF Kernel
  <2>3. QED
    BY <2>1, <2>2
<1>2. /\ n \in Kernel /\ n.processes = k.processes /\ n.foreground = k.foreground
      /\ n.libraries = k.libraries /\ n.taken = k.taken /\ n.leaked = k.leaked \cup X
  BY <1>1 DEF Kernel
<1>3. /\ \A p : HeldIn(n, p) = HeldIn(k, p) /\ Screen(n, p) = Screen(k, p)
      /\ Live(n) = Live(k)
  BY <1>2 DEF HeldIn, Screen, Live
<1>4. \A x : x \in Owned(n) <=> x \in Owned(k) \/ x \in X
  BY <1>2, <1>3, OwnedIs
<1>5. n.taken = Owned(n)
  BY <1>1, <1>2, <1>4
<1>6. \A p \in Live(n) : Own(n.processes[p], LibraryPages(n.libraries), Screen(n, p))
  BY <1>2, <1>3 DEF Sound
<1>7. \A p \in Process : HeldIn(n, p) \cap (LibraryPages(n.libraries) \cup n.leaked) = {}
  <2>1. \A p \in Process : HeldIn(k, p) \cap (LibraryPages(k.libraries) \cup k.leaked) = {}
    BY DEF Sound
  <2>2. \A p \in Process : HeldIn(k, p) \cap X = {}
    BY <1>1, OwnedIs
  <2>3. QED
    BY <2>1, <2>2, <1>2, <1>3
<1>8. \A p, q \in Process : p # q => HeldIn(n, p) \cap HeldIn(n, q) = {}
  BY <1>3 DEF Sound
<1>9. QED
  BY <1>2, <1>5, <1>6, <1>7, <1>8 DEF Sound

(* process_switch. *)
LEMMA SoundSwitch ==
  ASSUME NEW k, Sound(k, {}), k.foreground \in Live(k), NEW p \in Live(k),
         NEW n, n = process_switch(k, p)
  PROVE  Sound(n, {}) /\ n.foreground = p /\ Live(n) = Live(k)
<1> DEFINE f == k.foreground
           L == LibraryPages(k.libraries)
           m == [k.processes[f] EXCEPT !.directory = task_map_video_memory(@, k.processes[f].video)]
           t == [k.processes EXCEPT ![f] = m]
           o == [t[p] EXCEPT !.directory = task_unmap_video_memory(@)]
<1>1. k \in Kernel /\ f \in Process /\ p \in Process /\ Live(k) \subseteq Process
  BY DEF Sound, Live
<1>2. k.processes \in [Process -> Memory \cup {NoProcess}]
  BY <1>1 DEF Kernel
<1>3. \A q \in Live(k) : Own(k.processes[q], L, Screen(k, q))
  BY DEF Sound
<1>4. Own(m, L, {}) /\ HeldBy(m) = HeldBy(k.processes[f])
  BY <1>3, VideoMapped
<1>5. /\ n.processes = [t EXCEPT ![p] = o]
      /\ n.foreground = p /\ n.libraries = k.libraries /\ n.taken = k.taken
      /\ n.leaked = k.leaked /\ n.closed = k.closed /\ n.ended = k.ended /\ n.got = k.got
      /\ n = [processes |-> n.processes, taken |-> n.taken, foreground |-> n.foreground,
              libraries |-> n.libraries, closed |-> n.closed, leaked |-> n.leaked,
              ended |-> n.ended, got |-> n.got]
  <2>1. n = [k EXCEPT !.processes[f].directory = task_map_video_memory(@, k.processes[f].video),
                      !.processes[p].directory = task_unmap_video_memory(@), !.foreground = p]
    BY DEF process_switch
  <2>2. n.processes = [t EXCEPT ![p] = o]
    <3>1. "processes" \in DOMAIN k
      BY <1>1 DEF Kernel
    <3>2. QED
      BY <2>1, <3>1
  <2> HIDE DEF m, o, t
  <2>3. /\ n.foreground = p /\ n.libraries = k.libraries /\ n.taken = k.taken
        /\ n.leaked = k.leaked /\ n.closed = k.closed /\ n.ended = k.ended /\ n.got = k.got
    BY <2>1, <1>1, <1>2 DEF Kernel
  <2>4. n = [processes |-> n.processes, taken |-> n.taken, foreground |-> n.foreground,
             libraries |-> n.libraries, closed |-> n.closed, leaked |-> n.leaked,
             ended |-> n.ended, got |-> n.got]
    BY <2>1, <1>1, <1>2 DEF Kernel
  <2>5. QED
    BY <2>2, <2>3, <2>4
<1> HIDE DEF m
<1>6. t[f] = m /\ \A q \in Process \ {f} : t[q] = k.processes[q]
  BY <1>1, <1>2
<1>7. \A q \in Live(k) \ {p} : Own(t[q], L, {}) /\ HeldBy(t[q]) = HeldBy(k.processes[q])
  <2>1. \A q \in Live(k) \ {f} : Screen(k, q) = {}
    BY DEF Screen
  <2>2. QED
    BY <2>1, <1>1, <1>3, <1>4, <1>6
<1>8. \E V : Own(t[p], L, V) /\ HeldBy(t[p]) = HeldBy(k.processes[p])
  BY <1>1, <1>3, <1>4, <1>6
<1>9. Own(o, L, {VideoPage}) /\ HeldBy(o) = HeldBy(k.processes[p])
  BY <1>8, VideoUnmapped
<1> HIDE DEF o
<1>10. t \in [Process -> Memory \cup {NoProcess}]
  BY <1>1, <1>2, <1>4 DEF Own
<1> HIDE DEF t
<1>11. /\ n \in Kernel /\ n.foreground = p /\ n.libraries = k.libraries
       /\ n.taken = k.taken /\ n.leaked = k.leaked
       /\ n.processes = [t EXCEPT ![p] = o]
  <2>1. o \in Memory
    BY <1>9 DEF Own
  <2>2. [t EXCEPT ![p] = o] \in [Process -> Memory \cup {NoProcess}]
    BY <2>1, <1>10
  <2>3. QED
    BY <1>1, <1>5, <2>2 DEF Kernel
<1>12. n.processes[p] = o /\ \A q \in Process \ {p} : n.processes[q] = t[q]
  BY <1>1, <1>10, <1>11
<1>13. \A q \in Live(k) : Own(n.processes[q], L, Screen(n, q)) /\ HeldBy(n.processes[q]) = HeldBy(k.processes[q])
  <2>1. Screen(n, p) = {VideoPage} /\ \A q \in Live(k) \ {p} : Screen(n, q) = {}
    BY <1>11 DEF Screen
  <2>2. QED
    BY <2>1, <1>1, <1>7, <1>9, <1>12
<1>14. \A q \in Process \ Live(k) : n.processes[q] = NoProcess /\ k.processes[q] = NoProcess
  <2>1. \A q \in Process \ Live(k) : k.processes[q] = NoProcess /\ q # p /\ q # f
    BY DEF Live
  <2>2. QED
    BY <2>1, <1>6, <1>12
<1>15. \A q \in Live(k) : n.processes[q] # NoProcess
  BY <1>13, MemoryIsProcess DEF Own
<1>16. Live(n) = Live(k)
  BY <1>1, <1>14, <1>15 DEF Live
<1>17. \A q \in Process : HeldIn(n, q) = HeldIn(k, q)
  BY <1>13, <1>14, <1>15 DEF HeldIn, Live
<1>18. Owned(n) = Owned(k)
  BY <1>11, <1>17 DEF Owned
<1>19. /\ n.taken = Owned(n)
       /\ \A q \in Process : HeldIn(n, q) \cap (LibraryPages(n.libraries) \cup n.leaked) = {}
       /\ \A q, r \in Process : q # r => HeldIn(n, q) \cap HeldIn(n, r) = {}
  BY <1>11, <1>17, <1>18 DEF Sound
<1>20. \A q \in Live(n) : Own(n.processes[q], LibraryPages(n.libraries), Screen(n, q))
  BY <1>11, <1>13, <1>16
<1>21. QED
  BY <1>11, <1>16, <1>19, <1>20 DEF Sound

(* process_free of a process in the background: what it does not free is   *)
(* lost.                                                                   *)
LEMMA SoundFree ==
  ASSUME NEW k, Sound(k, {}), NEW p \in Live(k), NEW n, n = process_free(k, p)
  PROVE  Sound(n, {}) /\ n.foreground = k.foreground /\ Live(n) = Live(k) \ {p}
<1> DEFINE m == k.processes[p]
           image == PagesOf(m.image, m.file.size)
           stack == PagesOf(m.stack, StackSize)
           video == PagesOf(m.video, PAGE)
           alloc == Allocated(m)
           freed == video \cup (IF m.file.type = "binary" THEN image ELSE {}) \cup alloc
           lost == HeldBy(m) \ freed
<1>1. /\ k \in Kernel /\ p \in Process /\ m \in Memory /\ m # NoProcess
      /\ HeldIn(k, p) = HeldBy(m)
      /\ stack \cap (image \cup video \cup alloc) = {}
  <2>1. Own(m, LibraryPages(k.libraries), Screen(k, p)) /\ k \in Kernel
    BY DEF Sound
  <2>2. QED
    BY <2>1, LiveHolds DEF Own
<1>2. HeldBy(m) = image \cup stack \cup video \cup alloc
  BY DEF HeldBy
<1>3. n = [k EXCEPT !.taken = @ \ freed, !.leaked = @ \cup stack \cup (image \ freed),
                    !.processes[p] = NoProcess]
  BY DEF process_free
<1> HIDE DEF image, stack, video, alloc
<1>4. stack \cup (image \ freed) = lost /\ freed \subseteq HeldBy(m)
  BY <1>1, <1>2
<1>5. n = [k EXCEPT !.taken = @ \ freed, !.leaked = @ \cup lost, !.processes[p] = NoProcess]
  <2>1. k.leaked \cup stack \cup (image \ freed) = k.leaked \cup lost
    BY <1>4
  <2> HIDE DEF freed, lost, m
  <2>2. QED
    BY <1>3, <2>1
<1> HIDE DEF freed
<1>6. lost = HeldIn(k, p) \ freed /\ freed \subseteq HeldIn(k, p)
  BY <1>1, <1>4
<1> HIDE DEF lost, m
<1>7. k.taken = Owned(k) /\ k.taken \subseteq HeapPage /\ k.taken \subseteq Int
  BY <1>1, HeapPagesAre DEF Sound, Kernel
<1>8. lost \subseteq Int
  <2>1. HeldIn(k, p) \subseteq Owned(k)
    BY <1>1, OwnedIs
  <2>2. QED
    BY <2>1, <1>6, <1>7
<1>9. /\ n \in Kernel /\ n.foreground = k.foreground /\ n.libraries = k.libraries
      /\ n.taken = k.taken \ freed /\ n.leaked = k.leaked \cup lost
      /\ n.processes = [k.processes EXCEPT ![p] = NoProcess]
  <2> DEFINE t == [k.processes EXCEPT ![p] = NoProcess]
             T == k.taken \ freed
             G == k.leaked \cup lost
  <2>1. t \in [Process -> Memory \cup {NoProcess}] /\ T \subseteq HeapPage /\ G \subseteq Int
    BY <1>1, <1>7, <1>8 DEF Kernel
  <2>2. n = [k EXCEPT !.taken = T, !.leaked = G, !.processes = t]
    BY <1>1, <1>5 DEF Kernel
  <2> HIDE DEF t, T, G
  <2>3. /\ n \in Kernel /\ n.foreground = k.foreground /\ n.libraries = k.libraries
        /\ n.taken = T /\ n.leaked = G /\ n.processes = t
    BY <1>1, <2>1, <2>2 DEF Kernel
  <2>4. QED
    BY <2>3 DEF t, T, G
<1>10. n.processes[p] = NoProcess /\ \A q \in Process \ {p} : n.processes[q] = k.processes[q]
  BY <1>1, <1>9 DEF Kernel
<1>11. Live(n) = Live(k) \ {p}
  BY <1>10 DEF Live
<1>12. HeldIn(n, p) = {} /\ \A q \in Process \ {p} : HeldIn(n, q) = HeldIn(k, q)
  BY <1>10 DEF HeldIn
<1>13. /\ \A q \in Process : HeldIn(k, q) \cap (LibraryPages(k.libraries) \cup k.leaked) = {}
       /\ \A q, r \in Process : q # r => HeldIn(k, q) \cap HeldIn(k, r) = {}
  BY DEF Sound
<1>14. ASSUME NEW x PROVE x \in n.taken <=> x \in Owned(n)
  <2>1. x \in Owned(k) <=> \/ \E q \in Process \ {p} : x \in HeldIn(k, q)
                          \/ x \in HeldIn(k, p)
                          \/ x \in LibraryPages(k.libraries)
                          \/ x \in k.leaked
    BY <1>1, OwnedIs
  <2>2. x \in Owned(n) <=> \/ \E q \in Process \ {p} : x \in HeldIn(k, q)
                          \/ x \in lost
                          \/ x \in LibraryPages(k.libraries)
                          \/ x \in k.leaked
    BY <1>1, <1>9, <1>12, OwnedIs
  <2>3. x \in freed => /\ x \notin LibraryPages(k.libraries) /\ x \notin k.leaked
                      /\ ~\E q \in Process \ {p} : x \in HeldIn(k, q)
    BY <1>1, <1>6, <1>13
  <2>4. QED
    BY <2>1, <2>2, <2>3, <1>6, <1>7, <1>9
<1>15. n.taken = Owned(n)
  BY <1>14
<1>16. \A q \in Live(n) : Own(n.processes[q], LibraryPages(n.libraries), Screen(n, q))
  BY <1>9, <1>10, <1>11 DEF Sound, Screen, Live
<1>17. \A q \in Process : HeldIn(n, q) \cap (LibraryPages(n.libraries) \cup n.leaked) = {}
  <2>1. \A q \in Process \ {p} : HeldIn(k, q) \cap lost = {}
    BY <1>1, <1>6, <1>13
  <2>2. QED
    BY <2>1, <1>9, <1>12, <1>13
<1>18. \A q, r \in Process : q # r => HeldIn(n, q) \cap HeldIn(n, r) = {}
  BY <1>12, <1>13
<1>19. QED
  BY <1>9, <1>11, <1>15, <1>16, <1>17, <1>18 DEF Sound

(* A library's pages are put on the list. *)
LEMMA SoundLibrary ==
  ASSUME NEW k, NEW X, NEW a \in Address, NEW P, P = PagesOf(a, LibrarySize),
         Sound(k, X \cup P), X \cap P = {}, k.libraries = <<>>,
         NEW n \in Kernel, n.processes = k.processes, n.foreground = k.foreground,
         n.libraries = <<a>>, n.leaked = k.leaked, n.taken = k.taken
  PROVE  Sound(n, X)
<1>1. LibraryPages(k.libraries) = {} /\ LibraryPages(n.libraries) = P
  <2>1. DOMAIN <<>> = {} /\ DOMAIN <<a>> = {1} /\ <<a>>[1] = a
    OBVIOUS
  <2>2. LibraryPages(<<>>) = {}
    BY <2>1 DEF LibraryPages
  <2>3. LibraryPages(<<a>>) = PagesOf(a, LibrarySize)
    <3> DEFINE s == <<a>>
    <3>1. DOMAIN s = {1} /\ s[1] = a
      BY <2>1
    <3> HIDE DEF s
    <3>2. LibraryPages(s) = PagesOf(a, LibrarySize)
      BY <3>1 DEF LibraryPages
    <3>3. QED
      BY <3>2 DEF s
  <2>4. QED
    BY <2>2, <2>3
<1>2. \A p : HeldIn(n, p) = HeldIn(k, p) /\ Screen(n, p) = Screen(k, p)
  BY DEF HeldIn, Screen
<1>3. Live(n) = Live(k)
  BY DEF Live
<1>4. k.taken = Owned(k) \cup X \cup P /\ (X \cup P) \cap Owned(k) = {}
  BY DEF Sound
<1>5. \A x : x \in Owned(n) <=> x \in Owned(k) \/ x \in P
  BY <1>1, <1>2, OwnedIs
<1>6. n.taken = Owned(n) \cup X /\ X \cap Owned(n) = {}
  BY <1>4, <1>5
<1>7. ASSUME NEW p \in Live(n)
      PROVE  Own(n.processes[p], LibraryPages(n.libraries), Screen(n, p))
  <2> DEFINE m == k.processes[p]
  <2>1. Own(m, LibraryPages(k.libraries), Screen(k, p))
    BY <1>3 DEF Sound
  <2>2. Leads(m.directory, HeldBy(m) \cup LibraryPages(n.libraries), Screen(n, p))
    <3>1. Leads(m.directory, HeldBy(m) \cup LibraryPages(k.libraries), Screen(k, p))
      BY <2>1 DEF Own
    <3>2. QED
      BY <3>1, <1>1, <1>2, LeadsMore
  <2>3. QED
    BY <2>1, <2>2 DEF Own
<1>8. \A p \in Process : HeldIn(n, p) \cap (LibraryPages(n.libraries) \cup n.leaked) = {}
  <2>1. \A p \in Process : HeldIn(k, p) \cap (LibraryPages(k.libraries) \cup k.leaked) = {}
    BY DEF Sound
  <2>2. \A p \in Process : HeldIn(k, p) \cap P = {}
    BY <1>4, OwnedIs
  <2>3. QED
    BY <2>1, <2>2, <1>1, <1>2
<1>9. \A p, q \in Process : p # q => HeldIn(n, p) \cap HeldIn(n, q) = {}
  BY <1>2 DEF Sound
<1>10. QED
  BY <1>6, <1>7, <1>8, <1>9 DEF Sound
-----------------------------------------------------------------------------
(* process_load_data holds the memory of the image for the caller.         *)
MustGetIs(k, n) == SameButHeap(k, n) /\ n.taken = k.taken /\ n.got = k.got
                   /\ (k.got = NULL => n.ended) /\ n \in Kernel

LEMMA MustGetSound ==
  ASSUME NEW k, NEW X, Sound(k, X), NEW n, n = MustGet(k)
  PROVE  MustGetIs(k, n) /\ Sound(n, X)
<1>1. k \in Kernel
  BY DEF Sound
<1>2. MustGetIs(k, n)
  <2>1. n = [k EXCEPT !.ended = @ \/ k.got = NULL]
    BY DEF MustGet
  <2>2. (k.ended \/ k.got = NULL) \in BOOLEAN
    OBVIOUS
  <2> DEFINE e == k.ended \/ k.got = NULL
  <2>3. n = [k EXCEPT !.ended = e] /\ e \in BOOLEAN /\ (k.got = NULL => e)
    BY <2>1, <2>2
  <2> HIDE DEF e
  <2>4. n \in Kernel /\ n.ended = e
    BY <1>1, <2>3 DEF Kernel
  <2>5. SameButHeap(k, n) /\ n.taken = k.taken /\ n.got = k.got
    BY <1>1, <2>3 DEF Kernel, SameButHeap
  <2>6. QED
    BY <2>3, <2>4, <2>5 DEF MustGetIs
<1>3. n.taken = Owned(k) \cup X /\ X \cap Owned(k) = {}
  BY <1>2 DEF Sound, MustGetIs
<1>4. QED
  BY <1>2, <1>3, SoundHeap DEF MustGetIs

Holds(k, n, f) ==
  /\ n.processes = k.processes /\ n.foreground = k.foreground /\ n.leaked = k.leaked
  /\ \/ n.ended
     \/ n.got = NULL /\ Sound(n, {})
     \/ n.got \in Address /\ Sound(n, PagesOf(n.got, f.size))

LEMMA DataHolds ==
  ASSUME NEW k, Sound(k, {}), NEW f \in File
  PROVE  Holds(k, process_load_data(k, f), f)
<1> DEFINE i == kmalloc(k, f.size)
           P == PagesOf(i.got, f.size)
<1>1. f.size \in Nat \ {0} /\ LibrarySize \in Nat \ {0}
  BY FileIs, SizesPositive
<1>2. /\ SameButHeap(k, i)
      /\ \/ i.got = NULL /\ Sound(i, {})
         \/ i.got \in Address /\ Sound(i, P)
  <2>1. /\ SameButHeap(k, i)
        /\ \/ i.got = NULL /\ Sound(i, {})
           \/ /\ i.got \in Address
              /\ PagesOf(i.got, f.size) \cap (Owned(k) \cup {}) = {}
              /\ Sound(i, {} \cup PagesOf(i.got, f.size))
    BY <1>1, kmallocSound
  <2>2. {} \cup PagesOf(i.got, f.size) = P
    OBVIOUS
  <2>3. QED
    BY <2>1, <2>2
<1> HIDE DEF i, P
<1>3. Holds(k, i, f)
  BY <1>2 DEF Holds, SameButHeap, P
<1>4. CASE f.type = "binary"
  BY <1>3, <1>4 DEF process_load_data, i
<1>5. CASE f.type # "binary" /\ ~(f.needed /\ i.libraries = <<>>)
  <2> DEFINE n == MustGet(i)
  <2>1. process_load_data(k, f) = n
    BY <1>5 DEF process_load_data, process_load_elf, i
  <2>2. MustGetIs(i, n) /\ ((i.got = NULL /\ Sound(n, {})) \/ (i.got \in Address /\ Sound(n, P)))
    BY <1>2, MustGetSound
  <2> HIDE DEF n
  <2>3. Holds(k, n, f)
    BY <1>2, <2>2 DEF Holds, SameButHeap, MustGetIs, P
  <2>4. QED
    BY <2>1, <2>3
<1>6. CASE f.type # "binary" /\ f.needed /\ i.libraries = <<>>
  <2> DEFINE l == kmalloc(i, LibrarySize)
             m == MustGet(l)
             n == WithLibrary(i, m)
             Q == PagesOf(l.got, LibrarySize)
             X == IF i.got = NULL THEN {} ELSE P
  <2>1. process_load_data(k, f) = n
    BY <1>6 DEF process_load_data, process_load_elf, i
  <2>2. Sound(i, X) /\ i.got \in Address \cup {NULL}
    BY <1>2, UserMemoryAssumption, AddressIsNat
  <2>3. /\ SameButHeap(i, l)
        /\ \/ l.got = NULL /\ Sound(l, X)
           \/ l.got \in Address /\ Q \cap (Owned(i) \cup X) = {} /\ Sound(l, X \cup Q)
    BY <1>1, <2>2, kmallocSound
  <2> HIDE DEF l, X, Q
  <2>4. MustGetIs(l, m) /\ (l.got = NULL \/ Sound(m, X \cup Q))
    BY <2>3, MustGetSound
  <2>5. m \in Kernel /\ m.got = l.got /\ SameButHeap(i, m) /\ (l.got = NULL => m.ended)
    BY <2>3, <2>4 DEF MustGetIs, SameButHeap
  <2> HIDE DEF m
  <2>6. n = [m EXCEPT !.libraries = <<m.got>>, !.got = i.got, !.ended = @ \/ i.got = NULL]
    BY DEF WithLibrary
  <2>7. /\ n.processes = m.processes /\ n.foreground = m.foreground /\ n.leaked = m.leaked
        /\ n.taken = m.taken /\ n.libraries = <<m.got>> /\ n.got = i.got
        /\ (m.ended \/ i.got = NULL => n.ended)
    BY <2>5, <2>6 DEF Kernel
  <2>8. /\ n.processes = k.processes /\ n.foreground = k.foreground /\ n.leaked = k.leaked
    BY <2>5, <2>7, <1>2 DEF SameButHeap
  <2>9. CASE l.got = NULL \/ i.got = NULL
    <3>1. n.ended
      BY <2>5, <2>7, <2>9
    <3>2. QED
      BY <2>1, <2>8, <3>1 DEF Holds
  <2>10. CASE l.got # NULL /\ i.got # NULL
    <3>1. l.got \in Address /\ X = P /\ i.got \in Address /\ P \cap Q = {} /\ Sound(m, P \cup Q)
      BY <2>2, <2>3, <2>4, <2>10 DEF X
    <3>2. n \in Kernel
      <4>1. <<m.got>> \in Seq(Address) /\ (m.ended \/ i.got = NULL) \in BOOLEAN
        BY <2>5, <3>1
      <4> DEFINE s == <<m.got>>
                 e == m.ended \/ i.got = NULL
      <4>2. n = [m EXCEPT !.libraries = s, !.got = i.got, !.ended = e]
        BY <2>6
      <4> HIDE DEF s, e, n
      <4>3. s \in Seq(Address) /\ e \in BOOLEAN
        BY <4>1 DEF s, e
      <4>4. QED
        BY <4>2, <4>3, <3>1, <2>5 DEF Kernel
    <3> HIDE DEF n
    <3>3. m.libraries = <<>> /\ Q = PagesOf(l.got, LibrarySize) /\ n.libraries = <<l.got>>
      BY <2>5, <2>7, <1>6 DEF SameButHeap, Q
    <3>4. Sound(n, P)
      BY <3>1, <3>2, <3>3, <2>7, SoundLibrary
    <3>5. QED
      BY <2>1, <2>7, <2>8, <3>1, <3>4 DEF Holds, P, n
  <2>11. QED
    BY <2>9, <2>10
<1>7. QED
  BY <1>4, <1>5, <1>6

(* process_load_for_slot: the process is there and owns what was taken, or *)
(* what was taken is lost.                                                 *)
LoadedSlot(k, n, p) ==
  \/ n.ended
  \/ /\ Sound(n, {}) /\ n.foreground = k.foreground
     /\ \/ Live(n) = Live(k) \cup {p} /\ n.leaked = k.leaked
        \/ n.processes = k.processes

LEMMA SlotLoaded ==
  ASSUME NEW k, Sound(k, {}), NEW p \in Process \ Live(k), NEW f \in File
  PROVE  LoadedSlot(k, process_load_for_slot(k, p, f), p)
<1> DEFINE d == process_load_data(k, f)
           I == PagesOf(d.got, f.size)
<1>1. /\ d.processes = k.processes /\ d.foreground = k.foreground /\ d.leaked = k.leaked
      /\ \/ d.ended
         \/ d.got = NULL /\ Sound(d, {})
         \/ d.got \in Address /\ Sound(d, I)
  BY DataHolds DEF Holds
<1>2. process_load_for_slot(k, p, f) = WithData(d, p, f)
  BY DEF process_load_for_slot
<1> HIDE DEF d
<1>3. CASE d.ended \/ d.got = NULL
  <2>1. WithData(d, p, f) = d
    BY <1>3 DEF WithData
  <2>2. QED
    BY <2>1, <1>1, <1>2, <1>3, UserMemoryAssumption, AddressIsNat DEF LoadedSlot
<1>4. CASE ~d.ended /\ d.got # NULL
  <2> DEFINE s == kmalloc(d, StackSize)
             S == PagesOf(s.got, StackSize)
  <2>1. WithData(d, p, f) = WithStack(d.got, s, p, f)
    BY <1>4 DEF WithData
  <2>2. d.got \in Address /\ Sound(d, I) /\ StackSize \in Nat \ {0}
    BY <1>1, <1>4, SizesPositive
  <2>3. /\ SameButHeap(d, s)
        /\ \/ s.got = NULL /\ Sound(s, I)
           \/ s.got \in Address /\ S \cap (Owned(d) \cup I) = {} /\ Sound(s, I \cup S)
    BY <2>2, kmallocSound
  <2> HIDE DEF s, S, I
  <2>4. /\ s.processes = k.processes /\ s.foreground = k.foreground /\ s.leaked = k.leaked
    BY <1>1, <2>3 DEF SameButHeap
  <2>5. CASE s.ended \/ s.got = NULL
    <3> DEFINE n == WithStack(d.got, s, p, f)
    <3>1. n = [s EXCEPT !.leaked = @ \cup I]
      BY <2>5 DEF WithStack, I
    <3>2. s \in Kernel
      BY <2>3 DEF Sound
    <3>3. n.ended = s.ended /\ n.foreground = s.foreground /\ n.processes = s.processes
      BY <3>1, <3>2 DEF Kernel
    <3> HIDE DEF n
    <3>4. CASE s.ended
      BY <1>2, <2>1, <3>3, <3>4 DEF LoadedSlot, n
    <3>5. CASE ~s.ended /\ s.got = NULL
      <4>1. Sound(s, I)
        BY <2>3, <3>5, UserMemoryAssumption, AddressIsNat
      <4>2. Sound(n, {})
        BY <4>1, <3>1, SoundLeaked
      <4>3. QED
        BY <1>2, <2>1, <2>4, <3>3, <4>2 DEF LoadedSlot, n
    <3>6. QED
      BY <2>5, <3>4, <3>5
  <2>6. CASE ~s.ended /\ s.got # NULL
    <3> DEFINE v == kmalloc(s, PAGE)
               w == MustGet(v)
               V == PagesOf(v.got, PAGE)
               n == WithVideo(d.got, s.got, w, p, f)
    <3>1. WithStack(d.got, s, p, f) = n
      BY <2>6 DEF WithStack
    <3>2. s.got \in Address /\ S \cap I = {} /\ Sound(s, I \cup S)
      BY <2>3, <2>6
    <3>3. /\ SameButHeap(s, v)
          /\ \/ v.got = NULL /\ Sound(v, I \cup S)
             \/ v.got \in Address /\ V \cap (Owned(s) \cup (I \cup S)) = {} /\ Sound(v, (I \cup S) \cup V)
      BY <3>2, PagePositive, kmallocSound
    <3> HIDE DEF v, V
    <3>4. MustGetIs(v, w) /\ (v.got = NULL \/ Sound(w, (I \cup S) \cup V))
      BY <3>3, MustGetSound
    <3> HIDE DEF w
    <3>5. CASE w.ended \/ MapsNothing(f)
      <4>1. n = [w EXCEPT !.ended = TRUE]
        BY <3>5 DEF WithVideo
      <4>2. n.ended
        BY <4>1, <3>4 DEF MustGetIs, Kernel
      <4>3. QED
        BY <1>2, <2>1, <3>1, <4>2 DEF LoadedSlot
    <3>6. CASE ~(w.ended \/ MapsNothing(f))
      <4> DEFINE m == Loaded(f, d.got, s.got, w.got, w.libraries)
      <4>1. n = [w EXCEPT !.processes[p] = m]
        BY <3>6 DEF WithVideo
      <4>2. v.got \in Address /\ w.got = v.got /\ V \cap (I \cup S) = {} /\ Sound(w, (I \cup S) \cup V)
        <5>1. v.got # NULL
          BY <3>4, <3>6 DEF MustGetIs
        <5>2. QED
          BY <5>1, <3>3, <3>4 DEF MustGetIs
      <4>3. /\ w.processes = k.processes /\ w.foreground = k.foreground /\ w.leaked = k.leaked
            /\ w \in Kernel
        BY <2>4, <3>3, <3>4 DEF MustGetIs, SameButHeap
      <4>4. w.libraries \in Seq(Address) /\ LibraryPages(w.libraries) \subseteq HeapPage
        BY <4>2, <4>3, SoundPages DEF Kernel
      <4>5. Own(m, LibraryPages(w.libraries), {}) /\ HeldBy(m) = (I \cup S) \cup V
        <5>1. S \cap (I \cup V) = {}
          BY <3>2, <4>2
        <5>2. w.got \in Address /\ I = PagesOf(d.got, f.size) /\ S = PagesOf(s.got, StackSize)
              /\ V = PagesOf(w.got, PAGE)
          BY <4>2 DEF I, S, V
        <5> HIDE DEF n, I, S, V
        <5>3. /\ Own(m, LibraryPages(w.libraries), {})
              /\ HeldBy(m) = PagesOf(d.got, f.size) \cup PagesOf(s.got, StackSize) \cup PagesOf(w.got, PAGE)
          <6> HIDE DEF m
          <6>1. PagesOf(s.got, StackSize) \cap (PagesOf(d.got, f.size) \cup PagesOf(w.got, PAGE)) = {}
            BY <5>1, <5>2
          <6>2. QED
            BY <2>2, <3>2, <4>4, <5>2, <6>1, LoadedOwns DEF m
        <5>4. QED
          BY <5>2, <5>3
      <4> HIDE DEF m
      <4>6. Live(w) = Live(k) /\ p \in Process /\ HeldIn(w, p) = {}
        BY <4>3 DEF Live, HeldIn
      <4>7. /\ n \in Kernel /\ n.processes = [w.processes EXCEPT ![p] = m]
            /\ n.foreground = w.foreground /\ n.libraries = w.libraries
            /\ n.leaked = w.leaked /\ n.taken = w.taken
        <5> DEFINE t == [w.processes EXCEPT ![p] = m]
        <5>1. n = [w EXCEPT !.processes = t]
          BY <4>1, <4>3 DEF Kernel
        <5>2. t \in [Process -> Memory \cup {NoProcess}]
          BY <4>3, <4>5, <4>6 DEF Kernel, Own
        <5> HIDE DEF t, n
        <5>3. /\ n \in Kernel /\ n.processes = t
              /\ n.foreground = w.foreground /\ n.libraries = w.libraries
              /\ n.leaked = w.leaked /\ n.taken = w.taken
          BY <5>1, <5>2, <4>3 DEF Kernel
        <5>4. QED
          BY <5>3 DEF t
      <4> HIDE DEF n
      <4>8. Own(m, LibraryPages(w.libraries), Screen(w, p))
        <5>1. Leads(m.directory, HeldBy(m) \cup LibraryPages(w.libraries), Screen(w, p))
          BY <4>5, LeadsMore DEF Own
        <5>2. QED
          BY <4>5, <5>1 DEF Own
      <4>9. HeldBy(m) = HeldIn(w, p) \cup ((I \cup S) \cup V)
        BY <4>5, <4>6
      <4>10. Sound(n, {}) /\ Live(n) = Live(w) \cup {p}
        <5> DEFINE X == (I \cup S) \cup V
        <5>1. Sound(w, X) /\ HeldBy(m) = HeldIn(w, p) \cup X
          BY <4>2, <4>9
        <5> HIDE DEF X
        <5>2. QED
          BY <5>1, <4>6, <4>7, <4>8, SoundMemory
      <4>11. QED
        BY <1>2, <2>1, <3>1, <4>3, <4>6, <4>7, <4>10 DEF LoadedSlot
    <3>7. QED
      BY <3>5, <3>6
  <2>7. QED
    BY <2>5, <2>6
<1>5. QED
  BY <1>3, <1>4
-----------------------------------------------------------------------------
(* What a live process is given leaves the others as they are. *)
SameProcesses(k, n) == Sound(n, {}) /\ n.foreground = k.foreground /\ Live(n) = Live(k)

LEMMA mallocSound ==
  ASSUME NEW k, Sound(k, {}), NEW p \in Live(k), NEW size \in Nat \ {0}
  PROVE  SameProcesses(k, process_malloc(k, p, size))
<1> DEFINE g == kmalloc(k, size)
           P == PagesOf(g.got, size)
           n == process_malloc(k, p, size)
<1>1. k \in Kernel
  BY DEF Sound
<1>2. CASE Len(k.processes[p].allocations) = MaxAllocations
  <2>1. n = [k EXCEPT !.got = NULL]
    BY <1>2 DEF process_malloc
  <2>2. n \in Kernel /\ SameButHeap(k, n) /\ n.taken = k.taken
    BY <1>1, <2>1 DEF Kernel, SameButHeap
  <2> HIDE DEF n
  <2>3. n.taken = Owned(k) \cup {} /\ {} \cap Owned(k) = {}
    BY <2>2 DEF Sound
  <2>4. Sound(n, {})
    BY <2>2, <2>3, SoundHeap
  <2>5. QED
    BY <2>2, <2>4 DEF SameProcesses, SameButHeap, Live, n
<1>3. CASE Len(k.processes[p].allocations) # MaxAllocations
  <2>1. n = Allocate(g, p, size)
    BY <1>3 DEF process_malloc
  <2>2. /\ SameButHeap(k, g)
        /\ \/ g.got = NULL /\ Sound(g, {})
           \/ g.got \in Address /\ P \cap (Owned(k) \cup {}) = {} /\ Sound(g, {} \cup P)
    BY kmallocSound
  <2> HIDE DEF g, n, P
  <2>3. Live(g) = Live(k) /\ g.foreground = k.foreground
    BY <2>2 DEF SameButHeap, Live
  <2>4. CASE g.got = NULL
    <3>1. n = g
      BY <2>1, <2>4 DEF Allocate
    <3>2. Sound(g, {})
      BY <2>2, <2>4, UserMemoryAssumption, AddressIsNat
    <3>3. QED
      BY <2>3, <3>1, <3>2 DEF SameProcesses, n
  <2>5. CASE g.got # NULL
    <3> DEFINE m == g.processes[p]
               a == g.got
               o == Grown(m, a, size)
               t == [g.processes EXCEPT ![p] = o]
    <3>1. a \in Address /\ Sound(g, P) /\ {} \cup P = P
      <4>1. {} \cup P = P
        OBVIOUS
      <4>2. QED
        BY <4>1, <2>2, <2>5
    <3>2. /\ g \in Kernel /\ p \in Process /\ m # NoProcess /\ HeldIn(g, p) = HeldBy(m)
          /\ Own(m, LibraryPages(g.libraries), Screen(g, p))
      BY <2>3, <3>1, LiveHolds DEF Sound
    <3>3. n = [g EXCEPT !.processes = t]
      <4>1. n = [g EXCEPT !.processes[p].allocations = Append(@, a),
                          !.processes[p].sizes = Append(@, size),
                          !.processes[p].directory =
                              paging_map_to(@, a, a, UpperPage(a + size), TRUE)]
        BY <2>1, <2>5 DEF Allocate
      <4>2. m \in Memory
        BY <3>2 DEF Own
      <4>3. QED
        BY <3>2, <4>1, <4>2 DEF Kernel, Memory, Grown
    <3>4. PagesOf(a, size) \cap HeldBy(m) = {} /\ P = PagesOf(a, size) /\ P \subseteq HeapPage
      <4>1. HeldIn(g, p) \subseteq Owned(g)
        BY <3>2, OwnedIs
      <4>2. P \cap Owned(g) = {}
        BY <3>1 DEF Sound
      <4>3. P \subseteq HeapPage
        BY <3>1, SoundPages
      <4>4. QED
        BY <4>1, <4>2, <4>3, <3>2 DEF P
    <3>5. Own(o, LibraryPages(g.libraries), Screen(g, p)) /\ HeldBy(o) = HeldBy(m) \cup P
      <4> HIDE DEF m, a
      <4>1. QED
        BY <3>1, <3>2, <3>4, GrownOwns
    <3> HIDE DEF o, m, a
    <3>6. t \in [Process -> Memory \cup {NoProcess}]
      BY <3>2, <3>5 DEF Kernel, Own
    <3> HIDE DEF t
    <3>7. /\ n \in Kernel /\ n.processes = t /\ n.foreground = g.foreground
          /\ n.libraries = g.libraries /\ n.leaked = g.leaked /\ n.taken = g.taken
      BY <3>2, <3>3, <3>6 DEF Kernel
    <3>8. HeldBy(o) = HeldIn(g, p) \cup P
      BY <3>2, <3>5
    <3>9. Sound(n, {}) /\ Live(n) = Live(g) \cup {p}
      BY <3>1, <3>2, <3>5, <3>7, <3>8, SoundMemory DEF t
    <3>10. QED
      BY <2>3, <3>7, <3>9 DEF SameProcesses, n
  <2>6. QED
    BY <2>4, <2>5
<1>4. QED
  BY <1>2, <1>3

(* process_inject_arguments: one process_malloc after the other. *)
LEMMA argumentsSound ==
  ASSUME NEW k, Sound(k, {}), NEW p \in Live(k), NEW argc \in Nat \ {0}
  PROVE  SameProcesses(k, process_inject_arguments(k, p, argc))
<1> DEFINE S == {x \in Kernel : SameProcesses(k, x)}
           First == process_malloc(k, p, PointerSize * argc)
           Next1(x) == IF x.got = NULL THEN x ELSE process_malloc(x, p, ArgumentSize)
           Body(g) == [i \in 0 .. argc |->
                         IF i = 0 THEN process_malloc(k, p, PointerSize * argc)
                         ELSE IF g[i - 1].got = NULL THEN g[i - 1]
                         ELSE process_malloc(g[i - 1], p, ArgumentSize)]
           injected == CHOOSE g : g = Body(g)
           step == [i \in 1 .. argc |-> [x \in S |-> Next1(x)]]
<1>1. process_inject_arguments(k, p, argc) = injected[argc]
  BY DEF process_inject_arguments
<1>2. \A x : SameProcesses(k, x) => x \in S
  BY DEF SameProcesses, Sound
<1>3. First \in S
  <2>1. PointerSize * argc \in Nat \ {0}
    <3>1. PointerSize \in Nat \ {0}
      BY SizesPositive
    <3>2. \A x, y \in Nat \ {0} : x * y \in Nat \ {0}
      OBVIOUS
    <3>3. QED
      BY <3>1, <3>2
  <2>2. SameProcesses(k, First)
    BY <2>1, mallocSound
  <2>3. QED
    BY <1>2, <2>2
<1>4. ASSUME NEW x \in S PROVE Next1(x) \in S
  <2>1. Sound(x, {}) /\ x.foreground = k.foreground /\ Live(x) = Live(k)
    BY DEF SameProcesses
  <2>2. ArgumentSize \in Nat \ {0}
    BY SizesPositive
  <2>3. SameProcesses(x, process_malloc(x, p, ArgumentSize))
    BY <2>1, <2>2, mallocSound
  <2>4. SameProcesses(k, process_malloc(x, p, ArgumentSize))
    BY <2>1, <2>3 DEF SameProcesses
  <2>5. QED
    BY <1>2, <2>4
<1> HIDE DEF Next1, S, First
<1>5. step \in [1 .. argc -> [S -> S]]
  BY <1>4
<1>6. PICK g \in [0 .. argc -> S] : Iterates(g, argc, First, step)
  <2> HIDE DEF step
  <2>1. QED
    BY <1>3, <1>5, Recursion
<1>7. g = Body(g)
  <2>1. ASSUME NEW i \in 1 .. argc PROVE i - 1 \in 0 .. argc /\ g[i] = Next1(g[i - 1])
    <3>1. i - 1 \in 0 .. argc
      OBVIOUS
    <3>2. g[i] = step[i][g[i - 1]] /\ g[i - 1] \in S
      BY <1>6, <3>1 DEF Iterates
    <3>3. QED
      BY <3>1, <3>2
  <2>2. g[0] = First
    BY <1>6 DEF Iterates
  <2>3. \A i \in 0 .. argc : g[i] = Body(g)[i]
    <3>1. \A i \in 0 .. argc : i = 0 \/ i \in 1 .. argc
      OBVIOUS
    <3>2. QED
      BY <2>1, <2>2, <3>1 DEF Next1, First
  <2>4. QED
    BY <1>6, <2>3
<1>8. injected = Body(injected)
  BY <1>7
<1> HIDE DEF injected
<1>9. injected[0] = First /\ \A i \in 1 .. argc : injected[i] = Next1(injected[i - 1])
  <2>1. 0 \in 0 .. argc /\ \A i \in 1 .. argc : i \in 0 .. argc /\ i # 0
    OBVIOUS
  <2>2. QED
    BY <1>8, <2>1 DEF First, Next1
<1> DEFINE T == {i \in 0 .. argc : injected[i] \in S}
<1>10. 0 \in T
  BY <1>3, <1>9
<1>11. ASSUME NEW i \in 1 .. argc, i - 1 \in T PROVE i \in T
  BY <1>4, <1>9, <1>11
<1>12. argc \in T
  <2> HIDE DEF T
  <2>1. 0 .. argc \subseteq T
    BY <1>10, <1>11, UpTo
  <2>2. QED
    BY <2>1
<1>13. QED
  BY <1>1, <1>12 DEF S

-----------------------------------------------------------------------------
(* The handlers.  What comes out of one is sound, or the kernel has ended. *)
Fine(n) == n.ended \/ (Sound(n, {}) /\ n.foreground \in Live(n))

LEMMA startFine ==
  ASSUME NEW k, Sound(k, {}), k.foreground \in Live(k), NEW p \in Process \ Live(k),
         NEW f \in File, NEW argc \in Nat
  PROVE  Fine(process_load_start(k, p, f, argc))
<1> DEFINE l == process_load_for_slot(k, p, f)
           n == process_load_start(k, p, f, argc)
<1>1. LoadedSlot(k, l, p)
  BY SlotLoaded
<1>2. n = StartLoaded(l, p, argc)
  BY DEF process_load_start
<1> HIDE DEF l, n
<1>3. CASE l.ended
  BY <1>2, <1>3 DEF StartLoaded, Fine, n
<1>4. CASE ~l.ended
  <2>1. Sound(l, {}) /\ l.foreground \in Live(l)
    BY <1>1, <1>4 DEF LoadedSlot, Live
  <2>2. CASE l.processes[p] = NoProcess
    BY <1>2, <2>1, <2>2 DEF StartLoaded, Fine, n
  <2>3. CASE l.processes[p] # NoProcess
    <3>1. p \in Live(l)
      BY <2>3 DEF Live
    <3>2. CASE argc = 0
      <4>1. n = process_switch(l, p)
        BY <1>2, <1>4, <2>3, <3>2 DEF StartLoaded
      <4>2. QED
        BY <2>1, <3>1, <4>1, SoundSwitch DEF Fine, n
    <3>3. CASE argc # 0
      <4> DEFINE j == process_inject_arguments(l, p, argc)
      <4>1. n = StartInjected(j, p)
        BY <1>2, <1>4, <2>3, <3>3 DEF StartLoaded
      <4>2. SameProcesses(l, j)
        BY <2>1, <3>1, <3>3, argumentsSound
      <4> HIDE DEF j
      <4>3. Sound(j, {}) /\ j.foreground \in Live(j) /\ p \in Live(j)
        BY <2>1, <3>1, <4>2 DEF SameProcesses
      <4>4. CASE j.ended \/ j.got = NULL
        BY <4>1, <4>3, <4>4 DEF StartInjected, Fine, n
      <4>5. CASE ~(j.ended \/ j.got = NULL)
        <5>1. n = process_switch(j, p)
          BY <4>1, <4>5 DEF StartInjected
        <5>2. QED
          BY <4>3, <5>1, SoundSwitch DEF Fine, n
      <4>6. QED
        BY <4>4, <4>5
    <3>4. QED
      BY <3>2, <3>3
  <2>4. QED
    BY <2>2, <2>3
<1>5. QED
  BY <1>3, <1>4

(* copy_string_from_task lends a page, and takes it back. *)
Returned(lent, d, h) ==
  [v \in (DOMAIN lent \ {h}) \cup (DOMAIN d \cap {h}) |-> IF v = h THEN d[v] ELSE lent[v]]

LEMMA ReturnedDirectory ==
  ASSUME NEW d \in Directory, NEW h \in Nat
  PROVE  Returned(paging_map_to(d, PAGE * h, PAGE * h, PAGE * h + PAGE, TRUE), d, h) = d
<1> DEFINE lent == paging_map_to(d, PAGE * h, PAGE * h, PAGE * h + PAGE, TRUE)
<1>1. PAGE * h + PAGE = PAGE * (h + 1) /\ PAGE * h \in Nat /\ h + 1 \in Nat
  BY PagePositive
<1>2. (PAGE * h) \div PAGE = h
  BY Aligned
<1>3. Window(PAGE * h, h, h + 1) = {h}
  BY <1>2 DEF Window
<1>4. Mapped(lent, d, PAGE * h, h, h + 1, TRUE)
  <2>1. Mapped(paging_map_to(d, PAGE * h, PAGE * h, PAGE * (h + 1), TRUE), d, PAGE * h, h, h + 1, TRUE)
    BY <1>1, MapTo
  <2>2. QED
    BY <1>1, <2>1
<1> HIDE DEF lent
<1>5. DOMAIN lent = DOMAIN d \cup {h} /\ \A v \in DOMAIN d \ {h} : lent[v] = d[v]
  BY <1>3, <1>4 DEF Mapped
<1>6. PICK D \in SUBSET Int : d \in [D -> Entry]
  BY DEF Directory
<1>7. (DOMAIN lent \ {h}) \cup (DOMAIN d \cap {h}) = D
  BY <1>5, <1>6
<1>8. \A v \in D : (IF v = h THEN d[v] ELSE lent[v]) = d[v]
  BY <1>5, <1>6
<1>9. Returned(lent, d, h) = d
  BY <1>6, <1>7, <1>8 DEF Returned
<1>10. QED
  BY <1>9 DEF lent

LEMMA copySound ==
  ASSUME NEW k, Sound(k, {}), NEW p \in Live(k)
  PROVE  SameProcesses(k, CopyThrough(kmalloc(k, 1), p))
<1> DEFINE g == kmalloc(k, 1)
           P == PagesOf(g.got, 1)
           n == CopyThrough(g, p)
<1>1. /\ SameButHeap(k, g)
      /\ \/ g.got = NULL /\ Sound(g, {})
         \/ g.got \in Address /\ P \cap (Owned(k) \cup {}) = {} /\ Sound(g, {} \cup P)
  <2>1. 1 \in Nat \ {0}
    OBVIOUS
  <2>2. QED
    BY <2>1, kmallocSound
<1> HIDE DEF g, P
<1>2. Live(g) = Live(k) /\ g.foreground = k.foreground
  BY <1>1 DEF SameButHeap, Live
<1>3. CASE g.got = NULL
  <2>1. n = g
    BY <1>3 DEF CopyThrough
  <2>2. Sound(g, {})
    BY <1>1, <1>3, UserMemoryAssumption, AddressIsNat
  <2>3. QED
    BY <1>2, <2>1, <2>2 DEF SameProcesses, g
<1>4. CASE g.got # NULL
  <2> DEFINE a == g.got
             m == g.processes[p]
             old == m.directory
             f == kfree(g, a, 1)
             lent == paging_map_to(old, a, a, a + PAGE, TRUE)
             page == a \div PAGE
             back == Returned(lent, old, page)
             o == [m EXCEPT !.directory = old]
             t == [g.processes EXCEPT ![p] = o]
  <2>1. a \in Address /\ Sound(g, P)
    <3>1. {} \cup P = P
      OBVIOUS
    <3>2. QED
      BY <3>1, <1>1, <1>4
  <2>2. /\ g \in Kernel /\ p \in Process /\ m # NoProcess /\ HeldIn(g, p) = HeldBy(m)
        /\ Own(m, LibraryPages(g.libraries), Screen(g, p))
    BY <1>2, <2>1, LiveHolds DEF Sound
  <2>3. back = old
    <3>1. PICK h \in Nat : a = PAGE * h
      BY <2>1 DEF Address
    <3>2. page = h
      BY <3>1, Aligned
    <3>3. old \in Directory
      BY <2>2 DEF Own, Leads
    <3> HIDE DEF old, page, a
    <3>4. lent = paging_map_to(old, PAGE * h, PAGE * h, PAGE * h + PAGE, TRUE)
      BY <3>1
    <3>5. QED
      BY <3>2, <3>3, <3>4, ReturnedDirectory
  <2>4. n = [f EXCEPT !.processes[p].directory = back]
    BY <1>4 DEF CopyThrough, Returned
  <2> HIDE DEF back
  <2>5. f = [g EXCEPT !.taken = @ \ P]
    BY DEF kfree, P
  <2>6. f \in Kernel /\ f.taken = g.taken \ P /\ SameButHeap(g, f)
    BY <2>2, <2>5 DEF Kernel, SameButHeap
  <2> HIDE DEF f
  <2>7. Sound(f, {})
    <3>1. f.taken = Owned(g) \cup {} /\ {} \cap Owned(g) = {}
      BY <2>1, <2>6 DEF Sound
    <3>2. QED
      BY <2>1, <2>6, <3>1, SoundHeap
  <2>8. Own(o, LibraryPages(g.libraries), Screen(g, p)) /\ HeldBy(o) = HeldBy(m)
    <3>1. Leads(old, HeldBy(m) \cup LibraryPages(g.libraries), Screen(g, p)) /\ Steady(m.directory, old)
      BY <2>2 DEF Own, Steady
    <3> HIDE DEF old, m
    <3>2. QED
      BY <2>2, <3>1, NewDirectory
  <2>9. n = [f EXCEPT !.processes = t]
    <3>1. f.processes = g.processes
      BY <2>6 DEF SameButHeap
    <3>2. n = [f EXCEPT !.processes[p].directory = old]
      BY <2>3, <2>4
    <3> HIDE DEF old
    <3>3. QED
      BY <2>2, <2>6, <3>1, <3>2 DEF Kernel
  <2> HIDE DEF o, n
  <2>10. t \in [Process -> Memory \cup {NoProcess}]
    BY <2>2, <2>8 DEF Kernel, Own
  <2>11. /\ f.processes = g.processes /\ f.libraries = g.libraries /\ f.foreground = g.foreground
         /\ Screen(f, p) = Screen(g, p)
    BY <2>6 DEF SameButHeap, Screen
  <2>12. t = [f.processes EXCEPT ![p] = o]
    BY <2>11
  <2> HIDE DEF t
  <2>13. /\ n \in Kernel /\ n.processes = t /\ n.foreground = f.foreground
         /\ n.libraries = f.libraries /\ n.leaked = f.leaked /\ n.taken = f.taken
    BY <2>6, <2>9, <2>10 DEF Kernel
  <2>14. HeldBy(o) = HeldIn(f, p) \cup {}
    BY <2>2, <2>8, <2>11 DEF HeldIn
  <2>15. Sound(n, {}) /\ Live(n) = Live(f) \cup {p}
    BY <2>2, <2>7, <2>8, <2>11, <2>12, <2>13, <2>14, SoundMemory
  <2>16. Live(f) = Live(g)
    BY <2>11 DEF Live
  <2>17. QED
    BY <1>2, <2>11, <2>13, <2>15, <2>16 DEF SameProcesses, n, g
<1>5. QED
  BY <1>3, <1>4

LEMMA FreedFine ==
  ASSUME NEW k, Sound(k, {}), k.foreground \in Live(k), NEW p \in Live(k), NEW n \in Freed(k, p)
  PROVE  Sound(n, {}) /\ n.foreground \in Live(n) /\ p \in Process \ Live(n)
<1>1. PICK q \in Live(k) \ {p} :
        n = process_free(IF k.foreground = p THEN process_switch(k, q) ELSE k, p)
  BY DEF Freed
<1> DEFINE s == IF k.foreground = p THEN process_switch(k, q) ELSE k
<1>2. Sound(s, {}) /\ s.foreground \in Live(k) \ {p} /\ Live(s) = Live(k)
  BY SoundSwitch
<1>3. n = process_free(s, p)
  BY <1>1
<1> HIDE DEF s
<1>4. Sound(n, {}) /\ n.foreground = s.foreground /\ Live(n) = Live(s) \ {p}
  BY <1>2, <1>3, SoundFree
<1>5. QED
  BY <1>2, <1>4 DEF Live

(* What a handler leaves in got is of no interest to the next. *)
LEMMA WithoutGot ==
  ASSUME NEW n, Fine(n),
         NEW r, r = [processes |-> n.processes, taken |-> n.taken, foreground |-> n.foreground,
                     libraries |-> n.libraries, closed |-> n.closed, leaked |-> n.leaked,
                     ended |-> n.ended, got |-> NULL]
  PROVE  Fine(r)
<1>1. CASE n.ended
  BY <1>1 DEF Fine
<1>2. CASE Sound(n, {}) /\ n.foreground \in Live(n)
  <2>1. n \in Kernel /\ n.taken = Owned(n) \cup {} /\ {} \cap Owned(n) = {}
    BY <1>2 DEF Sound
  <2>2. r \in Kernel /\ SameButHeap(n, r) /\ r.taken = n.taken
    BY <2>1 DEF Kernel, SameButHeap
  <2>3. Sound(r, {})
    BY <1>2, <2>1, <2>2, SoundHeap
  <2>4. r.foreground \in Live(r)
    BY <1>2, <2>2 DEF SameButHeap, Live
  <2>5. QED
    BY <2>3, <2>4 DEF Fine
<1>3. QED
  BY <1>1, <1>2 DEF Fine

(* Until a library's memory is freed, the state is sound, or the kernel    *)
(* has ended.                                                              *)
Inv == closed \/ Fine(kernel)

LEMMA BecomesFine ==
  ASSUME NEW n, Fine(n), Becomes(n)
  PROVE  Fine(kernel)'
<1> DEFINE r == [processes |-> n.processes, taken |-> n.taken, foreground |-> n.foreground,
                 libraries |-> n.libraries, closed |-> n.closed, leaked |-> n.leaked,
                 ended |-> n.ended, got |-> NULL]
<1>1. kernel' = r
  BY DEF Becomes, kernel
<1>2. Fine(r)
  BY WithoutGot
<1>3. QED
  BY <1>1, <1>2

LEMMA HandlerFine ==
  ASSUME NEW results, Handler(results), \A n \in results : Fine(n)
  PROVE  Fine(kernel)'
<1>1. PICK n \in results : Becomes(n)
  BY DEF Handler
<1>2. QED
  BY <1>1, BecomesFine

LEMMA HandlerSound ==
  ASSUME NEW results, Handler(results), Inv
  PROVE  /\ Sound(kernel, {}) /\ kernel.foreground \in Live(kernel)
         /\ Live(kernel) \subseteq Process
<1>1. ~closed /\ ~ended /\ kernel.ended = ended
  BY DEF Handler, kernel
<1>2. QED
  BY <1>1 DEF Inv, Fine, Live

LEMMA BootedSound == Sound(Booted, {}) /\ Live(Booted) = {}
<1>1. /\ Booted.processes = [p \in Process |-> NoProcess] /\ Booted.taken = {}
      /\ Booted.libraries = <<>> /\ Booted.leaked = {}
  BY DEF Booted
<1>2. Booted \in Kernel
  <2>1. <<>> \in Seq(Address) /\ [p \in Process |-> NoProcess] \in [Process -> Memory \cup {NoProcess}]
    BY EmptySeq
  <2>2. QED
    BY <2>1 DEF Booted, Kernel
<1>3. Live(Booted) = {} /\ \A p \in Process : HeldIn(Booted, p) = {}
  BY <1>1 DEF Live, HeldIn
<1>4. LibraryPages(Booted.libraries) = {}
  <2>1. DOMAIN <<>> = {}
    OBVIOUS
  <2>2. QED
    BY <2>1, <1>1 DEF LibraryPages
<1>5. \A x : x \notin Owned(Booted)
  BY <1>1, <1>3, <1>4, OwnedIs
<1>6. QED
  BY <1>1, <1>2, <1>3, <1>4, <1>5 DEF Sound

LEMMA InitFine == Init => Inv
<1>1. SUFFICES ASSUME Init PROVE Fine(kernel)
  BY DEF Inv
<1>2. PICK p \in Process, f \in File : \E k \in {process_load_for_slot(Booted, p, f)} :
          /\ ~k.ended /\ k.processes[p] # NoProcess
          /\ processes = [k.processes EXCEPT ![p].directory = task_unmap_video_memory(@)]
          /\ taken = k.taken /\ foreground = p /\ libraries = k.libraries
          /\ closed = FALSE /\ leaked = {} /\ ended = FALSE
  BY <1>1 DEF Init
<1> DEFINE k == process_load_for_slot(Booted, p, f)
<1>3. /\ ~k.ended /\ k.processes[p] # NoProcess
      /\ processes = [k.processes EXCEPT ![p].directory = task_unmap_video_memory(@)]
      /\ taken = k.taken /\ foreground = p /\ libraries = k.libraries
      /\ closed = FALSE /\ leaked = {} /\ ended = FALSE
  BY <1>2
<1>4. LoadedSlot(Booted, k, p)
  BY BootedSound, SlotLoaded
<1> HIDE DEF k
<1>5. Sound(k, {}) /\ k.foreground = NULL /\ k.leaked = {} /\ Live(k) = {p}
  <2>1. Booted.processes[p] = NoProcess /\ Booted.foreground = NULL /\ Booted.leaked = {}
    BY DEF Booted
  <2>2. QED
    BY <2>1, <1>3, <1>4, BootedSound DEF LoadedSlot
<1> DEFINE j == [k EXCEPT !.foreground = p]
           m == k.processes[p]
           o == [m EXCEPT !.directory = task_unmap_video_memory(@)]
<1>6. /\ k \in Kernel /\ j \in Kernel /\ j.processes = k.processes /\ j.foreground = p
      /\ j.taken = k.taken /\ j.libraries = k.libraries /\ j.leaked = k.leaked
  <2>1. k \in Kernel
    BY <1>5 DEF Sound
  <2>2. QED
    BY <2>1 DEF Kernel
<1>7. Own(m, LibraryPages(k.libraries), Screen(k, p)) /\ HeldIn(k, p) = HeldBy(m)
  BY <1>5, LiveHolds DEF Sound
<1>8. Sound(j, {})
  <2>1. \A q : HeldIn(j, q) = HeldIn(k, q)
    BY <1>6 DEF HeldIn
  <2>2. Owned(j) = Owned(k)
    BY <1>6, <2>1 DEF Owned
  <2>3. Live(j) = {p}
    BY <1>5, <1>6 DEF Live
  <2>4. Own(m, LibraryPages(k.libraries), Screen(j, p))
    <3>1. Screen(k, p) = {}
      BY <1>5, UserMemoryAssumption DEF Screen
    <3>2. Leads(m.directory, HeldBy(m) \cup LibraryPages(k.libraries), Screen(j, p))
      BY <1>7, <3>1, LeadsMore DEF Own
    <3>3. QED
      BY <1>7, <3>2 DEF Own
  <2> HIDE DEF j, m
  <2>5. \A q \in Live(j) : Own(j.processes[q], LibraryPages(j.libraries), Screen(j, q))
    BY <1>6, <2>3, <2>4 DEF m
  <2>6. QED
    BY <1>5, <1>6, <2>1, <2>2, <2>5 DEF Sound
<1> HIDE DEF j
<1>9. Own(o, LibraryPages(j.libraries), {VideoPage}) /\ HeldBy(o) = HeldBy(m)
  BY <1>6, <1>7, VideoUnmapped
<1>10. processes = [k.processes EXCEPT ![p] = o]
  BY <1>3
<1> HIDE DEF o, m
<1>11. /\ kernel.processes = [k.processes EXCEPT ![p] = o] /\ kernel.foreground = p
       /\ kernel.libraries = k.libraries /\ kernel.leaked = k.leaked /\ kernel.taken = k.taken
  BY <1>3, <1>5, <1>10 DEF kernel
<1>12. kernel \in Kernel
  <2>1. [k.processes EXCEPT ![p] = o] \in [Process -> Memory \cup {NoProcess}]
    BY <1>6, <1>9 DEF Kernel, Own
  <2>2. QED
    BY <2>1, <1>3, <1>5, <1>6, <1>10 DEF kernel, Kernel
<1>13. Screen(j, p) = {VideoPage} /\ HeldIn(j, p) = HeldBy(m)
  BY <1>6, <1>7 DEF Screen, HeldIn
<1>14. HeldBy(o) = HeldIn(j, p) \cup {}
  BY <1>9, <1>13
<1>15. Sound(kernel, {}) /\ Live(kernel) = Live(j) \cup {p}
  <2>1. Own(o, LibraryPages(j.libraries), Screen(j, p))
    BY <1>9, <1>13
  <2>2. /\ kernel.processes = [j.processes EXCEPT ![p] = o] /\ kernel.foreground = j.foreground
        /\ kernel.libraries = j.libraries /\ kernel.leaked = j.leaked /\ kernel.taken = j.taken
    BY <1>6, <1>11
  <2> DEFINE n == kernel
  <2>3. n = kernel
    OBVIOUS
  <2> HIDE DEF n
  <2>4. Sound(n, {}) /\ Live(n) = Live(j) \cup {p}
    BY <1>8, <1>12, <1>14, <2>1, <2>2, <2>3, SoundMemory
  <2>5. QED
    BY <2>3, <2>4
<1>16. QED
  BY <1>11, <1>15 DEF Fine

(* Once a library's memory was freed, nothing happens to the processes.    *)
Kept == closed' /\ processes' = processes /\ (ended => ended')

LEMMA NextFine == Inv /\ [Next]_vars => Fine(kernel)' \/ Kept
<1>1. SUFFICES ASSUME Inv, [Next]_vars PROVE Fine(kernel)' \/ Kept
  OBVIOUS
<1>2. CASE UNCHANGED vars
  BY <1>1, <1>2 DEF vars, Inv, kernel, Kept
<1>3. ASSUME NEW p \in Live(kernel), isr80h_command5_malloc(p) PROVE Fine(kernel)'
  <2>1. PICK size \in Sizes : Handler({process_malloc(kernel, p, size)})
    BY <1>3 DEF isr80h_command5_malloc
  <2>2. SameProcesses(kernel, process_malloc(kernel, p, size))
    BY <1>1, <2>1, HandlerSound, SizesPositive, mallocSound
  <2>3. Fine(process_malloc(kernel, p, size))
    BY <1>1, <2>1, <2>2, HandlerSound DEF SameProcesses, Fine
  <2>4. QED
    BY <2>1, <2>3, HandlerFine
<1>4. ASSUME NEW p \in Live(kernel), process_crash(p) PROVE Fine(kernel)'
  <2>1. CASE Live(kernel) = {p}
    <3> DEFINE n == [kernel EXCEPT !.ended = TRUE]
    <3>1. Handler({n})
      BY <1>4, <2>1 DEF process_crash
    <3>2. n.ended
      BY DEF kernel
    <3>3. Fine(n)
      BY <3>2 DEF Fine
    <3> HIDE DEF n
    <3>4. QED
      BY <3>1, <3>3, HandlerFine
  <2>2. CASE Live(kernel) # {p}
    <3>1. PICK f \in File :
            Handler({process_load_start(k, p, f, MaxArguments) : k \in Freed(kernel, p)})
      BY <1>4, <2>2 DEF process_crash
    <3>2. Sound(kernel, {}) /\ kernel.foreground \in Live(kernel)
      BY <1>1, <3>1, HandlerSound
    <3>3. ASSUME NEW k \in Freed(kernel, p) PROVE Fine(process_load_start(k, p, f, MaxArguments))
      <4>1. Sound(k, {}) /\ k.foreground \in Live(k) /\ p \in Process \ Live(k)
        BY <3>2, FreedFine
      <4>2. MaxArguments \in Nat
        BY UserMemoryAssumption
      <4>3. QED
        BY <4>1, <4>2, startFine
    <3>4. \A n \in {process_load_start(k, p, f, MaxArguments) : k \in Freed(kernel, p)} : Fine(n)
      BY <3>3
    <3>5. QED
      BY <3>1, <3>4, HandlerFine
  <2>3. QED
    BY <2>1, <2>2
<1>5. ASSUME NEW p \in Live(kernel), copy_string_from_task(p) PROVE Fine(kernel)'
  <2> DEFINE n == CopyThrough(kmalloc(kernel, 1), p)
  <2>1. Handler({n})
    BY <1>5 DEF copy_string_from_task
  <2>2. Sound(kernel, {}) /\ kernel.foreground \in Live(kernel)
    BY <1>1, <2>1, HandlerSound
  <2>3. SameProcesses(kernel, n)
    BY <2>2, copySound
  <2> HIDE DEF n
  <2>4. Fine(n)
    BY <2>2, <2>3 DEF SameProcesses, Fine
  <2>5. QED
    BY <2>1, <2>4, HandlerFine
<1>6. ASSUME isr80h_command6_invoke PROVE Fine(kernel)'
  <2>1. PICK p \in Process \ Live(kernel), f \in File, argc \in 1 .. MaxArguments :
          Handler({process_load_start(kernel, p, f, argc)})
    BY <1>6 DEF isr80h_command6_invoke
  <2>2. Sound(kernel, {}) /\ kernel.foreground \in Live(kernel)
    BY <1>1, <2>1, HandlerSound
  <2>3. argc \in Nat
    BY UserMemoryAssumption
  <2>4. Fine(process_load_start(kernel, p, f, argc))
    BY <2>2, <2>3, startFine
  <2>5. QED
    BY <2>1, <2>4, HandlerFine
<1>7. ASSUME fkeylistener_special PROVE Fine(kernel)'
  <2>1. ASSUME NEW p \in Live(kernel), Handler({process_switch(kernel, p)}) PROVE Fine(kernel)'
    <3>1. Sound(kernel, {}) /\ kernel.foreground \in Live(kernel)
      BY <1>1, <2>1, HandlerSound
    <3>2. Fine(process_switch(kernel, p))
      BY <3>1, SoundSwitch DEF Fine
    <3>3. QED
      BY <2>1, <3>2, HandlerFine
  <2>2. ASSUME NEW p \in Process \ Live(kernel), NEW f \in File,
               Handler({process_load_start(kernel, p, f, 0)})
        PROVE  Fine(kernel)'
    <3>1. Sound(kernel, {}) /\ kernel.foreground \in Live(kernel) /\ 0 \in Nat
      BY <1>1, <2>2, HandlerSound
    <3>2. Fine(process_load_start(kernel, p, f, 0))
      BY <3>1, startFine
    <3>3. QED
      BY <2>2, <3>2, HandlerFine
  <2>3. QED
    BY <1>7, <2>1, <2>2 DEF fkeylistener_special
<1>8. ASSUME process_load_elf_refused PROVE Fine(kernel)' \/ Kept
  <2> DEFINE k == MustGet(kmalloc(kernel, LibrarySize))
             n == Refused(k)
  <2>1. Handler({n})
    BY <1>8 DEF process_load_elf_refused
  <2>2. Sound(kernel, {})
    BY <1>1, <2>1, HandlerSound
  <2>3. k \in Kernel /\ k.processes = processes
    <3> DEFINE g == kmalloc(kernel, LibrarySize)
    <3>1. SameButHeap(kernel, g) /\ \E X : Sound(g, X)
      BY <2>2, SizesPositive, kmallocSound
    <3> HIDE DEF g
    <3>2. MustGetIs(g, MustGet(g))
      BY <3>1, MustGetSound
    <3>3. kernel.processes = processes
      BY DEF kernel
    <3>4. QED
      BY <3>1, <3>2, <3>3 DEF MustGetIs, SameButHeap, g
  <2> HIDE DEF k
  <2>4. n.ended \/ (n.closed /\ n.processes = processes)
    <3>1. CASE k.ended
      BY <3>1 DEF Refused
    <3>2. CASE ~k.ended
      <4>1. n = [kfree(k, k.got, LibrarySize) EXCEPT !.libraries = Append(@, k.got), !.closed = TRUE]
        BY <3>2 DEF Refused
      <4>2. n.closed /\ n.processes = processes
        BY <2>3, <4>1 DEF kfree, Kernel
      <4>3. QED
        BY <4>2
    <3>3. QED
      BY <3>1, <3>2
  <2> HIDE DEF n
  <2>5. Becomes(n) /\ ~ended
    BY <2>1 DEF Handler
  <2>6. CASE n.ended
    <3>1. Fine(n)
      BY <2>6 DEF Fine
    <3>2. QED
      BY <2>1, <3>1, HandlerFine
  <2>7. CASE n.closed /\ n.processes = processes
    BY <2>5, <2>7 DEF Becomes, Kept
  <2>8. QED
    BY <2>4, <2>6, <2>7
<1>9. ASSUME panic PROVE Fine(kernel)' \/ Kept
  BY <1>1, <1>9 DEF panic, vars, Inv, kernel, Kept
<1>10. QED
  BY <1>1, <1>2, <1>3, <1>4, <1>5, <1>6, <1>7, <1>8, <1>9 DEF Next

(* Invariance of what the handlers rely on. *)
THEOREM KernelSound == Spec => []Inv
<1>1. Inv /\ [Next]_vars => Inv'
  BY NextFine DEF Inv, Kept
<1>2. QED
  BY <1>1, InitFine, PTL DEF Spec

LEMMA SoundIsolated == Inv => Isolated /\ MemoryAccounted
<1>1. SUFFICES ASSUME Inv, ~closed, ~ended
               PROVE  Isolated /\ MemoryAccounted
  BY DEF Isolated, MemoryAccounted
<1> DEFINE k == kernel
           L == LibraryPages(libraries)
<1>2. /\ k.processes = processes /\ k.taken = taken /\ k.foreground = foreground
      /\ k.libraries = libraries /\ k.leaked = leaked /\ k.ended = ended
  BY DEF kernel
<1>3. Sound(k, {})
  BY <1>1, <1>2 DEF Inv, Fine
<1> HIDE DEF k
<1>4. \A p \in Live(k) : p \in Process /\ HeldIn(k, p) = Held(p)
  BY <1>2, LiveHolds DEF Held
<1>5. \A p \in Process \ Live(k) : HeldIn(k, p) = {}
  BY DEF Live, HeldIn
<1>6. taken = Owned(k)
  BY <1>2, <1>3 DEF Sound
<1>7. /\ \A p \in Live(k) : Held(p) \cap (L \cup leaked) = {}
      /\ \A p, q \in Live(k) : p # q => Held(p) \cap Held(q) = {}
  BY <1>2, <1>3, <1>4 DEF Sound
<1>8. ASSUME NEW p \in Live(k)
      PROVE  /\ Reach(p) \subseteq Held(p) \cup L \cup (IF p = foreground THEN {VideoPage} ELSE {})
             /\ Held(p) \subseteq taken
  <2>1. Own(k.processes[p], LibraryPages(k.libraries), Screen(k, p))
    BY <1>3 DEF Sound
  <2>2. Leads(processes[p].directory, Held(p) \cup L, Screen(k, p))
    BY <2>1, <1>2 DEF Own, Held
  <2>3. Screen(k, p) = IF p = foreground THEN {VideoPage} ELSE {}
    BY <1>2 DEF Screen
  <2>4. Reach(p) \subseteq Held(p) \cup L \cup Screen(k, p)
    BY <2>2 DEF Leads, Reach
  <2>5. Held(p) \subseteq taken
    BY <1>4, <1>6, OwnedIs
  <2>6. QED
    BY <2>3, <2>4, <2>5
<1>9. Isolated
  BY <1>7, <1>8 DEF Isolated, k
<1>10. taken = (UNION {Held(p) : p \in Live(k)}) \cup L \cup leaked
  <2> DEFINE U == UNION {Held(p) : p \in Live(k)}
  <2>1. \A x : x \in U <=> \E p \in Live(k) : x \in Held(p)
    OBVIOUS
  <2> HIDE DEF U
  <2>2. \A x : x \in Owned(k) <=> x \in U \cup L \cup leaked
    BY <1>2, <1>4, <1>5, <2>1, OwnedIs
  <2>3. taken = U \cup L \cup leaked
    BY <1>6, <2>2
  <2>4. QED
    BY <2>3 DEF U
<1>11. MemoryAccounted
  BY <1>7, <1>10 DEF MemoryAccounted, k
<1>12. QED
  BY <1>9, <1>11

(* A process reaches its own memory, the libraries' and, in the foreground, *)
(* the screen; and nobody else has the memory it holds (task_init, and all  *)
(* that is mapped later).                                                   *)
THEOREM IsolatedHolds == Spec => []Isolated
BY KernelSound, SoundIsolated, PTL

(* The heap holds what has an owner and what process_free and a failed load *)
(* left behind, and nothing else.                                           *)
THEOREM MemoryAccountedHolds == Spec => []MemoryAccounted
BY KernelSound, SoundIsolated, PTL

-----------------------------------------------------------------------------
(* What a process owns is where it was told. *)
RegionMapped(d, g) ==
  \A i \in 0 .. g.size - 1 :
    LET v == (g.virt + i) \div PAGE
    IN  /\ v \in DOMAIN d
        /\ paging_get_physical_address(d, g.virt + i) = g.phys + i
        /\ g.write => d[v].write

LEMMA RegionIsMapped ==
  ASSUME NEW d, NEW virt \in Nat, NEW phys \in Nat, NEW size \in Nat, NEW write \in BOOLEAN,
         Congruent(virt, phys), Placed(d, virt, phys, size, write)
  PROVE  RegionMapped(d, Region(virt, phys, size, write))
<1> DEFINE g == Region(virt, phys, size, write)
<1>1. g.virt = virt /\ g.phys = phys /\ g.size = size /\ g.write = write
  BY DEF Region
<1> HIDE DEF g
<1>2. ASSUME NEW i \in 0 .. size - 1
      PROVE  ByteAt(d, virt + i, phys + i, write)
  BY PlacedBytes
<1>3. QED
  BY <1>1, <1>2 DEF RegionMapped, ByteAt, g

LEMMA OwnGiven ==
  ASSUME NEW m \in Memory, Right(m), Len(m.sizes) = Len(m.allocations), NEW g \in Given(m)
  PROVE  RegionMapped(m.directory, g)
<1> DEFINE d == m.directory
           stack == Region(StackPage * PAGE, m.stack, StackSize, TRUE)
           program == Region(ProgramPage * PAGE, m.image, m.file.size, TRUE)
           block(i) == Region(m.allocations[i], m.allocations[i], m.sizes[i], TRUE)
           data(i) == Region(m.file.headers[i].vaddr, m.image + m.file.headers[i].offset,
                             m.file.headers[i].filesz, m.file.headers[i].write)
<1>1. /\ m.file \in File /\ m.image \in Address /\ m.stack \in Address
      /\ m.allocations \in Seq(Address) /\ m.sizes \in Seq(Nat \ {0})
  BY DEF Memory
<1>2. \/ g = stack
      \/ \E i \in DOMAIN m.allocations : g = block(i)
      \/ m.file.type = "binary" /\ g = program
      \/ m.file.type # "binary" /\ \E i \in DOMAIN m.file.headers : g = data(i)
  BY DEF Given
<1> HIDE DEF d, stack, program, block, data
<1>3. StackPage * PAGE \in Address /\ ProgramPage * PAGE \in Address /\ StackSize \in Nat
      /\ m.file.size \in Nat /\ TRUE \in BOOLEAN
  BY <1>1, UserMemoryAssumption, PageAddress, SizesPositive, FileIs
<1>4. RegionMapped(d, stack)
  <2>1. /\ StackPage * PAGE \in Nat /\ m.stack \in Nat
        /\ Congruent(StackPage * PAGE, m.stack)
        /\ Placed(d, StackPage * PAGE, m.stack, StackSize, TRUE)
    BY <1>1, <1>3, AddressIs, AddressesCongruent DEF Right, d
  <2>2. QED
    BY <2>1, <1>3, RegionIsMapped DEF stack
<1>5. CASE m.file.type = "binary" /\ g = program
  <2>1. /\ ProgramPage * PAGE \in Nat /\ m.image \in Nat
        /\ Congruent(ProgramPage * PAGE, m.image)
        /\ Placed(d, ProgramPage * PAGE, m.image, m.file.size, TRUE)
    BY <1>1, <1>3, <1>5, AddressIs, AddressesCongruent DEF Right, ProgramPlaced, d
  <2>2. QED
    BY <2>1, <1>3, <1>5, RegionIsMapped DEF program, d
<1>6. ASSUME NEW i \in DOMAIN m.allocations, g = block(i) PROVE RegionMapped(d, g)
  <2> DEFINE a == m.allocations[i]
             size == m.sizes[i]
  <2>1. a \in Address /\ size \in Nat /\ a \in Nat
    <3>1. i \in 1 .. Len(m.allocations) /\ i \in 1 .. Len(m.sizes)
      BY <1>1, LenProperties
    <3>2. a \in Address /\ size \in Nat
      BY <1>1, <3>1, ElementOfSeq
    <3>3. QED
      BY <3>2, AddressIs
  <2>2. PagesOf(a, size) \subseteq DOMAIN d \cap HeapPage
    BY DEF Right, Allocated, d
  <2> HIDE DEF a, size
  <2>3. Congruent(a, a)
    BY <2>1, AddressesCongruent
  <2>4. Placed(d, a, a, size, TRUE)
    <3> DEFINE q == a \div PAGE
    <3>1. q \in Int /\ PagesOf(a, size) \subseteq Int
      <4>1. q \in Nat
        BY <2>1, LowerPageIs
      <4>2. PagesOf(a, size) \subseteq Int
        BY <2>2, HeapPagesAre
      <4> HIDE DEF q
      <4>3. QED
        BY <4>1, <4>2
    <3> HIDE DEF q
    <3>2. \A v \in PagesOf(a, size) : q + (v - q) = v
      BY <3>1
    <3>3. \A v \in PagesOf(a, size) : v \in DOMAIN d /\ d[v] = Identity(v)
      BY <2>2 DEF Right, d
    <3>4. QED
      BY <3>2, <3>3 DEF Placed, Identity, q
  <2>5. RegionMapped(d, Region(a, a, size, TRUE))
    BY <2>1, <2>3, <2>4, <1>3, RegionIsMapped
  <2>6. QED
    BY <2>5, <1>6 DEF block, a, size
<1>7. ASSUME m.file.type # "binary", NEW i \in DOMAIN m.file.headers, g = data(i)
      PROVE  RegionMapped(d, g)
  <2> DEFINE h == m.file.headers[i]
             phys == m.image + h.offset
  <2>1. i \in 1 .. Len(m.file.headers)
    BY <1>1, FileIs, LenProperties
  <2>2. h.vaddr \in Nat /\ h.offset \in Nat /\ h.filesz \in Nat /\ h.write \in BOOLEAN
    BY <1>1, <2>1, HeaderIs
  <2>3. phys \in Nat
    BY <1>1, <2>2, AddressIs
  <2>4. Congruent(h.vaddr, phys)
    BY <1>1, <2>1, HeaderCongruent
  <2>5. Placed(d, h.vaddr, phys, h.filesz, h.write)
    BY <1>7 DEF Right, ProgramPlaced, HeaderPlaced, d
  <2>6. g = Region(h.vaddr, phys, h.filesz, h.write)
    BY <1>7 DEF data
  <2> HIDE DEF h, phys
  <2>7. QED
    BY <2>2, <2>3, <2>4, <2>5, <2>6, RegionIsMapped
<1>8. QED
  BY <1>2, <1>4, <1>5, <1>6, <1>7 DEF d

LEMMA FineGiven ==
  ASSUME NEW k, Fine(k), ~k.ended, NEW p \in Live(k), NEW g \in Given(k.processes[p])
  PROVE  RegionMapped(k.processes[p].directory, g)
<1>1. Own(k.processes[p], LibraryPages(k.libraries), Screen(k, p))
  BY DEF Fine, Sound
<1>2. QED
  BY <1>1, OwnGiven DEF Own

AllMapped(P, live) ==
  \A p \in live : \A g \in Given(P[p]) : RegionMapped(P[p].directory, g)

(* What a process was given stays where it was told, whatever is loaded,    *)
(* allocated, lent and freed beside it: each byte of its program, its stack *)
(* and its allocations (process_map_elf, process_malloc), if the programs   *)
(* and the heap lie apart as config.h and the linker scripts put them.      *)
THEOREM GivenIsMappedHolds == Spec => []GivenIsMapped
<1>1. Init => Inv /\ GivenIsMapped
  <2>1. SUFFICES ASSUME Init PROVE GivenIsMapped
    BY InitFine
  <2>2. Fine(kernel) /\ kernel.ended = ended /\ kernel.processes = processes
    BY <2>1, InitFine DEF Inv, Init, kernel
  <2>3. ~ended => AllMapped(processes, Live(kernel))
    BY <2>2, FineGiven DEF AllMapped
  <2>4. QED
    BY <2>3 DEF GivenIsMapped, AllMapped, RegionMapped
<1>2. Inv /\ GivenIsMapped /\ [Next]_vars => (Inv /\ GivenIsMapped)'
  <2>1. SUFFICES ASSUME Inv, GivenIsMapped, [Next]_vars PROVE Inv' /\ GivenIsMapped'
    OBVIOUS
  <2>2. CASE Kept
    <3>1. Live(kernel)' = Live(kernel)
      BY <2>2 DEF Kept, Live, kernel
    <3>2. ~ended => AllMapped(processes, Live(kernel))
      BY <2>1 DEF GivenIsMapped, AllMapped, RegionMapped
    <3>3. ~ended' => AllMapped(processes', Live(kernel)')
      BY <2>2, <3>1, <3>2 DEF Kept
    <3>4. GivenIsMapped'
      BY <3>3 DEF GivenIsMapped, AllMapped, RegionMapped
    <3>5. QED
      BY <2>2, <3>4 DEF Kept, Inv
  <2>3. CASE Fine(kernel)'
    <3> DEFINE k == kernel'
    <3>1. Fine(k) /\ k.ended = ended' /\ k.processes = processes' /\ Live(k) = Live(kernel)'
      BY <2>3 DEF kernel, Live
    <3> HIDE DEF k
    <3>2. ~ended' => AllMapped(processes', Live(kernel)')
      BY <3>1, FineGiven DEF AllMapped
    <3>3. GivenIsMapped'
      BY <3>2 DEF GivenIsMapped, AllMapped, RegionMapped
    <3>4. QED
      BY <2>3, <3>3 DEF Inv
  <2>4. QED
    BY <2>1, <2>2, <2>3, NextFine
<1>3. QED
  BY <1>1, <1>2, PTL DEF Spec
=============================================================================
