----------------------------- MODULE HeapProofs -----------------------------
(***************************************************************************)
(* For a heap of any number of blocks, any page size, any set of request   *)
(* sizes and any address of the table: what is held is disjoint and the    *)
(* table records it, kfree is exact, and the heap implements Allocator.    *)
(* HeapSound with TypeOK is inductive as it stands.  And the loop that     *)
(* looks for a run of blocks finds what StartBlockFound says.              *)
(***************************************************************************)
EXTENDS MCHeap, Lemmas

(* What an allocation step does to table and live: s starts a run of n     *)
(* free blocks inside the heap.                                            *)
Took(s, n) ==
    /\ s \in Block /\ n \in 1 .. Total /\ s + n <= Total
    /\ \A b \in s .. (s + n - 1) : IsFree(b)
    /\ table' = MarkTaken(s, n)
    /\ live' = live \cup {[start |-> s, len |-> n]}
    /\ UNCHANGED <<wiped, panicked>>

(* The number of blocks heap_malloc asks for is a natural number. *)
LEMMA TotalBlocksNat == ASSUME NEW size \in Nat PROVE TotalBlocks(size) \in Nat
  BY HeapAssumption DEF TotalBlocks

(***************************************************************************)
(* heap_malloc_blocks either takes a run of free blocks inside the heap or *)
(* fails the bounds assertion: the trailing run that heap_get_start_block  *)
(* returns when nothing fits never passes heap_ensure_block_bounds.        *)
(***************************************************************************)
LEMMA MallocTakesOrPanics ==
  ASSUME TypeOK, NEW s \in Block, NEW n \in Nat, MallocBlocks(s, n)
  PROVE  \/ Took(s, n)
         \/ panicked' = TRUE /\ UNCHANGED <<table, live, wiped>>
<1>1. CASE InBounds(s, s + n - 1)
  <2>1. n \in 1 .. Total /\ s + n <= Total
    BY <1>1, HeapAssumption DEF InBounds, Block
  <2>2. \A b \in s .. (s + n - 1) : IsFree(b)
    <3>1. CASE FirstFit(s, n)
      BY <3>1 DEF FirstFit, Fits
    <3>2. CASE \A b \in s .. (Total - 1) : IsFree(b)
      BY <3>2, <2>1, HeapAssumption DEF Block
    <3>3. QED
      BY <3>1, <3>2 DEF MallocBlocks, StartBlockFound
  <2>3. QED
    BY <1>1, <2>1, <2>2 DEF MallocBlocks, Took
<1>2. CASE ~InBounds(s, s + n - 1)
  BY <1>2 DEF MallocBlocks
<1>3. QED
  BY <1>1, <1>2

(* The four things a step of the heap can do. *)
LEMMA StepCases ==
  ASSUME TypeOK, [Next]_vars
  PROVE  \/ ~panicked /\ \E s \in Block, n \in Nat : Took(s, n)
         \/ panicked' = TRUE /\ UNCHANGED <<table, live, wiped>>
         \/ \E size \in Nat : /\ table' = WipeTable(size)
                              /\ wiped' = (wiped \/ size > TableAddr)
                              /\ ~panicked
                              /\ UNCHANGED <<live, panicked>>
         \/ \E a \in live : kfree(a)
         \/ UNCHANGED vars
<1>1. CASE \E size \in Sizes : kmalloc(size) \/ kzalloc(size)
  <2>1. PICK size \in Sizes : kmalloc(size) \/ kzalloc(size)
    BY <1>1
  <2>2. size \in Nat /\ TotalBlocks(size) \in Nat
    BY TotalBlocksNat, HeapAssumption
  <2>3. ~panicked
    BY <2>1 DEF kmalloc, kzalloc
  <2>4. CASE \E s \in Block : MallocBlocks(s, TotalBlocks(size))
    BY <2>2, <2>3, <2>4, MallocTakesOrPanics
  <2>5. QED
    BY <2>1, <2>2, <2>3, <2>4 DEF kmalloc, kzalloc
<1>2. QED
  BY <1>1 DEF Next, panic

(* A wiping memset that does not reach the table changes nothing. *)
LEMMA WipeBelowTable ==
  ASSUME TypeOK, NEW size \in Nat, ~(size > TableAddr)
  PROVE  WipeTable(size) = table
  BY HeapAssumption DEF WipeTable, TypeOK, Block

-----------------------------------------------------------------------------
(* The types of Heap's variables hold in every reachable state. *)
LEMMA TypeStep == ASSUME TypeOK, [Next]_vars PROVE TypeOK'
<1>1. ASSUME NEW s \in Block, NEW n \in Nat, Took(s, n) PROVE TypeOK'
  <2>1. table' \in [Block -> Entry]
    BY <1>1 DEF Took, MarkTaken, TypeOK, Entry
  <2>2. [start |-> s, len |-> n] \in Allocation
    BY <1>1 DEF Took, Allocation
  <2>3. QED
    BY <1>1, <2>1, <2>2 DEF Took, TypeOK
<1>2. ASSUME NEW size \in Nat, table' = WipeTable(size),
             wiped' = (wiped \/ size > TableAddr), UNCHANGED <<live, panicked>>
      PROVE  TypeOK'
  <2>1. table' \in [Block -> Entry]
    BY <1>2 DEF WipeTable, TypeOK, Entry, FREE
  <2>2. QED
    BY <1>2, <2>1 DEF TypeOK
<1>3. ASSUME NEW a \in live, kfree(a) PROVE TypeOK'
  <2>1. table' \in [Block -> Entry]
    <3>1. FREE \in Entry
      BY DEF FREE, Entry
    <3>2. MarkFree(a.start) \in [Block -> Entry]
      BY <3>1 DEF MarkFree, TypeOK
    <3>3. QED
      BY <1>3, <3>2 DEF kfree, TypeOK
  <2>2. QED
    BY <1>3, <2>1 DEF kfree, TypeOK
<1>4. QED
  BY <1>1, <1>2, <1>3, StepCases DEF TypeOK, vars

THEOREM HeapTypes == Spec => []TypeOK
<1>1. Init => TypeOK
  <2>1. FREE \in Entry
    BY DEF FREE, Entry
  <2>2. QED
    BY <2>1 DEF Init, TypeOK
<1>2. QED
  BY <1>1, TypeStep, PTL DEF Spec

-----------------------------------------------------------------------------
HeapFacts == TypeOK /\ LiveDisjoint /\ TableEncodesLive

(* The entry of a held block, flag by flag. *)
LEMMA EntryOfHeldBlock ==
  ASSUME HeapFacts, NEW a \in live, NEW b \in BlocksOf(a)
  PROVE  /\ table[b].taken
         /\ table[b].first <=> b = a.start
         /\ table[b].next <=> b < a.start + a.len - 1
<1> DEFINE entry == [taken |-> TRUE, first |-> b = a.start,
                     next |-> b < a.start + a.len - 1]
<1>1. table[b] = entry
  BY DEF HeapFacts, TableEncodesLive
<1>2. /\ entry.taken = TRUE
      /\ entry.first = (b = a.start)
      /\ entry.next = (b < a.start + a.len - 1)
  OBVIOUS
<1> HIDE DEF entry
<1>3. QED
  BY <1>1, <1>2

(* The entries heap_mark_blocks_free clears are the blocks of the          *)
(* allocation whose first block it is given, and IS_FIRST is set there.    *)
LEMMA ChainIsAllocation ==
  ASSUME HeapFacts, NEW a \in live
  PROVE  Chain(a.start) = BlocksOf(a) /\ table[a.start].first
<1> DEFINE last == a.start + a.len - 1
<1>1. /\ a.start \in Nat /\ a.len \in Nat /\ a.len >= 1 /\ last < Total
      /\ BlocksOf(a) = a.start .. last
  BY HeapAssumption DEF HeapFacts, TypeOK, LiveDisjoint, Allocation, Block, BlocksOf
<1>2. \A b \in a.start .. last : table[b].next <=> b < last
  BY <1>1, EntryOfHeldBlock
<1>3. table[a.start].first
  <2>1. a.start \in BlocksOf(a)
    BY <1>1
  <2>2. QED
    BY <2>1, EntryOfHeldBlock
<1>4. ASSUME NEW b \in Chain(a.start) PROVE b \in BlocksOf(a)
  <2>1. b \in a.start .. (Total - 1) /\ \A c \in a.start .. (b - 1) : table[c].next
    BY <1>4 DEF Chain
  <2>2. ~(last < b)
    <3>1. SUFFICES ASSUME last < b PROVE FALSE
      OBVIOUS
    <3>2. last \in a.start .. last /\ last \in a.start .. (b - 1)
      BY <2>1, <3>1, <1>1, HeapAssumption
    <3>3. table[last].next /\ (table[last].next <=> last < last)
      BY <2>1, <3>2, <1>2
    <3>4. QED
      BY <3>3, <1>1
  <2>3. QED
    BY <2>1, <2>2, <1>1, HeapAssumption
<1>5. ASSUME NEW b \in BlocksOf(a) PROVE b \in Chain(a.start)
  <2>1. b \in a.start .. (Total - 1)
    BY <1>1, HeapAssumption
  <2>2. ASSUME NEW c \in a.start .. (b - 1) PROVE table[c].next
    <3>1. c \in a.start .. last /\ c < last
      BY <2>1, <1>1, <1>5, HeapAssumption
    <3>2. QED
      BY <3>1, <1>2
  <2>3. QED
    BY <2>1, <2>2 DEF Chain
<1>6. QED
  BY <1>3, <1>4, <1>5

(* A run of free blocks overlaps nothing that is held. *)
LEMMA FreeRunIsDisjoint ==
  ASSUME HeapFacts, NEW s \in Block, NEW n \in Nat, Took(s, n), NEW a \in live
  PROVE  BlocksOf([start |-> s, len |-> n]) \cap BlocksOf(a) = {}
<1>1. \A b \in BlocksOf(a) : ~IsFree(b)
  BY EntryOfHeldBlock DEF IsFree
<1>2. \A b \in BlocksOf([start |-> s, len |-> n]) : IsFree(b)
  BY DEF Took, BlocksOf
<1>3. QED
  BY <1>1, <1>2

(* heap_mark_blocks_taken keeps the table the record of what is held. *)
LEMMA TookKeepsFacts ==
  ASSUME HeapFacts, NEW s \in Block, NEW n \in Nat, Took(s, n)
  PROVE  LiveDisjoint' /\ TableEncodesLive'
<1> DEFINE new == [start |-> s, len |-> n]
<1> DEFINE run == s .. (s + n - 1)
<1>1. /\ live' = live \cup {new} /\ BlocksOf(new) = run
      /\ s \in Int /\ n >= 1 /\ s + n <= Total
  BY HeapAssumption DEF Took, BlocksOf, Block
<1>2. \A a \in live : run \cap BlocksOf(a) = {}
  BY <1>1, FreeRunIsDisjoint
<1>3. LiveDisjoint'
  <2>1. \A a \in live' : a.start + a.len <= Total
    BY <1>1 DEF HeapFacts, LiveDisjoint
  <2>2. \A a, b \in live' : a # b => BlocksOf(a) \cap BlocksOf(b) = {}
    BY <1>1, <1>2 DEF HeapFacts, LiveDisjoint
  <2>3. QED
    BY <2>1, <2>2 DEF LiveDisjoint
<1>4. \A b \in Block : table'[b] = IF b \in run
                                   THEN [taken |-> TRUE, first |-> b = s,
                                         next |-> b < s + n - 1]
                                   ELSE table[b]
  BY DEF Took, MarkTaken
<1>5. run \subseteq Block /\ \A a \in live : BlocksOf(a) \subseteq Block
  BY <1>1, HeapAssumption
     DEF HeapFacts, TypeOK, LiveDisjoint, Allocation, Block, BlocksOf
<1>6. ASSUME NEW a \in live', NEW b \in BlocksOf(a)
      PROVE  table'[b] = [taken |-> TRUE, first |-> b = a.start,
                          next  |-> b < a.start + a.len - 1]
  <2>1. CASE a \in live
    BY <2>1, <1>2, <1>4, <1>5 DEF HeapFacts, TableEncodesLive
  <2>2. CASE a = new
    BY <2>2, <1>1, <1>4, <1>5
  <2>3. QED
    BY <2>1, <2>2, <1>1
<1>7. ASSUME NEW b \in Block, \A a \in live' : b \notin BlocksOf(a)
      PROVE  table'[b] = FREE
  BY <1>7, <1>1, <1>4 DEF HeapFacts, TableEncodesLive
<1>8. QED
  BY <1>3, <1>6, <1>7 DEF TableEncodesLive

(* heap_mark_blocks_free keeps the table the record of what is held. *)
LEMMA FreeKeepsFacts ==
  ASSUME HeapFacts, NEW a \in live, kfree(a)
  PROVE  /\ ~panicked' /\ LiveDisjoint' /\ TableEncodesLive'
         /\ \A b \in Block :
               table'[b] = IF b \in BlocksOf(a) THEN FREE ELSE table[b]
<1>1. live' = live \ {a} /\ table' = MarkFree(a.start) /\ ~panicked'
  BY ChainIsAllocation DEF kfree
<1>2. \A b \in Block : table'[b] = IF b \in BlocksOf(a) THEN FREE ELSE table[b]
  BY <1>1, ChainIsAllocation DEF MarkFree
<1>3. LiveDisjoint'
  BY <1>1 DEF HeapFacts, LiveDisjoint
<1>4. ASSUME NEW h \in live', NEW b \in BlocksOf(h)
      PROVE  table'[b] = [taken |-> TRUE, first |-> b = h.start,
                          next  |-> b < h.start + h.len - 1]
  <2>1. h \in live /\ b \notin BlocksOf(a)
    BY <1>1 DEF HeapFacts, LiveDisjoint
  <2>2. b \in Block
    BY <2>1, HeapAssumption
       DEF HeapFacts, TypeOK, LiveDisjoint, Allocation, Block, BlocksOf
  <2>3. QED
    BY <2>1, <2>2, <1>2 DEF HeapFacts, TableEncodesLive
<1>5. ASSUME NEW b \in Block, \A h \in live' : b \notin BlocksOf(h)
      PROVE  table'[b] = FREE
  BY <1>5, <1>1, <1>2 DEF HeapFacts, TableEncodesLive
<1>6. QED
  BY <1>1, <1>2, <1>3, <1>4, <1>5 DEF TableEncodesLive

-----------------------------------------------------------------------------
(* One step of the heap keeps HeapSound. *)
LEMMA SoundStep ==
  ASSUME TypeOK, HeapSound, [Next]_vars
  PROVE  HeapSound'
<1>1. SUFFICES ASSUME ~wiped' PROVE LiveDisjoint' /\ TableEncodesLive'
  BY DEF HeapSound
<1>2. ASSUME NEW s \in Block, NEW n \in Nat, Took(s, n)
      PROVE  LiveDisjoint' /\ TableEncodesLive'
  BY <1>1, <1>2, TookKeepsFacts DEF HeapFacts, HeapSound, Took
<1>3. ASSUME NEW size \in Nat, table' = WipeTable(size),
             wiped' = (wiped \/ size > TableAddr), UNCHANGED live
      PROVE  LiveDisjoint' /\ TableEncodesLive'
  <2>1. ~wiped /\ ~(size > TableAddr)
    BY <1>1, <1>3
  <2>2. UNCHANGED <<table, live>>
    BY <1>3, <2>1, WipeBelowTable
  <2>3. QED
    BY <2>1, <2>2 DEF HeapSound, LiveDisjoint, TableEncodesLive
<1>4. ASSUME NEW a \in live, kfree(a)
      PROVE  LiveDisjoint' /\ TableEncodesLive'
  BY <1>1, <1>4, FreeKeepsFacts DEF HeapFacts, HeapSound, kfree
<1>5. CASE UNCHANGED <<table, live, wiped>>
  BY <1>1, <1>5 DEF HeapSound, LiveDisjoint, TableEncodesLive
<1>6. QED
  BY <1>2, <1>3, <1>4, <1>5, StepCases DEF vars

(* As long as no failed kzalloc has written over the table, what is held   *)
(* is disjoint and the table records it (heap.c).                          *)
THEOREM HeapIsSound == Spec => []HeapSound
<1>1. Init => HeapSound
  BY DEF Init, HeapSound, LiveDisjoint, TableEncodesLive
<1>2. TypeOK /\ HeapSound /\ [Next]_vars => HeapSound'
  BY SoundStep
<1>3. QED
  BY <1>1, <1>2, HeapTypes, PTL DEF Spec

-----------------------------------------------------------------------------
(* The step formula inside FreeIsExact. *)
FreeExactStep ==
    \A a \in live \ live' :
       ~wiped => /\ ~panicked'
                 /\ \A b \in Block :
                       table'[b] = IF b \in BlocksOf(a) THEN FREE ELSE table[b]

LEMMA FreeExactOfStep ==
  ASSUME TypeOK, HeapSound, [Next]_vars
  PROVE  [FreeExactStep]_vars
<1>1. SUFFICES ASSUME NEW a \in live \ live', ~wiped
               PROVE  /\ ~panicked'
                      /\ \A b \in Block :
                            table'[b] = IF b \in BlocksOf(a) THEN FREE ELSE table[b]
  BY DEF FreeExactStep
<1>2. PICK h \in live : kfree(h)
  BY <1>1, StepCases DEF Took, vars
<1>3. h = a
  BY <1>1, <1>2 DEF kfree
<1>4. QED
  BY <1>1, <1>2, <1>3, FreeKeepsFacts DEF HeapFacts, HeapSound

(* kfree of a held pointer never panics and frees exactly its blocks       *)
(* (heap_free, heap_mark_blocks_free).                                     *)
THEOREM FreeExact == Spec => FreeIsExact
<1>1. TypeOK /\ HeapSound /\ [Next]_vars => [FreeExactStep]_vars
  BY FreeExactOfStep
<1>2. Spec => [][FreeExactStep]_vars
  BY <1>1, HeapTypes, HeapIsSound, PTL DEF Spec
<1>3. QED
  BY <1>2 DEF FreeIsExact, FreeExactStep

-----------------------------------------------------------------------------
(* Every step of the heap is a step of the allocator, or changes nothing   *)
(* the allocator's users see.                                              *)
LEMMA AllocatorStep ==
  ASSUME TypeOK, HeapSound, [Next]_vars
  PROVE  [A!ANext]_(A!avars)
<1>1. ASSUME NEW s \in Block, NEW n \in Nat, Took(s, n), ~panicked
      PROVE  A!Allocate
  <2> DEFINE new == [start |-> s, len |-> n]
  <2>1. new \in A!Run /\ live' = live \cup {new} /\ new.start + new.len <= Total
    BY <1>1 DEF Took, A!Run, Block
  <2>2. ASSUME ~wiped, NEW h \in live PROVE A!Cells(new) \cap A!Cells(h) = {}
    <3>1. BlocksOf(new) \cap BlocksOf(h) = {}
      BY <1>1, <2>2, FreeRunIsDisjoint DEF HeapFacts, HeapSound
    <3>2. QED
      BY <3>1 DEF A!Cells, BlocksOf
  <2> HIDE DEF new
  <2>3. QED
    BY <1>1, <2>1, <2>2 DEF A!Allocate, Took
<1>2. CASE panicked' = TRUE /\ UNCHANGED <<table, live, wiped>>
  BY <1>2 DEF A!ANext, A!Stop, A!avars, TypeOK
<1>3. ASSUME NEW size \in Nat, wiped' = (wiped \/ size > TableAddr),
             ~panicked, UNCHANGED <<live, panicked>>
      PROVE  [A!ANext]_(A!avars)
  <2>1. CASE size > TableAddr
    BY <1>3, <2>1 DEF A!ANext, A!Overwrite
  <2>2. CASE ~(size > TableAddr)
    BY <1>3, <2>2 DEF A!avars, TypeOK
  <2>3. QED
    BY <2>1, <2>2
<1>4. ASSUME NEW a \in live, kfree(a) PROVE A!Release
  <2>1. ~wiped => ~panicked'
    BY <1>4, FreeKeepsFacts DEF HeapFacts, HeapSound
  <2>2. QED
    BY <1>4, <2>1 DEF kfree, A!Release, TypeOK
<1>5. QED
  BY <1>1, <1>2, <1>3, <1>4, StepCases DEF A!ANext, A!avars, vars

(* The block table implements the allocator's promise: no two callers ever *)
(* hold the same memory, until the table itself is overwritten.            *)
THEOREM HeapImplementsAllocator == Spec => ImplementsAllocator
<1>1. Init => A!AInit
  BY DEF Init, A!AInit
<1>2. TypeOK /\ HeapSound /\ [Next]_vars => [A!ANext]_(A!avars)
  BY AllocatorStep
<1>3. QED
  BY <1>1, <1>2, HeapTypes, HeapIsSound, PTL DEF Spec, ImplementsAllocator, A!ASpec

-----------------------------------------------------------------------------
(***************************************************************************)
(* What the loop of heap_get_start_block knows after i iterations: it has  *)
(* found the first fit, or none ends below i, and bs is -1 or starts the   *)
(* run of free blocks that ends there.                                     *)
(***************************************************************************)
ScanState == [bc : Int, bs : Int, done : BOOLEAN]

RunFrom(bs, i) == /\ bs \in 0 .. i - 1
                  /\ \A b \in bs .. i - 1 : IsFree(b)
                  /\ bs > 0 => ~IsFree(bs - 1)

Searching(p, n, i) ==
    /\ ~p.done
    /\ \A r \in Block : Fits(r, n) => r + n > i
    /\ \/ p.bs = -1 /\ p.bc = 0 /\ (i > 0 => ~IsFree(i - 1))
       \/ RunFrom(p.bs, i) /\ p.bc = i - p.bs

Scanned(p, n, i) == \/ p.done /\ p.bs \in Block /\ FirstFit(p.bs, n)
                    \/ Searching(p, n, i)

(* One iteration. *)
ScanNext(p, i, n) ==
    LET bs == IF p.bs = -1 THEN i - 1 ELSE p.bs
    IN  IF p.done THEN p
        ELSE IF table[i - 1].taken THEN [p EXCEPT !.bc = 0, !.bs = -1]
        ELSE [bc |-> p.bc + 1, bs |-> bs, done |-> p.bc + 1 = n]

LEMMA ScanStep ==
  ASSUME TypeOK, NEW n \in Nat, NEW i \in 1 .. Total, NEW p \in ScanState, Scanned(p, n, i - 1)
  PROVE  ScanNext(p, i, n) \in ScanState /\ Scanned(ScanNext(p, i, n), n, i)
<1> DEFINE q == ScanNext(p, i, n)
<1>1. Total \in Nat /\ i \in Nat /\ i - 1 \in Block /\ Block \subseteq Nat
  BY HeapAssumption DEF Block
<1>2. CASE p.done
  BY <1>2 DEF ScanNext, Scanned, Searching
<1>3. CASE ~p.done /\ table[i - 1].taken
  <2>1. q = [p EXCEPT !.bc = 0, !.bs = -1]
    BY <1>3 DEF ScanNext
  <2> HIDE DEF q
  <2>2. q \in ScanState /\ q.bc = 0 /\ q.bs = -1 /\ ~q.done
    <3>1. 0 \in Int /\ -1 \in Int
      OBVIOUS
    <3>2. DOMAIN p = {"bc", "bs", "done"}
      BY DEF ScanState
    <3>3. q.bc = 0 /\ q.bs = -1 /\ q.done = p.done
      BY <2>1, <3>2
    <3>4. q \in ScanState
      BY <2>1, <3>1 DEF ScanState
    <3>5. QED
      BY <1>3, <3>3, <3>4
  <2>3. Searching(p, n, i - 1)
    BY <1>3 DEF Scanned
  <2>4. ASSUME NEW r \in Block, Fits(r, n) PROVE r + n > i
    <3>1. r + n > i - 1
      BY <2>3, <2>4 DEF Searching
    <3>2. r + n # i
      BY <1>1, <1>3, <2>4 DEF Fits, IsFree
    <3>3. QED
      BY <1>1, <3>1, <3>2
  <2>5. ~IsFree(i - 1)
    BY <1>3 DEF IsFree
  <2>6. QED
    BY <2>2, <2>4, <2>5 DEF Searching, Scanned, q
<1>4. CASE ~p.done /\ ~table[i - 1].taken
  <2> DEFINE bs == IF p.bs = -1 THEN i - 1 ELSE p.bs
  <2>1. q = [bc |-> p.bc + 1, bs |-> bs, done |-> p.bc + 1 = n]
    BY <1>4 DEF ScanNext
  <2>2. Searching(p, n, i - 1) /\ IsFree(i - 1)
    BY <1>4 DEF Scanned, IsFree
  <2>3. RunFrom(bs, i) /\ p.bc + 1 = i - bs
    <3>1. CASE p.bs = -1
      BY <1>1, <2>2, <3>1 DEF Searching, RunFrom
    <3>2. CASE p.bs # -1
      BY <1>1, <2>2, <3>2 DEF Searching, RunFrom
    <3>3. QED
      BY <3>1, <3>2
  <2>4. bs \in Block /\ bs \in Int
    BY <1>1, <2>3 DEF RunFrom, Block
  <2> HIDE DEF bs
  <2>5. q \in ScanState /\ q.bc = i - bs /\ q.bs = bs /\ q.done = (i - bs = n)
    <3>1. q = [bc |-> i - bs, bs |-> bs, done |-> i - bs = n]
      BY <2>1, <2>3
    <3>2. (i - bs = n) \in BOOLEAN /\ i - bs \in Int
      BY <1>1, <2>4
    <3> HIDE DEF q
    <3>3. QED
      BY <2>4, <3>1, <3>2 DEF ScanState
  <2> HIDE DEF q
  <2>6. \A r \in Block : Fits(r, n) => r + n > i - 1
    BY <2>2 DEF Searching
  <2>7. \A r \in Block : Fits(r, n) => r >= bs
    <3>1. SUFFICES ASSUME NEW r \in Block, Fits(r, n), r < bs PROVE FALSE
      BY <1>1, <2>4
    <3>2. r + n > i - 1 /\ bs - 1 \in r .. (r + n - 1)
      BY <1>1, <2>3, <2>4, <2>6, <3>1 DEF RunFrom
    <3>3. QED
      BY <1>1, <2>3, <3>1, <3>2 DEF Fits, RunFrom
  <2>8. CASE i - bs = n
    <3>1. Fits(bs, n)
      BY <1>1, <2>3, <2>4, <2>8 DEF Fits, RunFrom
    <3>2. FirstFit(bs, n)
      BY <2>7, <3>1 DEF FirstFit
    <3>3. QED
      BY <2>4, <2>5, <2>8, <3>2 DEF Scanned, q
  <2>9. CASE i - bs # n
    <3>1. ASSUME NEW r \in Block, Fits(r, n) PROVE r + n > i
      <4>1. r + n > i - 1 /\ r >= bs /\ n > 0
        BY <2>6, <2>7, <3>1 DEF Fits
      <4>2. SUFFICES ASSUME r + n = i PROVE FALSE
        BY <1>1, <4>1
      <4>3. bs < r /\ bs + n < i
        BY <1>1, <2>4, <2>9, <4>1, <4>2
      <4>4. Fits(bs, n)
        BY <1>1, <2>3, <2>4, <4>1, <4>3 DEF Fits, RunFrom
      <4>5. bs + n > i - 1
        BY <2>4, <2>6, <4>4
      <4>6. QED
        BY <1>1, <2>4, <4>3, <4>5
    <3>2. QED
      BY <2>3, <2>5, <2>9, <3>1 DEF Scanned, Searching, q
  <2>10. QED
    BY <2>8, <2>9
<1>5. QED
  BY <1>2, <1>3, <1>4

(* What the loop has found at its end. *)
LEMMA ScanEnd ==
  ASSUME TypeOK, NEW n \in Nat, NEW p \in ScanState, Scanned(p, n, Total)
  PROVE  /\ \A s \in Block : StartBlockFound(s, n) <=> p.bs = s
         /\ StartBlockENOMEM(n) <=> p.bs = -1
<1>1. Total \in Nat \ {0} /\ Total - 1 \in Block /\ Block \subseteq Nat /\ Block = 0 .. Total - 1
  BY HeapAssumption DEF Block
<1>2. CASE p.bs \in Block /\ FirstFit(p.bs, n)
  <2>1. ~NoFit(n) /\ p.bs # -1
    BY <1>1, <1>2 DEF NoFit, FirstFit
  <2>2. \A s \in Block : FirstFit(s, n) <=> p.bs = s
    BY <1>1, <1>2 DEF FirstFit
  <2>3. QED
    BY <2>1, <2>2 DEF StartBlockFound, StartBlockENOMEM
<1>3. CASE Searching(p, n, Total)
  <2>1. NoFit(n) /\ \A s \in Block : ~FirstFit(s, n)
    <3>1. ASSUME NEW s \in Block, Fits(s, n) PROVE FALSE
      <4>1. s + n > Total
        BY <1>3, <3>1 DEF Searching
      <4>2. s + n <= Total
        BY <3>1 DEF Fits
      <4>3. QED
        BY <1>1, <4>1, <4>2
    <3>2. QED
      BY <3>1 DEF NoFit, FirstFit
  <2>2. CASE p.bs = -1 /\ ~IsFree(Total - 1)
    <3>1. \A s \in Block : Total - 1 \in s .. (Total - 1)
      BY <1>1
    <3>2. QED
      BY <1>1, <2>1, <2>2, <3>1 DEF StartBlockFound, StartBlockENOMEM
  <2>3. CASE RunFrom(p.bs, Total)
    <3> DEFINE bs == p.bs
    <3>1. /\ bs \in Block /\ \A b \in bs .. Total - 1 : IsFree(b)
          /\ bs > 0 => ~IsFree(bs - 1)
      BY <1>1, <2>3 DEF RunFrom
    <3> HIDE DEF bs
    <3>2. ASSUME NEW s \in Block PROVE StartBlockFound(s, n) <=> bs = s
      <4>1. StartBlockFound(s, n) <=> /\ \A b \in s .. (Total - 1) : IsFree(b)
                                      /\ s > 0 => ~IsFree(s - 1)
        BY <2>1 DEF StartBlockFound
      <4>2. CASE s < bs
        <5>1. bs - 1 \in s .. (Total - 1) /\ bs > 0
          BY <1>1, <3>1, <4>2
        <5>2. QED
          BY <1>1, <3>1, <4>1, <4>2, <5>1
      <4>3. CASE s > bs
        <5>1. s - 1 \in bs .. Total - 1 /\ s > 0
          BY <1>1, <3>1, <4>3
        <5>2. QED
          BY <1>1, <3>1, <4>1, <4>3, <5>1
      <4>4. CASE s = bs
        BY <3>1, <4>1, <4>4
      <4>5. QED
        BY <1>1, <3>1, <4>2, <4>3, <4>4
    <3>3. IsFree(Total - 1) /\ bs # -1
      BY <1>1, <3>1
    <3>4. QED
      BY <3>2, <3>3 DEF StartBlockENOMEM, bs
  <2>4. QED
    BY <1>1, <1>3, <2>2, <2>3 DEF Searching
<1>4. QED
  BY <1>2, <1>3 DEF Scanned

LEMMA ScanLoopScanned ==
  ASSUME TypeOK, NEW n \in Nat
  PROVE  \E p \in ScanState : ScanLoop(n) = p.bs /\ Scanned(p, n, Total)
<1> DEFINE first == [bc |-> 0, bs |-> -1, done |-> FALSE]
           Body(g) == [i \in 0 .. Total |->
                         IF i = 0 THEN [bc |-> 0, bs |-> -1, done |-> FALSE]
                         ELSE LET p  == g[i - 1]
                                  bs == IF p.bs = -1 THEN i - 1 ELSE p.bs
                              IN  IF p.done THEN p
                                  ELSE IF table[i - 1].taken THEN [p EXCEPT !.bc = 0, !.bs = -1]
                                  ELSE [bc |-> p.bc + 1, bs |-> bs, done |-> p.bc + 1 = n]]
           scan == CHOOSE g : g = Body(g)
           Good(i) == {p \in ScanState : Scanned(p, n, i)}
<1>1. Total \in Nat
  BY HeapAssumption
<1>2. ScanLoop(n) = scan[Total].bs
  BY DEF ScanLoop
<1>3. first \in Good(0)
  <2>1. first \in ScanState
    BY DEF ScanState
  <2>2. \A r \in Block : Fits(r, n) => r + n > 0
    BY HeapAssumption DEF Block, Fits
  <2>3. Scanned(first, n, 0)
    BY <2>2 DEF Scanned, Searching
  <2>4. QED
    BY <2>1, <2>3
<1>4. ASSUME NEW i \in 1 .. Total, NEW p \in Good(i - 1) PROVE ScanNext(p, i, n) \in Good(i)
  BY ScanStep
<1>5. \E g : g = Body(g)
  <2> DEFINE step == [i \in 1 .. Total |-> [p \in ScanState |->
                        IF Scanned(p, n, i - 1) THEN ScanNext(p, i, n) ELSE p]]
  <2>1. step \in [1 .. Total -> [ScanState -> ScanState]]
    BY <1>4
  <2>2. first \in ScanState
    BY <1>3
  <2> HIDE DEF step, first
  <2>3. PICK g \in [0 .. Total -> ScanState] : Iterates(g, Total, first, step)
    BY <1>1, <2>1, <2>2, Recursion
  <2> DEFINE T == {i \in 0 .. Total : Scanned(g[i], n, i)}
  <2>4. g[0] = first /\ 0 \in T
    BY <1>1, <1>3, <2>3 DEF Iterates
  <2>5. ASSUME NEW i \in 1 .. Total, i - 1 \in T PROVE i \in T /\ g[i] = ScanNext(g[i - 1], i, n)
    <3>1. g[i - 1] \in Good(i - 1) /\ g[i] = step[i][g[i - 1]]
      BY <2>3, <2>5 DEF Iterates
    <3>2. step[i][g[i - 1]] = ScanNext(g[i - 1], i, n)
      BY <3>1 DEF step
    <3>3. g[i] \in Good(i)
      BY <1>4, <3>1, <3>2
    <3>4. QED
      BY <1>1, <3>1, <3>2, <3>3
  <2> HIDE DEF T
  <2>6. 0 .. Total \subseteq T
    BY <1>1, <2>4, <2>5, UpTo
  <2>7. ASSUME NEW i \in 1 .. Total PROVE g[i] = ScanNext(g[i - 1], i, n)
    <3>1. i - 1 \in 0 .. Total
      BY <1>1
    <3>2. QED
      BY <2>5, <2>6, <3>1
  <2>8. ASSUME NEW i \in 0 .. Total PROVE g[i] = Body(g)[i]
    <3>1. CASE i = 0
      BY <1>1, <2>4, <3>1 DEF first
    <3>2. CASE i # 0
      <4>1. i \in 1 .. Total
        BY <1>1, <3>2
      <4>2. QED
        BY <2>7, <3>2, <4>1 DEF ScanNext
    <3>3. QED
      BY <3>1, <3>2
  <2>9. g = Body(g)
    BY <2>3, <2>8
  <2>10. QED
    BY <2>9
<1>6. scan = Body(scan)
  BY <1>5
<1> HIDE DEF scan
<1>7. scan[0] = first /\ \A i \in 1 .. Total : scan[i] = ScanNext(scan[i - 1], i, n)
  <2>1. 0 \in 0 .. Total /\ \A i \in 1 .. Total : i \in 0 .. Total /\ i # 0
    BY <1>1
  <2>2. scan[0] = first
    BY <1>6, <2>1
  <2>3. \A i \in 1 .. Total : scan[i] = ScanNext(scan[i - 1], i, n)
    BY <1>6, <2>1 DEF ScanNext
  <2>4. QED
    BY <2>2, <2>3
<1> DEFINE T == {i \in 0 .. Total : scan[i] \in Good(i)}
<1>8. 0 \in T
  BY <1>1, <1>3, <1>7
<1>9. ASSUME NEW i \in 1 .. Total, i - 1 \in T PROVE i \in T
  BY <1>1, <1>4, <1>7, <1>9
<1> HIDE DEF T
<1>10. Total \in T
  <2>1. 0 .. Total \subseteq T
    BY <1>1, <1>8, <1>9, UpTo
  <2>2. QED
    BY <1>1, <2>1
<1>11. scan[Total] \in ScanState /\ Scanned(scan[Total], n, Total)
  BY <1>10 DEF T
<1>12. QED
  BY <1>2, <1>11

(* In every state, and for every size, the loop of heap_get_start_block     *)
(* finds the first run of free blocks that is long enough, or the trailing  *)
(* one that is not, and says -ENOMEM only if the last block is taken.       *)
THEOREM ScanFindsFirstFit == Spec => []ScanIsFirstFit
<1>1. ASSUME TypeOK PROVE ScanIsFirstFit
  <2>1. ASSUME NEW n \in Nat
        PROVE  /\ \A s \in Block : StartBlockFound(s, n) <=> ScanLoop(n) = s
               /\ StartBlockENOMEM(n) <=> ScanLoop(n) = -1
    <3>1. PICK p \in ScanState : ScanLoop(n) = p.bs /\ Scanned(p, n, Total)
      BY <1>1, ScanLoopScanned
    <3>2. QED
      BY <1>1, <3>1, ScanEnd
  <2>2. {TotalBlocks(size) : size \in Sizes} \subseteq Nat
    BY HeapAssumption, TotalBlocksNat
  <2>3. QED
    BY <2>1, <2>2 DEF ScanIsFirstFit
<1>2. QED
  BY <1>1, HeapTypes, PTL
=============================================================================
