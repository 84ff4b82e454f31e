-------------------------------- MODULE Heap --------------------------------
(***************************************************************************)
(* The kernel heap: memory/heap.c (a block table searched first-fit) under *)
(* memory/kheap.c (kmalloc, kzalloc, kfree).  One byte of the table per    *)
(* page of the heap: type TAKEN or FREE, and the flags IS_FIRST and        *)
(* HAS_NEXT that chain the blocks of one allocation.                       *)
(*                                                                         *)
(* Sizes are in bytes, addresses of the heap are block numbers.  live is a *)
(* history variable: the allocations the callers hold, as [start, len].    *)
(***************************************************************************)
EXTENDS Integers, FiniteSets

CONSTANTS Total,      \* kernel_heap_table.total
          PageSize,   \* COS32_PAGE_SIZE
          Sizes,      \* the sizes in bytes that callers ask for
          TableAddr   \* COS32_KERNAL_HEAP_TABLE_ADDRESS: table entry i is byte TableAddr + i

ASSUME HeapAssumption ==
    /\ Total \in Nat \ {0}
    /\ PageSize \in Nat \ {0}
    /\ Sizes \subseteq Nat
    /\ TableAddr \in Nat

VARIABLES table,      \* kernel_heap_table.entries
          live,       \* history: the allocations handed out and not freed
          wiped,      \* history: a memset through NULL has reached the table
          panicked    \* an ASSERT failed: panic() loops for ever

vars == <<table, live, wiped, panicked>>

Block == 0 .. Total - 1
Entry == [taken : BOOLEAN, first : BOOLEAN, next : BOOLEAN]
FREE  == [taken |-> FALSE, first |-> FALSE, next |-> FALSE]

Allocation == [start : Block, len : 1 .. Total]
BlocksOf(a) == a.start .. (a.start + a.len - 1)

(* heap_create: every entry FREE. *)
Init == /\ table = [b \in Block |-> FREE]
        /\ live = {}
        /\ wiped = FALSE
        /\ panicked = FALSE

-----------------------------------------------------------------------------
(* paging_align_value_to_upper_page(size) / COS32_PAGE_SIZE *)
TotalBlocks(size) ==
    IF size % PageSize = 0 THEN size \div PageSize ELSE size \div PageSize + 1

IsFree(b) == ~table[b].taken

(* Seeded bug: only the first block of a run is looked at.                 *)
FitsFromStart(s, n) == n > 0 /\ s + n <= Total /\ IsFree(s)

(* Seeded bug: a request for no blocks is met anywhere.                     *)
FitsNoBlocksToo(s, n) == s + n <= Total /\ \A b \in s .. (s + n - 1) : IsFree(b)

(***************************************************************************)
(* The outcome of the scan in heap_get_start_block.  The loop leaves early *)
(* with bs at the first run of n free blocks.  If it runs to the end it    *)
(* leaves bs where a trailing run of free blocks starts, however short     *)
(* that run is, and only a taken last block gives -ENOMEM.  n = 0 never    *)
(* satisfies bc == total_blocks.                                           *)
(***************************************************************************)
Fits(s, n) == /\ n > 0
              /\ s + n <= Total
              /\ \A b \in s .. (s + n - 1) : IsFree(b)
FirstFit(s, n) == Fits(s, n) /\ \A r \in Block : Fits(r, n) => s <= r
NoFit(n) == \A s \in Block : ~Fits(s, n)

StartBlockFound(s, n) ==
    \/ FirstFit(s, n)
    \/ /\ NoFit(n)
       /\ \A b \in s .. (Total - 1) : IsFree(b)
       /\ s > 0 => ~IsFree(s - 1)
StartBlockENOMEM(n) == NoFit(n) /\ ~IsFree(Total - 1)

(* Seeded bug: the end of the run is not compared with the size of the     *)
(* heap.                                                                   *)
InBoundsStartOnly(s, e) == s >= 0 /\ s < Total /\ s <= e

(* heap_ensure_block_bounds *)
InBounds(s, e) == s >= 0 /\ s < Total /\ e < Total /\ s <= e

(* Seeded bug: HAS_NEXT is set on the last block of a run too.             *)
MarkTakenNextOnLast(s, n) ==
    [b \in Block |->
        IF b \in s .. (s + n - 1)
        THEN [taken |-> TRUE, first |-> b = s, next |-> b <= s + n - 1]
        ELSE table[b]]

(* The flags heap_mark_blocks_taken leaves in the table. *)
MarkTaken(s, n) ==
    [b \in Block |->
        IF b \in s .. (s + n - 1)
        THEN [taken |-> TRUE, first |-> b = s, next |-> b < s + n - 1]
        ELSE table[b]]

(* Seeded bug: freeing goes on over every taken block.                     *)
ChainToEnd(s) == {b \in s .. (Total - 1) : table[b].taken}

(* The entries heap_mark_blocks_free clears: on from s for as long as the  *)
(* entry before has HAS_NEXT.                                              *)
Chain(s) == {b \in s .. (Total - 1) : \A c \in s .. (b - 1) : table[c].next}
MarkFree(s) == [b \in Block |-> IF b \in Chain(s) THEN FREE ELSE table[b]]

-----------------------------------------------------------------------------
(* heap_malloc_blocks, when the scan returned block s *)
MallocBlocks(s, n) ==
    /\ StartBlockFound(s, n)
    /\ IF InBounds(s, s + n - 1)
       THEN /\ table' = MarkTaken(s, n)
            /\ live' = live \cup {[start |-> s, len |-> n]}
            /\ UNCHANGED panicked
       ELSE /\ panicked' = TRUE
            /\ UNCHANGED <<table, live>>
    /\ UNCHANGED wiped

kmalloc(size) ==
    /\ ~panicked
    /\ \/ \E s \in Block : MallocBlocks(s, TotalBlocks(size))
       \/ StartBlockENOMEM(TotalBlocks(size)) /\ UNCHANGED vars

(* kzalloc does not look at kmalloc's result: a failed one is memset(NULL, *)
(* 0, size), which clears the table entries that lie below address size.   *)
WipeTable(size) ==
    [b \in Block |-> IF TableAddr + b < size THEN FREE ELSE table[b]]

kzalloc(size) ==
    /\ ~panicked
    /\ \/ \E s \in Block : MallocBlocks(s, TotalBlocks(size))
       \/ /\ StartBlockENOMEM(TotalBlocks(size))
          /\ table' = WipeTable(size)
          /\ wiped' = (wiped \/ size > TableAddr)
          /\ UNCHANGED <<live, panicked>>

(* kfree of a pointer the caller holds; heap_mark_blocks_free asserts that *)
(* its entry has IS_FIRST.                                                 *)
kfree(a) ==
    /\ ~panicked
    /\ live' = live \ {a}
    /\ IF table[a.start].first
       THEN table' = MarkFree(a.start) /\ UNCHANGED panicked
       ELSE panicked' = TRUE /\ UNCHANGED table
    /\ UNCHANGED wiped

(* panic(): print the message and loop. *)
panic == panicked /\ UNCHANGED vars

Next == \/ \E size \in Sizes : kmalloc(size) \/ kzalloc(size)
        \/ \E a \in live : kfree(a)
        \/ panic

Spec == Init /\ [][Next]_vars

-----------------------------------------------------------------------------
(* The types of the variables. *)
TypeOK == /\ table \in [Block -> Entry]
          /\ live \in SUBSET Allocation
          /\ wiped \in BOOLEAN
          /\ panicked \in BOOLEAN

(* Allocations lie inside the heap and no two share a block. *)
LiveDisjoint ==
    /\ \A a \in live : a.start + a.len <= Total
    /\ \A a, b \in live : a # b => BlocksOf(a) \cap BlocksOf(b) = {}

(***************************************************************************)
(* The table is exactly the record of what the callers hold: the blocks of *)
(* an allocation are TAKEN, IS_FIRST marks its first and HAS_NEXT all but  *)
(* its last, and every other entry is FREE (heap.c: heap_mark_blocks_taken *)
(* and heap_mark_blocks_free).                                             *)
(***************************************************************************)
TableEncodesLive ==
    /\ \A a \in live : \A b \in BlocksOf(a) :
          table[b] = [taken |-> TRUE,
                      first |-> b = a.start,
                      next  |-> b < a.start + a.len - 1]
    /\ \A b \in Block : (\A a \in live : b \notin BlocksOf(a)) => table[b] = FREE

(* Until a memset through NULL reaches the table, the heap never hands out *)
(* memory that somebody holds, and its table says who holds what.          *)
HeapSound == ~wiped => LiveDisjoint /\ TableEncodesLive

(* kfree of a pointer that kmalloc returned never trips the IS_FIRST       *)
(* assertion of heap_mark_blocks_free, and gives back exactly the blocks   *)
(* of that allocation: every other entry of the table stays as it was.     *)
FreeIsExact ==
    [][\A a \in live \ live' :
          ~wiped => /\ ~panicked'
                    /\ \A b \in Block :
                          table'[b] = IF b \in BlocksOf(a) THEN FREE ELSE table[b]]_vars

(* The heap implements the allocator its callers rely on.                  *)
A == INSTANCE Allocator WITH overwritten <- wiped, stopped <- panicked
ImplementsAllocator == A!ASpec
=============================================================================
