----------------------------- MODULE UserMemory -----------------------------
(***************************************************************************)
(* The memory a program can reach: what task/process.c takes from the heap *)
(* for a process, what it maps into the process's page directory with      *)
(* memory/paging/paging.c, and what it gives back when the process ends.   *)
(*                                                                         *)
(* Addresses are bytes, pages are numbered.  Of a page directory only the  *)
(* entries with PAGING_ACCESS_FROM_ALL are kept: every other page leads to *)
(* itself and is the kernel's alone (task_init).  Memory the kernel keeps  *)
(* for itself, the page tables included, is left out.                      *)
(*                                                                         *)
(* The handlers of the kernel are functions of its state.  Where the code  *)
(* goes on with memory at address NULL, or panics, the model has ended.    *)
(***************************************************************************)
EXTENDS Integers, Sequences

CONSTANTS Process,         \* the memory blocks of struct process
          File,            \* the programs: their type, size and headers
          LibrarySize,     \* the size of the shared library, in bytes
          PAGE,            \* COS32_PAGE_SIZE
          ProgramPage,     \* of COS32_PROGRAM_VIRTUAL_ADDRESS
          StackPage,       \* of COS32_PROGRAM_VIRTUAL_STACK_ADDRESS_END
          StackSize,       \* COS32_USER_PROGRAM_STACK_SIZE
          VideoPage,       \* of COS32_VIDEO_MEMORY_ADDRESS_START, one page
          HeapFirst,       \* the first page of the heap
          HeapLast,        \* the last page of the heap
          MaxAllocations,  \* COS32_MAX_PROGRAM_ALLOCATIONS
          Sizes,           \* the sizes a program asks for, in bytes
          MaxArguments,    \* the number of arguments of a command
          ArgumentSize,    \* sizeof(command_argument.argument)
          PointerSize,     \* sizeof(char *)
          NULL

(* What the kernel reads of a program header and of a program. *)
Header == [vaddr : Nat, offset : Nat, filesz : Nat, write : BOOLEAN]
Program == [type : {"binary", "elf"}, size : Nat \ {0}, needed : BOOLEAN,
            headers : Seq(Header)]

ASSUME UserMemoryAssumption ==
    /\ {PAGE, StackSize, LibrarySize, ArgumentSize, PointerSize} \subseteq Nat \ {0}
    /\ {ProgramPage, StackPage, VideoPage, HeapFirst, HeapLast} \subseteq Nat
    /\ Sizes \subseteq Nat \ {0}
    /\ MaxAllocations \in Nat /\ MaxArguments \in Nat
    /\ NULL \notin Process \cup Nat \cup File

(* The programs on the disk are whole: what a header describes is in the   *)
(* file.                                                                   *)
ASSUME FileAssumption ==
    /\ File \subseteq Program
    /\ \A f \in File : \A i \in DOMAIN f.headers :
          f.headers[i].offset + f.headers[i].filesz <= f.size

(* A slot of processes that is NULL. *)
NoProcess == [file |-> NULL]

VARIABLES processes,   \* processes: NoProcess, or what a process has
          taken,       \* the pages kheap holds
          foreground,  \* current_process
          libraries,   \* the pages of the libraries on the list
          closed,      \* history: the memory of a library on the list was freed
          leaked,      \* history: pages held for a process that is no more
          ended        \* panic(), or memory at NULL was used

kernel == [processes |-> processes, taken |-> taken, foreground |-> foreground,
           libraries |-> libraries, closed |-> closed, leaked |-> leaked,
           ended |-> ended, got |-> NULL]
vars == <<processes, taken, foreground, libraries, closed, leaked, ended>>

Becomes(k) == /\ processes' = k.processes
              /\ taken' = k.taken
              /\ foreground' = k.foreground
              /\ libraries' = k.libraries
              /\ closed' = k.closed
              /\ leaked' = k.leaked
              /\ ended' = k.ended

-----------------------------------------------------------------------------
(* paging_align_to_lower_page and paging_align_address. *)
LowerPage(a) == a - (a % PAGE)
UpperPage(a) == IF a % PAGE = 0 THEN a ELSE a + PAGE - (a % PAGE)

PagesOf(a, size) == (LowerPage(a) \div PAGE) .. ((UpperPage(a + size) \div PAGE) - 1)

(* kmalloc: the first run of free pages that is long enough, or NULL; but  *)
(* if the heap ends in a shorter run, the kernel panics (module Heap).     *)
HeapPage == HeapFirst .. HeapLast
Fits(free, size) ==
    {h \in free : \A g \in PagesOf(h * PAGE, size) : g \in free}

Take(k, size, fits) ==
    LET a == (CHOOSE h \in fits : \A g \in fits : h <= g) * PAGE
    IN  IF fits = {} THEN [k EXCEPT !.got = NULL, !.ended = @ \/ HeapLast \notin k.taken]
        ELSE [k EXCEPT !.got = a, !.taken = @ \cup PagesOf(a, size)]

kmalloc(k, size) == Take(k, size, Fits(HeapPage \ k.taken, size))

(* kfree of memory of that size. *)
kfree(k, a, size) == [k EXCEPT !.taken = @ \ PagesOf(a, size)]

(* The caller does not look whether there was memory. *)
MustGet(k) == [k EXCEPT !.ended = @ \/ k.got = NULL]

-----------------------------------------------------------------------------
(* paging_map_to: the pages from phys up to end, at virt and after it. *)
paging_map_to(directory, virt, phys, end, write) ==
    LET first == virt \div PAGE
        count == (end - phys) \div PAGE
    IN  [v \in DOMAIN directory \cup (first .. first + count - 1) |->
            IF v \in first .. first + count - 1
            THEN [page |-> (phys \div PAGE) + (v - first), write |-> write]
            ELSE directory[v]]

(* paging_get_physical_address *)
paging_get_physical_address(directory, a) ==
    directory[a \div PAGE].page * PAGE + (a % PAGE)

(* task_map_video_memory and task_unmap_video_memory. *)
task_map_video_memory(directory, video) ==
    paging_map_to(directory, VideoPage * PAGE, video, video + PAGE, TRUE)
task_unmap_video_memory(directory) ==
    paging_map_to(directory, VideoPage * PAGE, VideoPage * PAGE, (VideoPage + 1) * PAGE, TRUE)

(* process_map_elf: all the headers, of whatever type. *)
process_map_elf(directory, f, image) ==
    LET mapped[i \in 0 .. Len(f.headers)] ==
          IF i = 0 THEN directory
          ELSE LET h == f.headers[i]
               IN  paging_map_to(mapped[i - 1], LowerPage(h.vaddr), LowerPage(image + h.offset),
                                 UpperPage(image + h.offset + h.filesz), h.write)
    IN  mapped[Len(f.headers)]

(* A header without data makes paging_map_to panic, unless it starts       *)
(* inside a page.                                                          *)
MapsNothing(f) ==
    \E i \in DOMAIN f.headers :
        f.headers[i].filesz = 0 /\ f.headers[i].offset % PAGE = 0

process_map_binary(directory, f, image) ==
    paging_map_to(directory, ProgramPage * PAGE, image, UpperPage(image + f.size), TRUE)

(* library_map_all: the memory of the libraries leads to itself, and may   *)
(* be written to.                                                          *)
LibraryPages(list) == UNION {PagesOf(list[i], LibrarySize) : i \in DOMAIN list}

library_map_all(directory, list) ==
    [v \in DOMAIN directory \cup LibraryPages(list) |->
        IF v \in LibraryPages(list) THEN [page |-> v, write |-> TRUE] ELSE directory[v]]

process_map_memory(f, image, stack, video, list) ==
    LET fresh   == task_map_video_memory(<<>>, video)
        program == IF f.type = "elf" THEN process_map_elf(fresh, f, image)
                   ELSE process_map_binary(fresh, f, image)
    IN  library_map_all(paging_map_to(program, StackPage * PAGE, stack,
                                      UpperPage(stack + StackSize), TRUE), list)

-----------------------------------------------------------------------------
(* process_load_data: what could not be loaded of an ELF file is not       *)
(* noticed; its library is loaded if it is not on the list.                *)
WithLibrary(image, k) ==
    [k EXCEPT !.libraries = <<k.got>>, !.got = image.got, !.ended = @ \/ image.got = NULL]

process_load_elf(image, f) ==
    IF f.needed /\ image.libraries = <<>>
    THEN WithLibrary(image, MustGet(kmalloc(image, LibrarySize)))
    ELSE MustGet(image)

process_load_data(k, f) ==
    IF f.type = "binary" THEN kmalloc(k, f.size) ELSE process_load_elf(kmalloc(k, f.size), f)

Loaded(f, image, stack, video, list) ==
    [file |-> f, image |-> image, stack |-> stack, video |-> video,
     allocations |-> <<>>, sizes |-> <<>>,
     directory |-> process_map_memory(f, image, stack, video, list)]

(* process_load_for_slot: the data, the stack, then the task with its      *)
(* video.  What was taken is not given back if a later step fails.         *)
WithVideo(image, stack, k, p, f) ==
    IF k.ended \/ MapsNothing(f) THEN [k EXCEPT !.ended = TRUE]
    ELSE [k EXCEPT !.processes[p] = Loaded(f, image, stack, k.got, k.libraries)]

WithStack(image, k, p, f) ==
    IF k.ended \/ k.got = NULL THEN [k EXCEPT !.leaked = @ \cup PagesOf(image, f.size)]
    ELSE WithVideo(image, k.got, MustGet(kmalloc(k, PAGE)), p, f)

WithData(k, p, f) ==
    IF k.ended \/ k.got = NULL THEN k
    ELSE WithStack(k.got, kmalloc(k, StackSize), p, f)

process_load_for_slot(k, p, f) == WithData(process_load_data(k, f), p, f)

(* Seeded bug: only the first page of the memory is mapped.                *)
AllocateOnePage(k, p, size) ==
    IF k.got = NULL THEN k
    ELSE [k EXCEPT !.processes[p].allocations = Append(@, k.got),
                   !.processes[p].sizes = Append(@, size),
                   !.processes[p].directory =
                       paging_map_to(@, k.got, k.got, k.got + PAGE, TRUE)]

(* process_malloc: a slot is looked for first.  Slots are not freed while  *)
(* the process lives.                                                      *)
Allocate(k, p, size) ==
    IF k.got = NULL THEN k
    ELSE [k EXCEPT !.processes[p].allocations = Append(@, k.got),
                   !.processes[p].sizes = Append(@, size),
                   !.processes[p].directory =
                       paging_map_to(@, k.got, k.got, UpperPage(k.got + size), TRUE)]

process_malloc(k, p, size) ==
    IF Len(k.processes[p].allocations) = MaxAllocations THEN [k EXCEPT !.got = NULL]
    ELSE Allocate(kmalloc(k, size), p, size)

(* process_inject_arguments: the array, then one string after the other,   *)
(* up to the first for which there is no memory.                           *)
process_inject_arguments(k, p, argc) ==
    LET injected[i \in 0 .. argc] ==
          IF i = 0 THEN process_malloc(k, p, PointerSize * argc)
          ELSE IF injected[i - 1].got = NULL THEN injected[i - 1]
          ELSE process_malloc(injected[i - 1], p, ArgumentSize)
    IN  injected[argc]

(* process_switch, as far as page directories go. *)
process_switch(k, p) ==
    [k EXCEPT !.processes[k.foreground].directory =
                  task_map_video_memory(@, k.processes[k.foreground].video),
              !.processes[p].directory = task_unmap_video_memory(@),
              !.foreground = p]

(* process_load_start: a process whose arguments find no memory stays      *)
(* loaded, but is not started.                                             *)
StartInjected(k, p) == IF k.ended \/ k.got = NULL THEN k ELSE process_switch(k, p)

StartLoaded(k, p, argc) ==
    IF k.ended \/ k.processes[p] = NoProcess THEN k
    ELSE IF argc = 0 THEN process_switch(k, p)
    ELSE StartInjected(process_inject_arguments(k, p, argc), p)

process_load_start(k, p, f, argc) == StartLoaded(process_load_for_slot(k, p, f), p, argc)

-----------------------------------------------------------------------------
Live(k) == {p \in Process : k.processes[p] # NoProcess}

(* The pages of what the program asked for, its arguments among them. *)
Allocated(m) == UNION {PagesOf(m.allocations[i], m.sizes[i]) : i \in DOMAIN m.allocations}

(* Seeded bug: what the program asked for is not freed with it.            *)
FreeKeepsAllocations(k, p) ==
    LET gone == k.processes[p]
        kept == PagesOf(gone.stack, StackSize)
    IN  [k EXCEPT !.taken = @ \ (PagesOf(gone.image, gone.file.size) \cup PagesOf(gone.video, PAGE)),
                  !.leaked = @ \cup kept, !.processes[p] = NoProcess]

(* process_free, after it has moved the foreground to another process: the *)
(* stack is not freed, nor is the image of an ELF file.                    *)
process_free(k, p) ==
    LET gone  == k.processes[p]
        image == PagesOf(gone.image, gone.file.size)
        stack == PagesOf(gone.stack, StackSize)
        freed == PagesOf(gone.video, PAGE)
                 \cup (IF gone.file.type = "binary" THEN image ELSE {})
                 \cup Allocated(gone)
    IN  [k EXCEPT !.taken = @ \ freed,
                  !.leaked = @ \cup stack \cup (image \ freed),
                  !.processes[p] = NoProcess]

Freed(k, p) ==
    {process_free(IF k.foreground = p THEN process_switch(k, q) ELSE k, p) :
        q \in Live(k) \ {p}}

(* kernel_main: the first process is loaded and started. *)
Booted == [processes |-> [p \in Process |-> NoProcess], taken |-> {}, foreground |-> NULL,
           libraries |-> <<>>, closed |-> FALSE, leaked |-> {}, ended |-> FALSE, got |-> NULL]

Init == \E p \in Process, f \in File : \E k \in {process_load_for_slot(Booted, p, f)} :
          /\ ~k.ended /\ k.processes[p] # NoProcess
          /\ processes = [k.processes EXCEPT ![p].directory = task_unmap_video_memory(@)]
          /\ taken = k.taken
          /\ foreground = p
          /\ libraries = k.libraries
          /\ closed = FALSE /\ leaked = {} /\ ended = FALSE

Handler(results) == ~ended /\ ~closed /\ \E k \in results : Becomes(k)

isr80h_command5_malloc(p) ==
    \E size \in Sizes : Handler({process_malloc(kernel, p, size)})

(* process_run_for_argument: the program's name is its first argument. *)
isr80h_command6_invoke ==
    \E p \in Process \ Live(kernel), f \in File, argc \in 1 .. MaxArguments :
        Handler({process_load_start(kernel, p, f, argc)})

(* fkeylistener_special: the process of the key, or a new one. *)
fkeylistener_special ==
    \/ \E p \in Live(kernel) : Handler({process_switch(kernel, p)})
    \/ \E p \in Process \ Live(kernel), f \in File :
          Handler({process_load_start(kernel, p, f, 0)})

(* process_crash, unless there is no other process to go on with. *)
process_crash(p) ==
    IF Live(kernel) = {p} THEN Handler({[kernel EXCEPT !.ended = TRUE]})
    ELSE \E f \in File :
           Handler({process_load_start(k, p, f, MaxArguments) : k \in Freed(kernel, p)})

(* process_load_elf of a library: its memory is freed, for it is no        *)
(* program, but it stays on the list.                                      *)
Refused(k) ==
    IF k.ended THEN k
    ELSE [kfree(k, k.got, LibrarySize) EXCEPT !.libraries = Append(@, k.got), !.closed = TRUE]

process_load_elf_refused == Handler({Refused(MustGet(kmalloc(kernel, LibrarySize)))})

(* Seeded bug: the entry of the page that was lent is not put back.        *)
CopyKeepsPage(k, p) ==
    IF k.got = NULL THEN k
    ELSE [kfree(k, k.got, 1) EXCEPT
            !.processes[p].directory = paging_map_to(@, k.got, k.got, k.got + PAGE, TRUE)]

(* copy_string_from_task: a page is lent to the process, and the old entry *)
(* put back before the page is freed.                                      *)
CopyThrough(k, p) ==
    LET page == k.got \div PAGE
        old  == k.processes[p].directory
        lent == paging_map_to(old, k.got, k.got, k.got + PAGE, TRUE)
    IN  IF k.got = NULL THEN k
        ELSE [kfree(k, k.got, 1) EXCEPT
                !.processes[p].directory =
                    [v \in (DOMAIN lent \ {page}) \cup (DOMAIN old \cap {page}) |->
                        IF v = page THEN old[v] ELSE lent[v]]]

copy_string_from_task(p) == Handler({CopyThrough(kmalloc(kernel, 1), p)})

(* Nothing is said of what comes after. *)
panic == (ended \/ closed) /\ UNCHANGED vars

Next == \/ \E p \in Live(kernel) : \/ isr80h_command5_malloc(p)
                                   \/ process_crash(p)
                                   \/ copy_string_from_task(p)
        \/ isr80h_command6_invoke
        \/ fkeylistener_special
        \/ process_load_elf_refused
        \/ panic

Spec == Init /\ [][Next]_vars
-----------------------------------------------------------------------------
(* The pages a process holds, and those it can reach. *)
HeldBy(m) == PagesOf(m.image, m.file.size) \cup PagesOf(m.stack, StackSize)
             \cup PagesOf(m.video, PAGE) \cup Allocated(m)
Held(p) == HeldBy(processes[p])

Reach(p) == {processes[p].directory[v].page : v \in DOMAIN processes[p].directory}

(***************************************************************************)
(* A process reaches its own memory, that of the libraries, and the screen *)
(* while it is in the foreground, and nothing else; and what it reaches is *)
(* held, and held for nobody else (task_init and all that maps later).  It *)
(* holds until a library is run as a program: its memory is then freed,    *)
(* and still mapped for every process that comes (process.c:281).          *)
(***************************************************************************)
Isolated ==
    ~closed /\ ~ended =>
        \A p \in Live(kernel) :
            /\ Reach(p) \subseteq Held(p) \cup LibraryPages(libraries)
                                 \cup (IF p = foreground THEN {VideoPage} ELSE {})
            /\ Held(p) \cap LibraryPages(libraries) = {}
            /\ \A q \in Live(kernel) : p # q => Held(p) \cap Held(q) = {}
            /\ Held(p) \subseteq taken

(* Where programs are linked to.  config.h puts the screen, the stack, the *)
(* program and the heap one above the other, and the linker scripts of the *)
(* programs start their sections on pages of their own.  Headers may       *)
(* describe the same page if they describe it alike.                       *)
Linked(h) == PagesOf(h.vaddr, h.filesz)
LinkedTo(f) == IF f.type = "binary" THEN PagesOf(ProgramPage * PAGE, f.size)
               ELSE UNION {Linked(f.headers[i]) : i \in DOMAIN f.headers}

StackPages == PagesOf(StackPage * PAGE, StackSize)

Alike(g, h) == g.vaddr - g.offset = h.vaddr - h.offset /\ g.write = h.write

WellLaid ==
    /\ VideoPage \notin StackPages \cup HeapPage
    /\ StackPages \cap HeapPage = {}
    /\ \A f \in File :
          /\ LinkedTo(f) \cap (StackPages \cup HeapPage \cup {VideoPage}) = {}
          /\ \A i, j \in DOMAIN f.headers :
                /\ (f.headers[i].vaddr - f.headers[i].offset) % PAGE = 0
                /\ \/ Linked(f.headers[i]) \cap Linked(f.headers[j]) = {}
                   \/ Alike(f.headers[i], f.headers[j])

ASSUME LayoutAssumption == WellLaid

(***************************************************************************)
(* What a process was given is where it was told: each byte of its program, *)
(* its stack and its allocations, arguments among them, is mapped to the   *)
(* byte it should be, and may be written to if it should (process_map_elf, *)
(* process_malloc, with sizes and offsets that are no multiple of a page). *)
(* So an address the kernel translates (isr80h/process.c:29) stays right   *)
(* for all of the object that begins there.                                *)
(***************************************************************************)
Region(virt, phys, size, write) == [virt |-> virt, phys |-> phys, size |-> size, write |-> write]

Given(m) ==
    {Region(StackPage * PAGE, m.stack, StackSize, TRUE)}
    \cup {Region(m.allocations[i], m.allocations[i], m.sizes[i], TRUE) :
             i \in DOMAIN m.allocations}
    \cup IF m.file.type = "binary"
         THEN {Region(ProgramPage * PAGE, m.image, m.file.size, TRUE)}
         ELSE {Region(h.vaddr, m.image + h.offset, h.filesz, h.write) :
                 h \in {m.file.headers[i] : i \in DOMAIN m.file.headers}}

GivenIsMapped ==
    ~ended =>
        \A p \in Live(kernel) : \A g \in Given(processes[p]) : \A i \in 0 .. g.size - 1 :
            LET directory == processes[p].directory
                v == (g.virt + i) \div PAGE
            IN  /\ v \in DOMAIN directory
                /\ paging_get_physical_address(directory, g.virt + i) = g.phys + i
                /\ g.write => directory[v].write

(***************************************************************************)
(* The pages the heap holds are those of the processes and libraries there *)
(* are, and those lost with a process: its stack, its image if it was an   *)
(* ELF file or its load failed, and no others (process_free, and the "out" *)
(* of process_load_for_slot).                                              *)
(***************************************************************************)
MemoryAccounted ==
    ~closed /\ ~ended =>
        /\ taken = (UNION {Held(p) : p \in Live(kernel)}) \cup LibraryPages(libraries) \cup leaked
        /\ \A p \in Live(kernel) : Held(p) \cap leaked = {}
=============================================================================
