------------------------------ MODULE Process -------------------------------
(***************************************************************************)
(* The process table of task/process.c and the screen: which process is in *)
(* the foreground (current_process), whose task reaches the real video     *)
(* memory, and what is left of a process that is switched away, crashes or *)
(* fails to load.                                                          *)
(*                                                                         *)
(* The handlers of the kernel are the actions: interrupts stay off in      *)
(* them.  Which task runs next is the scheduler's choice: module Scheduler *)
(* shows that it is one of the list, and every process of the table has    *)
(* its task there.  A picture is named by the process that drew it.        *)
(***************************************************************************)
EXTENDS Integers

CONSTANTS Block,        \* the memory blocks of struct process
          NSlots,       \* COS32_MAX_PROCESSES
          NULL,         \* no process
          Blank         \* the picture of video_default

ASSUME ProcessAssumption ==
    /\ NSlots \in Nat \ {0}
    /\ NULL \notin Block
    /\ Blank \notin Block

VARIABLES processes,        \* processes: the block in each slot
          current_process,  \* the process in the foreground
          id,               \* process->id
          allocated,        \* the blocks kheap holds
          onScreen,         \* the task maps 0xA0000 to the screen
          picture,          \* what process->video->ptr shows
          screen,           \* what the screen shows
          running,          \* task_current()->process
          halted,           \* panic()
          faulty            \* history: has faulted since it was loaded

kernel == [processes |-> processes, current |-> current_process, id |-> id,
           allocated |-> allocated, onScreen |-> onScreen,
           picture |-> picture, screen |-> screen, faulty |-> faulty]
vars == <<processes, current_process, id, allocated, onScreen, picture, screen,
          running, halted, faulty>>

Slot == 0 .. NSlots - 1
InTable(table) == {table[s] : s \in Slot} \ {NULL}
Live == InTable(processes)

(* The kernel's state after a handler. *)
Becomes(k) == /\ processes' = k.processes
              /\ current_process' = k.current
              /\ id' = k.id
              /\ allocated' = k.allocated
              /\ onScreen' = k.onScreen
              /\ picture' = k.picture
              /\ screen' = k.screen
              /\ faulty' = k.faulty

-----------------------------------------------------------------------------
(* Seeded bug: the old task keeps the screen mapped.                       *)
SwitchKeepsMapping(k, p) ==
    LET saved == [k.picture EXCEPT ![k.current] = k.screen]
    IN  [k EXCEPT !.picture = saved,
                  !.screen = saved[p],
                  !.onScreen = [@ EXCEPT ![p] = TRUE],
                  !.current = p]

(* Seeded bug: the old picture is saved after the new one is restored.     *)
SwitchRestoresFirst(k, p) ==
    [k EXCEPT !.screen = k.picture[p],
              !.picture = [k.picture EXCEPT ![k.current] = k.picture[p]],
              !.onScreen = [@ EXCEPT ![k.current] = FALSE, ![p] = TRUE],
              !.current = p]

(* process_switch: process_save, then process_restore, which maps the old  *)
(* task to its private video memory and the new one to the screen.         *)
process_switch(k, p) ==
    LET saved == [k.picture EXCEPT ![k.current] = k.screen]
    IN  [k EXCEPT !.picture = saved,
                  !.screen = saved[p],
                  !.onScreen = [@ EXCEPT ![k.current] = FALSE, ![p] = TRUE],
                  !.current = p]

(* process_get_first_ignore *)
IsFirstIgnore(k, p, q) ==
    \E s \in Slot : /\ q = k.processes[s] /\ q \notin {NULL, p}
                    /\ \A r \in Slot : r < s => k.processes[r] \in {NULL, p}

(* What process_free frees of p, and the slot it clears. *)
Erase(k, p) == [k EXCEPT !.allocated = @ \ {p},
                         !.onScreen = [@ EXCEPT ![p] = FALSE],
                         !.picture = [@ EXCEPT ![p] = Blank],
                         !.faulty = [@ EXCEPT ![p] = FALSE],
                         !.processes = [@ EXCEPT ![k.id[p]] = NULL]]

(* Seeded bug: current_process is not moved off the process that is freed. *)
FreeWithoutSwitch(k, p) == {Erase(k, p)}

(* process_free of p, after it made sure that there is another process.    *)
(* No process has a parent, so there are no subprocesses to terminate.     *)
process_free(k, p) ==
    {Erase(IF k.current = p THEN process_switch(k, q) ELSE k, p) :
        q \in {r \in Block : IsFirstIgnore(k, p, r)}}

(* process_load_for_slot into a free slot, when all goes well. *)
Load(k, s, b) ==
    [k EXCEPT !.allocated = @ \cup {b},
              !.id = [@ EXCEPT ![b] = s],
              !.onScreen = [@ EXCEPT ![b] = FALSE],
              !.picture = [@ EXCEPT ![b] = Blank],
              !.faulty = [@ EXCEPT ![b] = FALSE],
              !.processes = [@ EXCEPT ![s] = b]]

(* When it fails nothing that was allocated for the process is freed. *)
FailedLoad(k) ==
    {k} \cup {[k EXCEPT !.allocated = @ \cup {b}] : b \in Block \ k.allocated}

(* Load and process_start, which switches to the process. *)
LoadStart(k, s) ==
    FailedLoad(k) \cup
    {process_switch(Load(k, s, b), b) : b \in Block \ k.allocated}

(* process_load_start: the first free slot.  A process whose arguments     *)
(* cannot be injected stays loaded, and its task scheduled.                *)
IsFreeSlot(k, s) == /\ s \in Slot /\ k.processes[s] = NULL
                    /\ \A r \in Slot : r < s => k.processes[r] # NULL
FreeSlots(k) == {s \in Slot : IsFreeSlot(k, s)}
process_load_start(k) ==
    FailedLoad(k) \cup
    UNION {LoadStart(k, s) \cup {Load(k, s, b) : b \in Block \ k.allocated} :
              s \in FreeSlots(k)}

(* process_crash: terminate p and report the crash, if memory allows. *)
process_crash(k, p) ==
    LET terminated == process_free(k, p)
    IN  terminated \cup UNION {process_load_start(t) : t \in terminated}

-----------------------------------------------------------------------------
(* kernel_main: the task bar is the first process. *)
Init == \E b \in Block :
          /\ processes = [s \in Slot |-> IF s = 0 THEN b ELSE NULL]
          /\ current_process = b
          /\ id = [c \in Block |-> 0]
          /\ allocated = {b}
          /\ onScreen = [c \in Block |-> c = b]
          /\ picture = [c \in Block |-> Blank]
          /\ screen = Blank
          /\ running = b
          /\ halted = FALSE
          /\ faulty = [c \in Block |-> FALSE]

(* task_next *)
task_next == running' \in InTable(processes')

(***************************************************************************)
(* video_flush_back_buffer of a picture drawn by p: it goes through the    *)
(* page directory of the running task.                                     *)
(***************************************************************************)
video_draw(p) ==
    /\ IF onScreen[running]
       THEN screen' = p /\ UNCHANGED picture
       ELSE picture' = [picture EXCEPT ![running] = p] /\ UNCHANGED screen
    /\ UNCHANGED <<processes, current_process, id, allocated, onScreen, halted, faulty>>

(* The picture of the process in the foreground is drawn, unless the       *)
(* process has turned VIDEO_FLAG_AUTO_FLUSH off.                           *)
pit_interrupt ==
    /\ ~halted
    /\ \/ video_draw(current_process)
       \/ UNCHANGED <<processes, current_process, id, allocated, onScreen, halted,
                      faulty, picture, screen>>
    /\ task_next

isr80h_command20_video_buffer_flush ==
    /\ ~halted
    /\ video_draw(running)
    /\ UNCHANGED running

isr80h_command6_invoke ==
    /\ ~halted
    /\ \E k \in process_load_start(kernel) : Becomes(k)
    /\ UNCHANGED <<running, halted>>

(* fkeylistener_special, when the key of slot s is released. *)
fkeylistener_special(s) ==
    /\ ~halted
    /\ \/ /\ processes[s] # NULL
          /\ Becomes(process_switch(kernel, processes[s]))
       \/ /\ processes[s] = NULL
          /\ \E k \in LoadStart(kernel, s) : Becomes(k)
    /\ UNCHANGED <<running, halted>>

(* A fault of the running task, for which the handler crashes process p:   *)
(* process_free panics if there is no other process.                       *)
Fault(p) ==
    /\ ~halted
    /\ IF Live = {p}
       THEN /\ halted' = TRUE
            /\ UNCHANGED <<processes, current_process, id, allocated, onScreen,
                           picture, screen, running, faulty>>
       ELSE /\ \E k \in process_crash([kernel EXCEPT !.faulty[running] = TRUE], p) :
                  Becomes(k)
            /\ task_next
            /\ UNCHANGED halted

paging_handle_page_fault == Fault(running)
idt_general_protection_fault == Fault(current_process)

panic == halted /\ UNCHANGED vars

Next == \/ pit_interrupt
        \/ isr80h_command20_video_buffer_flush
        \/ isr80h_command6_invoke
        \/ \E s \in Slot : fkeylistener_special(s)
        \/ paging_handle_page_fault
        \/ idt_general_protection_fault
        \/ panic

Spec == Init /\ [][Next]_vars
-----------------------------------------------------------------------------
(* The types of the variables. *)
TypeOK == /\ processes \in [Slot -> Block \cup {NULL}]
          /\ current_process \in Block
          /\ id \in [Block -> Slot]
          /\ allocated \subseteq Block
          /\ onScreen \in [Block -> BOOLEAN]
          /\ picture \in [Block -> Block \cup {Blank}]
          /\ screen \in Block \cup {Blank}
          /\ running \in Block
          /\ halted \in BOOLEAN
          /\ faulty \in [Block -> BOOLEAN]

(* The table never holds a freed process, nor one process twice; each      *)
(* process knows its slot; and neither current_process nor the running     *)
(* task is left pointing at a process that was freed (process_free).       *)
TableSound == /\ Live \subseteq allocated
              /\ \A s \in Slot : processes[s] # NULL => id[processes[s]] = s
              /\ current_process \in Live
              /\ running \in Live

(* Of all processes exactly the one in the foreground writes to the real   *)
(* screen, whichever were started, switched to or killed, in what order    *)
(* (process_restore, task_map_video_memory).                               *)
ScreenHasOneOwner == \A p \in Live : onScreen[p] <=> p = current_process

(* A process can carry on where it left off (process_save, process_restore): *)
(* its private picture changes only when it leaves the foreground, to what *)
(* the screen shows, or when something is drawn while it runs; and when it *)
(* comes to the foreground the screen shows that picture.                  *)
CarriesOn ==
    [][/\ \A p \in Live \cap InTable(processes') :
             picture'[p] # picture[p] =>
                \/ p = running
                \/ p = current_process /\ picture'[p] \in {screen, Blank}
       /\ current_process' # current_process => screen' = picture'[current_process']]_vars

-----------------------------------------------------------------------------
(* What idt.c:110 says: the program that faulted is crashed.  So no        *)
(* program that has faulted is left in the table.                          *)
FaultingProgramIsCrashed == \A p \in Live : ~faulty[p]
=============================================================================
