--------------------------- MODULE ProcessProofs ----------------------------
(***************************************************************************)
(* For any number of slots and of memory blocks: no process is lost or     *)
(* freed twice by the table, the foreground alone writes to the screen,    *)
(* and every process carries on where it left off.  The invariant is one   *)
(* of the kernel's state, so that it can be followed through the operators *)
(* a handler is composed of.                                               *)
(***************************************************************************)
EXTENDS Process, TLAPS

Kernel == [processes : [Slot -> Block \cup {NULL}],
           current   : Block,
           id        : [Block -> Slot],
           allocated : SUBSET Block,
           onScreen  : [Block -> BOOLEAN],
           picture   : [Block -> Block \cup {Blank}],
           screen    : Block \cup {Blank},
           faulty    : [Block -> BOOLEAN]]

Sound(k) == /\ k \in Kernel
            /\ \A s \in Slot : k.processes[s] # NULL =>
                  k.id[k.processes[s]] = s /\ k.processes[s] \in k.allocated
            /\ k.current \in InTable(k.processes)
            /\ \A p \in InTable(k.processes) : k.onScreen[p] <=> p = k.current

PInv == Sound(kernel) /\ running \in Live /\ halted \in BOOLEAN

LEMMA TableMembers ==
  ASSUME NEW k \in Kernel
  PROVE  InTable(k.processes) \subseteq Block
  BY DEF InTable, Kernel

(* What process_switch leaves in each field. *)
Switched(k, p, n) ==
    /\ n \in Kernel
    /\ n.processes = k.processes /\ n.id = k.id /\ n.allocated = k.allocated
    /\ n.faulty = k.faulty /\ n.current = p
    /\ n.screen = n.picture[p]
    /\ \A x \in Block :
         n.picture[x] = IF x = k.current THEN k.screen ELSE k.picture[x]
    /\ \A x \in Block :
         n.onScreen[x] <=> x = p \/ (x # k.current /\ k.onScreen[x])

LEMMA SwitchFields ==
  ASSUME NEW k \in Kernel, NEW p \in Block, NEW n, n = process_switch(k, p)
  PROVE  Switched(k, p, n)
  BY DEF Switched, process_switch, Kernel

LEMMA SwitchSound ==
  ASSUME NEW k, Sound(k), NEW p \in InTable(k.processes)
  PROVE  Sound(process_switch(k, p))
<1> DEFINE n == process_switch(k, p)
<1>0. n = process_switch(k, p)
  OBVIOUS
<1> HIDE DEF n
<1>1. k \in Kernel /\ p \in Block /\ k.current \in Block
  BY TableMembers DEF Sound, Kernel
<1>2. /\ n \in Kernel
      /\ n.processes = k.processes /\ n.id = k.id /\ n.allocated = k.allocated
      /\ n.current = p
      /\ \A x \in Block : n.onScreen[x] <=> x = p \/ (x # k.current /\ k.onScreen[x])
  <2>1. Switched(k, p, n)
    BY <1>0, <1>1, SwitchFields
  <2>2. QED
    BY <2>1 DEF Switched
<1>3. \A x \in InTable(k.processes) : n.onScreen[x] <=> x = p
  <2>1. k.onScreen \in [Block -> BOOLEAN]
    BY <1>1 DEF Kernel
  <2>2. QED
    BY <1>1, <1>2, <2>1, TableMembers DEF Sound
<1>4. Sound(n)
  BY <1>2, <1>3 DEF Sound
<1>5. QED
  BY <1>0, <1>4

(* What Erase leaves in each field. *)
Erased(k, p, n) ==
    /\ n \in Kernel
    /\ \A s \in Slot : n.processes[s] = IF s = k.id[p] THEN NULL ELSE k.processes[s]
    /\ n.id = k.id /\ n.allocated = k.allocated \ {p}
    /\ n.current = k.current /\ n.screen = k.screen
    /\ \A x \in Block : n.picture[x] = IF x = p THEN Blank ELSE k.picture[x]
    /\ \A x \in Block : n.onScreen[x] <=> x # p /\ k.onScreen[x]

LEMMA EraseFields ==
  ASSUME NEW k \in Kernel, NEW p \in Block, NEW n, n = Erase(k, p)
  PROVE  Erased(k, p, n)
  BY DEF Erased, Erase, Kernel

(* Freeing p takes p alone out of the table. *)
LEMMA EraseSound ==
  ASSUME NEW k, Sound(k), NEW p \in InTable(k.processes), p # k.current
  PROVE  Sound(Erase(k, p)) /\ InTable(Erase(k, p).processes) = InTable(k.processes) \ {p}
<1> DEFINE n == Erase(k, p)
<1>0. n = Erase(k, p)
  OBVIOUS
<1> HIDE DEF n
<1>1. k \in Kernel /\ p \in Block
  BY TableMembers DEF Sound
<1>2. /\ n \in Kernel
      /\ \A s \in Slot : n.processes[s] = IF s = k.id[p] THEN NULL ELSE k.processes[s]
      /\ n.id = k.id /\ n.allocated = k.allocated \ {p}
      /\ n.current = k.current
      /\ \A x \in Block : n.onScreen[x] <=> x # p /\ k.onScreen[x]
  <2>1. Erased(k, p, n)
    BY <1>0, <1>1, EraseFields
  <2>2. QED
    BY <2>1 DEF Erased
<1>3. k.id[p] \in Slot /\ k.processes[k.id[p]] = p /\ p # NULL
  BY DEF Sound, InTable
<1>4. \A s \in Slot : n.processes[s] = IF k.processes[s] = p THEN NULL ELSE k.processes[s]
  <2>1. \A s \in Slot : k.processes[s] = p => s = k.id[p]
    BY <1>3 DEF Sound
  <2>2. k.processes \in [Slot -> Block \cup {NULL}]
    BY <1>1 DEF Kernel
  <2>3. QED
    BY <1>2, <1>3, <2>1, <2>2
<1>5. InTable(n.processes) = InTable(k.processes) \ {p}
  BY <1>3, <1>4 DEF InTable
<1>6. \A x \in InTable(n.processes) : n.onScreen[x] <=> x = n.current
  <2>1. k.onScreen \in [Block -> BOOLEAN]
    BY <1>1 DEF Kernel
  <2>2. QED
    BY <1>1, <1>2, <1>5, <2>1, TableMembers DEF Sound
<1>7. Sound(n)
  BY <1>2, <1>4, <1>5, <1>6 DEF Sound
<1>8. QED
  BY <1>0, <1>5, <1>7

(* What Load leaves in each field. *)
Loaded(k, s, b, n) ==
    /\ n \in Kernel
    /\ \A r \in Slot : n.processes[r] = IF r = s THEN b ELSE k.processes[r]
    /\ \A x \in Block : n.id[x] = IF x = b THEN s ELSE k.id[x]
    /\ n.allocated = k.allocated \cup {b}
    /\ n.current = k.current /\ n.screen = k.screen
    /\ \A x \in Block : n.picture[x] = IF x = b THEN Blank ELSE k.picture[x]
    /\ \A x \in Block : n.onScreen[x] <=> x # b /\ k.onScreen[x]

LEMMA LoadFields ==
  ASSUME NEW k \in Kernel, NEW s \in Slot, NEW b \in Block, NEW n, n = Load(k, s, b)
  PROVE  Loaded(k, s, b, n)
  BY DEF Loaded, Load, Kernel

(* Loading into a free slot adds the new process to the table. *)
LEMMA LoadSound ==
  ASSUME NEW k, Sound(k), NEW s \in Slot, k.processes[s] = NULL,
         NEW b \in Block \ k.allocated
  PROVE  Sound(Load(k, s, b)) /\ InTable(Load(k, s, b).processes) = InTable(k.processes) \cup {b}
<1> DEFINE n == Load(k, s, b)
<1>0. n = Load(k, s, b)
  OBVIOUS
<1> HIDE DEF n
<1>1. k \in Kernel /\ b \in Block /\ b # NULL
  BY ProcessAssumption DEF Sound
<1>2. /\ n \in Kernel
      /\ \A r \in Slot : n.processes[r] = IF r = s THEN b ELSE k.processes[r]
      /\ \A x \in Block : n.id[x] = IF x = b THEN s ELSE k.id[x]
      /\ n.allocated = k.allocated \cup {b}
      /\ n.current = k.current
      /\ \A x \in Block : n.onScreen[x] <=> x # b /\ k.onScreen[x]
  BY <1>0, <1>1, LoadFields DEF Loaded
<1>3. /\ k.processes \in [Slot -> Block \cup {NULL}] /\ k.id \in [Block -> Slot]
      /\ k.onScreen \in [Block -> BOOLEAN] /\ InTable(k.processes) \subseteq Block
  BY <1>1, TableMembers DEF Kernel
<1>4. InTable(k.processes) \subseteq k.allocated
  BY DEF Sound, InTable
<1>5. \A r \in Slot : n.processes[r] = IF r = s THEN b ELSE k.processes[r]
  BY <1>2, <1>3
<1>6. InTable(n.processes) = InTable(k.processes) \cup {b}
  BY <1>1, <1>5 DEF InTable
<1>7. \A r \in Slot : n.processes[r] # NULL =>
         n.id[n.processes[r]] = r /\ n.processes[r] \in n.allocated
  <2>1. SUFFICES ASSUME NEW r \in Slot, n.processes[r] # NULL
                 PROVE  n.id[n.processes[r]] = r /\ n.processes[r] \in n.allocated
    OBVIOUS
  <2>2. CASE r = s
    BY <1>1, <1>2, <1>3, <1>5, <2>2
  <2>3. CASE r # s
    <3>1. k.processes[r] # NULL /\ n.processes[r] = k.processes[r]
      BY <1>5, <2>1, <2>3
    <3>2. k.id[k.processes[r]] = r /\ k.processes[r] \in k.allocated
      BY <3>1 DEF Sound
    <3>3. QED
      BY <1>1, <1>2, <1>3, <3>1, <3>2
  <2>4. QED
    BY <2>2, <2>3
<1>8. \A x \in InTable(n.processes) : n.onScreen[x] <=> x = n.current
  <2>1. k.current \in InTable(k.processes) /\ k.current # b
        /\ \A x \in InTable(k.processes) : k.onScreen[x] <=> x = k.current
    BY <1>4 DEF Sound
  <2>2. SUFFICES ASSUME NEW x \in InTable(n.processes)
                 PROVE  n.onScreen[x] <=> x = n.current
    OBVIOUS
  <2>3. x \in Block /\ (n.onScreen[x] <=> x # b /\ k.onScreen[x])
    BY <1>1, <1>2, <1>3, <1>6
  <2>4. CASE x = b
    BY <2>1, <2>3, <2>4, <1>2
  <2>5. CASE x # b
    <3>1. x \in InTable(k.processes)
      BY <2>5, <1>6
    <3>2. QED
      BY <3>1, <2>1, <2>3, <2>5, <1>2
  <2>6. QED
    BY <2>4, <2>5
<1>9. Sound(n)
  BY <1>2, <1>6, <1>7, <1>8 DEF Sound
<1>10. QED
  BY <1>0, <1>6, <1>9

-----------------------------------------------------------------------------
(***************************************************************************)
(* What loading a process does to the others: nothing, but that the one in *)
(* the foreground has its picture saved if the new one takes the screen.   *)
(***************************************************************************)
Moves(k, n) ==
    /\ InTable(k.processes) \subseteq InTable(n.processes)
    /\ \A x \in InTable(k.processes) :
          n.picture[x] # k.picture[x] => x = k.current /\ n.picture[x] = k.screen
    /\ \A x \in InTable(n.processes) \ InTable(k.processes) : n.picture[x] = Blank
    /\ n.current # k.current => n.screen = n.picture[n.current]
    /\ n.current = k.current =>
          n.screen = k.screen /\ n.picture[n.current] = k.picture[n.current]

LEMMA FailedLoadMoves ==
  ASSUME NEW k, Sound(k), NEW n \in FailedLoad(k)
  PROVE  Sound(n) /\ Moves(k, n)
<1>1. CASE n = k
  BY <1>1 DEF Moves
<1>2. CASE \E b \in Block \ k.allocated : n = [k EXCEPT !.allocated = @ \cup {b}]
  <2>1. /\ n \in Kernel /\ n.processes = k.processes /\ n.id = k.id
        /\ n.current = k.current /\ n.screen = k.screen /\ n.picture = k.picture
        /\ n.onScreen = k.onScreen /\ k.allocated \subseteq n.allocated
    BY <1>2 DEF Sound, Kernel
  <2>2. QED
    BY <2>1 DEF Sound, Moves
<1>3. QED
  BY <1>1, <1>2 DEF FailedLoad

LEMMA LoadMoves ==
  ASSUME NEW k, Sound(k), NEW s \in Slot, k.processes[s] = NULL,
         NEW b \in Block \ k.allocated, NEW n, n = Load(k, s, b)
  PROVE  Sound(n) /\ Moves(k, n) /\ b \in InTable(n.processes) /\ n.picture[b] = Blank
<1>1. Sound(n) /\ InTable(n.processes) = InTable(k.processes) \cup {b}
  BY LoadSound
<1>2. /\ n.current = k.current /\ n.screen = k.screen
      /\ \A x \in Block : n.picture[x] = IF x = b THEN Blank ELSE k.picture[x]
  BY LoadFields DEF Sound, Loaded
<1>3. k.current \in InTable(k.processes) /\ InTable(k.processes) \subseteq k.allocated
      /\ InTable(k.processes) \subseteq Block
  BY TableMembers DEF Sound, InTable
<1>4. QED
  BY <1>1, <1>2, <1>3 DEF Moves

LEMMA LoadSwitchMoves ==
  ASSUME NEW k, Sound(k), NEW s \in Slot, k.processes[s] = NULL,
         NEW b \in Block \ k.allocated, NEW n, n = process_switch(Load(k, s, b), b)
  PROVE  Sound(n) /\ Moves(k, n)
<1> DEFINE m == Load(k, s, b)
<1>0. m = Load(k, s, b) /\ n = process_switch(m, b)
  OBVIOUS
<1> HIDE DEF m
<1>1. Sound(m) /\ Moves(k, m) /\ b \in InTable(m.processes) /\ m.picture[b] = Blank
  BY <1>0, LoadMoves
<1>2. Sound(n)
  BY <1>0, <1>1, SwitchSound
<1>3. /\ n.processes = m.processes /\ n.current = b /\ n.screen = n.picture[b]
      /\ \A x \in Block : n.picture[x] = IF x = m.current THEN m.screen ELSE m.picture[x]
  <2>1. m \in Kernel /\ b \in Block
    BY <1>1, TableMembers DEF Sound
  <2>2. Switched(m, b, n)
    BY <1>0, <2>1, SwitchFields
  <2>3. QED
    BY <2>2 DEF Switched
<1>4. m.current = k.current /\ m.screen = k.screen
  BY <1>0, LoadFields DEF Sound, Loaded
<1>5. k.current \in InTable(k.processes) /\ InTable(k.processes) \subseteq k.allocated
      /\ InTable(m.processes) \subseteq Block
  BY <1>1, TableMembers DEF Sound, InTable
<1>6. Moves(k, n)
  BY <1>1, <1>3, <1>4, <1>5 DEF Moves
<1>7. QED
  BY <1>2, <1>6

LEMMA LoadStartMoves ==
  ASSUME NEW k, Sound(k), NEW s \in Slot, k.processes[s] = NULL, NEW n \in LoadStart(k, s)
  PROVE  Sound(n) /\ Moves(k, n)
  BY FailedLoadMoves, LoadSwitchMoves DEF LoadStart

LEMMA ProcessLoadStartMoves ==
  ASSUME NEW k, Sound(k), NEW n \in process_load_start(k)
  PROVE  Sound(n) /\ Moves(k, n)
<1>1. CASE n \in FailedLoad(k)
  BY <1>1, FailedLoadMoves
<1>2. ASSUME NEW s \in FreeSlots(k), n \in LoadStart(k, s)
      PROVE  Sound(n) /\ Moves(k, n)
  BY <1>2, LoadStartMoves DEF FreeSlots, IsFreeSlot
<1>3. ASSUME NEW s \in FreeSlots(k), NEW b \in Block \ k.allocated, n = Load(k, s, b)
      PROVE  Sound(n) /\ Moves(k, n)
  BY <1>3, LoadMoves DEF FreeSlots, IsFreeSlot
<1>4. \/ n \in FailedLoad(k)
      \/ \E s \in FreeSlots(k) : n \in LoadStart(k, s)
      \/ \E s \in FreeSlots(k) : \E b \in Block \ k.allocated : n = Load(k, s, b)
  BY DEF process_load_start
<1>5. QED
  BY <1>1, <1>2, <1>3, <1>4

(***************************************************************************)
(* Freeing p takes p out of the table; if it had the screen, another one   *)
(* of the table gets it, with its picture.                                 *)
(***************************************************************************)
Drops(k, p, n) ==
    /\ InTable(n.processes) = InTable(k.processes) \ {p}
    /\ \A x \in InTable(n.processes) : n.picture[x] = k.picture[x]
    /\ p # k.current => n.current = k.current /\ n.screen = k.screen
    /\ p = k.current => n.current # p /\ n.screen = n.picture[n.current]

LEMMA FreeDrops ==
  ASSUME NEW k, Sound(k), NEW p \in InTable(k.processes), NEW n \in process_free(k, p)
  PROVE  Sound(n) /\ Drops(k, p, n)
<1>0. k \in Kernel /\ p \in Block /\ InTable(k.processes) \subseteq Block
      /\ k.current \in InTable(k.processes)
  BY TableMembers DEF Sound
<1>1. PICK q \in Block : /\ IsFirstIgnore(k, p, q)
                         /\ n = Erase(IF k.current = p THEN process_switch(k, q) ELSE k, p)
  BY DEF process_free
<1>2. q \in InTable(k.processes) /\ q # p
  BY <1>1 DEF IsFirstIgnore, InTable
<1>3. CASE k.current = p
  <2> DEFINE m == process_switch(k, q)
  <2>0. m = process_switch(k, q) /\ n = Erase(m, p)
    BY <1>1, <1>3
  <2> HIDE DEF m
  <2>1. Sound(m)
    BY <2>0, <1>2, SwitchSound
  <2>2. /\ m.processes = k.processes /\ m.current = q /\ m.screen = m.picture[q]
        /\ \A x \in Block : m.picture[x] = IF x = k.current THEN k.screen ELSE k.picture[x]
    <3>1. Switched(k, q, m)
      BY <2>0, <1>0, SwitchFields
    <3>2. QED
      BY <3>1 DEF Switched
  <2>3. Sound(n) /\ InTable(n.processes) = InTable(k.processes) \ {p}
    BY <2>0, <2>1, <2>2, <1>2, EraseSound
  <2>4. /\ n.current = m.current /\ n.screen = m.screen
        /\ \A x \in Block : n.picture[x] = IF x = p THEN Blank ELSE m.picture[x]
    <3>1. Erased(m, p, n)
      BY <2>0, <2>1, <1>0, EraseFields DEF Sound
    <3>2. QED
      BY <3>1 DEF Erased
  <2>5. Drops(k, p, n)
    BY <1>0, <1>2, <1>3, <2>2, <2>3, <2>4 DEF Drops
  <2>6. QED
    BY <2>3, <2>5
<1>4. CASE k.current # p
  <2>0. n = Erase(k, p)
    BY <1>1, <1>4
  <2>1. Sound(n) /\ InTable(n.processes) = InTable(k.processes) \ {p}
    BY <2>0, <1>4, EraseSound
  <2>2. /\ n.current = k.current /\ n.screen = k.screen
        /\ \A x \in Block : n.picture[x] = IF x = p THEN Blank ELSE k.picture[x]
    <3>1. Erased(k, p, n)
      BY <2>0, <1>0, EraseFields
    <3>2. QED
      BY <3>1 DEF Erased
  <2>3. QED
    BY <1>0, <1>4, <2>1, <2>2 DEF Drops
<1>5. QED
  BY <1>3, <1>4

(***************************************************************************)
(* CarriesOn of a step that takes the kernel from k to n, where r runs.    *)
(***************************************************************************)
Carries(k, n, r) ==
    /\ \A p \in InTable(k.processes) \cap InTable(n.processes) :
          n.picture[p] # k.picture[p] =>
             \/ p = r
             \/ p = k.current /\ n.picture[p] \in {k.screen, Blank}
    /\ n.current # k.current => n.screen = n.picture[n.current]

LEMMA CrashCarries ==
  ASSUME NEW k, Sound(k), NEW p \in InTable(k.processes), NEW r, p \in {r, k.current},
         NEW n \in process_crash(k, p)
  PROVE  Sound(n) /\ Carries(k, n, r)
<1>1. PICK m \in process_free(k, p) : n = m \/ n \in process_load_start(m)
  BY DEF process_crash
<1>2. Sound(m) /\ Drops(k, p, m)
  BY FreeDrops
<1>3. Sound(n) /\ Moves(m, n)
  <2>1. CASE n = m
    BY <1>2, <2>1 DEF Moves
  <2>2. CASE n \in process_load_start(m)
    BY <1>2, <2>2, ProcessLoadStartMoves
  <2>3. QED
    BY <1>1, <2>1, <2>2
<1>4. m.current \in InTable(m.processes)
  BY <1>2 DEF Sound
<1>5. ASSUME NEW x \in InTable(k.processes) \cap InTable(n.processes),
             n.picture[x] # k.picture[x]
      PROVE  x = r \/ (x = k.current /\ n.picture[x] \in {k.screen, Blank})
  <2>1. CASE x = p
    BY <1>2, <1>3, <2>1 DEF Drops, Moves
  <2>2. CASE x # p
    <3>1. x \in InTable(m.processes) /\ m.picture[x] = k.picture[x]
      BY <1>2, <2>2 DEF Drops
    <3>2. x = m.current /\ n.picture[x] = m.screen
      BY <1>3, <1>5, <3>1 DEF Moves
    <3>3. QED
      BY <1>2, <1>5, <3>1, <3>2 DEF Drops
  <2>3. QED
    BY <2>1, <2>2
<1>6. ASSUME n.current # k.current PROVE n.screen = n.picture[n.current]
  BY <1>2, <1>3, <1>6 DEF Drops, Moves
<1>7. QED
  BY <1>3, <1>5, <1>6 DEF Carries

-----------------------------------------------------------------------------
(* A handler that ends in state n of the kernel. *)
LEMMA BecomesKernel ==
  ASSUME NEW n \in Kernel, Becomes(n)
  PROVE  kernel' = n
  BY DEF Becomes, kernel, Kernel

LEMMA InitPInv == Init => PInv
<1>1. SUFFICES ASSUME NEW b \in Block, Init, current_process = b,
                      processes = [s \in Slot |-> IF s = 0 THEN b ELSE NULL],
                      allocated = {b}, running = b,
                      onScreen = [c \in Block |-> c = b]
               PROVE  PInv
  BY DEF Init
<1>2. 0 \in Slot /\ b # NULL
  BY ProcessAssumption DEF Slot
<1>3. Live = {b} /\ \A s \in Slot : processes[s] # NULL => s = 0 /\ processes[s] = b
  BY <1>1, <1>2 DEF Live, InTable
<1>4. kernel \in Kernel
  BY <1>1, <1>2 DEF Kernel, kernel, Init
<1>5. id[b] = 0 /\ onScreen[b]
  BY <1>1 DEF Init
<1>6. Sound(kernel)
  BY <1>1, <1>3, <1>4, <1>5 DEF Sound, kernel, Live
<1>7. QED
  BY <1>1, <1>3, <1>6 DEF PInv, Init

(* Drawing writes to the screen or to the running task's video memory. *)
LEMMA DrawStep ==
  ASSUME PInv, NEW p \in Live, video_draw(p)
  PROVE  Sound(kernel)' /\ Carries(kernel, kernel', running) /\ UNCHANGED <<processes, halted>>
<1>1. p \in Block /\ kernel \in Kernel
  BY TableMembers DEF PInv, Sound, Live, kernel
<1>2. /\ UNCHANGED <<processes, current_process, id, allocated, onScreen, halted, faulty>>
      /\ screen' \in Block \cup {Blank} /\ picture' \in [Block -> Block \cup {Blank}]
      /\ \A x \in Block : x # running => picture'[x] = picture[x]
  BY <1>1 DEF video_draw, kernel, Kernel
<1>3. kernel' \in Kernel
  BY <1>1, <1>2 DEF kernel, Kernel
<1>4. Sound(kernel)'
  BY <1>2, <1>3 DEF PInv, Sound, kernel
<1>5. InTable(processes) \subseteq Block
  BY <1>1, TableMembers DEF kernel
<1>6. Carries(kernel, kernel', running)
  BY <1>2, <1>5 DEF Carries, kernel
<1>7. QED
  BY <1>2, <1>4, <1>6

LEMMA StutterStep ==
  ASSUME PInv, UNCHANGED <<processes, current_process, id, allocated, onScreen, faulty,
                           picture, screen>>
  PROVE  Sound(kernel)' /\ Carries(kernel, kernel', running)
  BY DEF PInv, Sound, kernel, Carries

LEMMA PitStep ==
  ASSUME PInv, pit_interrupt
  PROVE  PInv' /\ Carries(kernel, kernel', running)
<1>1. Sound(kernel)' /\ Carries(kernel, kernel', running) /\ UNCHANGED <<processes, halted>>
  <2>1. CASE video_draw(current_process)
    <3>1. current_process \in Live
      BY DEF PInv, Sound, Live, kernel
    <3>2. QED
      BY <2>1, <3>1, DrawStep
  <2>2. CASE ~video_draw(current_process)
    BY <2>2, StutterStep DEF pit_interrupt
  <2>3. QED
    BY <2>1, <2>2
<1>2. QED
  BY <1>1 DEF PInv, pit_interrupt, task_next, Live

(* A load, whichever slot it goes to, leaves the running task in the table. *)
LEMMA LoadStep ==
  ASSUME PInv, NEW n, Sound(n), Moves(kernel, n), Becomes(n), UNCHANGED <<running, halted>>
  PROVE  PInv' /\ Carries(kernel, kernel', running)
<1>1. kernel' = n
  BY BecomesKernel DEF Sound
<1>2. Live' = InTable(n.processes) /\ Live = InTable(kernel.processes)
  BY <1>1 DEF Live, kernel, Becomes
<1>3. running' \in Live'
  BY <1>2 DEF PInv, Moves
<1>4. Carries(kernel, n, running)
  BY DEF Moves, Carries
<1>5. QED
  BY <1>1, <1>3, <1>4 DEF PInv

LEMMA FKeyStep ==
  ASSUME PInv, NEW s \in Slot, fkeylistener_special(s)
  PROVE  PInv' /\ Carries(kernel, kernel', running)
<1>1. CASE processes[s] = NULL
  <2>1. PICK n \in LoadStart(kernel, s) : Becomes(n)
    BY <1>1 DEF fkeylistener_special
  <2>2. Sound(n) /\ Moves(kernel, n)
    BY <1>1, LoadStartMoves DEF PInv, kernel
  <2>3. QED
    BY <2>1, <2>2, LoadStep DEF fkeylistener_special
<1>2. CASE processes[s] # NULL
  <2> DEFINE p == processes[s]
  <2> DEFINE n == process_switch(kernel, p)
  <2>0. n = process_switch(kernel, p) /\ Becomes(n)
    BY <1>2 DEF fkeylistener_special
  <2>1. p \in InTable(kernel.processes) /\ kernel \in Kernel /\ p \in Block
    BY <1>2, TableMembers DEF InTable, kernel, PInv, Sound
  <2> HIDE DEF n, p
  <2>2. Sound(n)
    BY <2>0, <2>1, SwitchSound DEF PInv
  <2>3. kernel' = n
    BY <2>0, <2>2, BecomesKernel DEF Sound
  <2>4. Switched(kernel, p, n)
    BY <2>0, <2>1, SwitchFields
  <2>5. /\ n.processes = kernel.processes /\ n.current = p /\ n.screen = n.picture[p]
        /\ \A x \in Block : n.picture[x] =
              IF x = kernel.current THEN kernel.screen ELSE kernel.picture[x]
    BY <2>4 DEF Switched
  <2>6. Carries(kernel, n, running)
    BY <2>1, <2>5, TableMembers DEF Carries
  <2>7. Live' = Live
    BY <2>3, <2>5 DEF Live, kernel
  <2>8. QED
    BY <2>2, <2>3, <2>6, <2>7 DEF PInv, fkeylistener_special
<1>3. QED
  BY <1>1, <1>2

LEMMA FaultStep ==
  ASSUME PInv, NEW p \in {running, current_process}, Fault(p)
  PROVE  PInv' /\ Carries(kernel, kernel', running)
<1> DEFINE k == [kernel EXCEPT !.faulty[running] = TRUE]
<1>1. /\ k.processes = processes /\ k.current = current_process /\ k.id = id
      /\ k.allocated = allocated /\ k.onScreen = onScreen
      /\ k.picture = picture /\ k.screen = screen
  BY DEF kernel
<1>2. k \in Kernel
  BY DEF PInv, Sound, Kernel, kernel
<1>3. CASE Live = {p}
  <2>1. UNCHANGED <<processes, current_process, id, allocated, onScreen, picture,
                    screen, running, faulty>> /\ halted' = TRUE
    BY <1>3 DEF Fault
  <2>2. QED
    BY <2>1, StutterStep DEF PInv, Live
<1>4. CASE Live # {p}
  <2>1. PICK n \in process_crash(k, p) : Becomes(n)
    BY <1>4 DEF Fault
  <2>2. task_next /\ UNCHANGED halted
    BY <1>4 DEF Fault
  <2> HIDE DEF k
  <2>3. Sound(k)
    BY <1>1, <1>2 DEF PInv, Sound, kernel
  <2>4. p \in InTable(k.processes) /\ p \in {running, k.current}
    BY <1>1 DEF PInv, Sound, Live, kernel
  <2>5. Sound(n) /\ Carries(k, n, running)
    BY <2>1, <2>3, <2>4, CrashCarries
  <2>6. kernel' = n
    BY <2>1, <2>5, BecomesKernel DEF Sound
  <2>7. Carries(kernel, n, running)
    BY <1>1, <2>5 DEF Carries, kernel
  <2>8. QED
    BY <2>2, <2>5, <2>6, <2>7 DEF PInv, task_next, Live
<1>5. QED
  BY <1>3, <1>4

LEMMA PStep ==
  ASSUME PInv, [Next]_vars
  PROVE  PInv' /\ Carries(kernel, kernel', running)
<1>1. CASE pit_interrupt
  BY <1>1, PitStep
<1>2. CASE isr80h_command20_video_buffer_flush
  <2>1. running \in Live
    BY DEF PInv
  <2>2. video_draw(running) /\ UNCHANGED running
    BY <1>2 DEF isr80h_command20_video_buffer_flush
  <2>3. QED
    BY <2>1, <2>2, DrawStep DEF PInv, Live
<1>3. CASE isr80h_command6_invoke
  <2>1. PICK n \in process_load_start(kernel) : Becomes(n)
    BY <1>3 DEF isr80h_command6_invoke
  <2>2. Sound(n) /\ Moves(kernel, n)
    BY ProcessLoadStartMoves DEF PInv
  <2>3. QED
    BY <1>3, <2>1, <2>2, LoadStep DEF isr80h_command6_invoke
<1>4. CASE \E s \in Slot : fkeylistener_special(s)
  BY <1>4, FKeyStep
<1>5. CASE paging_handle_page_fault
  BY <1>5, FaultStep DEF paging_handle_page_fault
<1>6. CASE idt_general_protection_fault
  BY <1>6, FaultStep DEF idt_general_protection_fault
<1>7. CASE UNCHANGED vars
  BY <1>7, StutterStep DEF vars, PInv, Live
<1>8. QED
  BY <1>1, <1>2, <1>3, <1>4, <1>5, <1>6, <1>7 DEF Next, panic

LEMMA PInvHolds == Spec => []PInv
<1>1. PInv /\ [Next]_vars => PInv'
  BY PStep
<1>2. QED
  BY <1>1, InitPInv, PTL DEF Spec

-----------------------------------------------------------------------------
(* The variables of the process table and of the screen keep their types. *)
THEOREM ProcessTypes == Spec => []TypeOK
<1>1. PInv => TypeOK
  <2>1. SUFFICES ASSUME PInv PROVE TypeOK
    OBVIOUS
  <2>2. kernel \in Kernel /\ kernel.processes = processes
    BY <2>1 DEF PInv, Sound, kernel
  <2>3. running \in Block /\ halted \in BOOLEAN
    BY <2>1, <2>2, TableMembers DEF PInv, Live
  <2>4. /\ processes \in [Slot -> Block \cup {NULL}] /\ current_process \in Block
        /\ id \in [Block -> Slot] /\ allocated \subseteq Block
        /\ onScreen \in [Block -> BOOLEAN]
        /\ picture \in [Block -> Block \cup {Blank}] /\ screen \in Block \cup {Blank}
        /\ faulty \in [Block -> BOOLEAN]
    BY <2>2 DEF Kernel, kernel
  <2>5. QED
    BY <2>3, <2>4 DEF TypeOK
<1>2. QED
  BY <1>1, PInvHolds, PTL

(* The table, current_process and the running task never refer to a process *)
(* that was freed (process_free, process_crash).                            *)
THEOREM TableIsSound == Spec => []TableSound
<1>1. PInv => TableSound
  BY DEF PInv, Sound, TableSound, kernel, Live, InTable
<1>2. QED
  BY <1>1, PInvHolds, PTL

(* The foreground alone writes to the screen (process_restore). *)
THEOREM OneOwnerOfScreen == Spec => []ScreenHasOneOwner
<1>1. PInv => ScreenHasOneOwner
  BY DEF PInv, Sound, ScreenHasOneOwner, kernel, Live
<1>2. QED
  BY <1>1, PInvHolds, PTL

(* A process finds the picture it left (process_save, process_restore). *)
THEOREM PicturesCarryOn == Spec => CarriesOn
<1> DEFINE A == /\ \A p \in Live \cap InTable(processes') :
                      picture'[p] # picture[p] =>
                         \/ p = running
                         \/ p = current_process /\ picture'[p] \in {screen, Blank}
                /\ current_process' # current_process => screen' = picture'[current_process']
<1>1. Carries(kernel, kernel', running) => A
  BY DEF Carries, kernel, Live
<1>2. PInv /\ [Next]_vars => [A]_vars
  BY <1>1, PStep
<1>3. QED
  BY <1>2, PInvHolds, PTL DEF Spec, CarriesOn
=============================================================================
