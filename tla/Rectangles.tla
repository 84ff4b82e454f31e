----------------------------- MODULE Rectangles -----------------------------
(***************************************************************************)
(* The rectangles of video/rectangle.c: memory that the videos of several  *)
(* processes share by a count of their users, and that is found by name in *)
(* a table that is no user.                                                *)
(*                                                                         *)
(* The handlers of the kernel are functions from its state to the set of   *)
(* states they may leave.  Each process has a video of its own, and is     *)
(* named by it.  Any process may be the one that runs; which comes to the  *)
(* foreground when that one is freed is left open here (module Process     *)
(* says which).  Pixels are left out.                                      *)
(*                                                                         *)
(* A freed rectangle that is written to ends what the model knows: the     *)
(* memory may be anything by then (misused).                               *)
(***************************************************************************)
EXTENDS Integers, Sequences, FiniteSets, Queue

CONSTANTS Process,    \* the memory blocks of processes and their videos
          Rect,       \* the memory blocks of struct video_rectangle
          Name,       \* the names rectangles are published by, up to case
          Taskbar,    \* the name "taskbar"
          NPublish,   \* COS32_VIDEO_RECTANGLES_MAX_PUBLISHABLE
          NULL        \* no rectangle, no name, no process

ASSUME RectanglesAssumption ==
    /\ Taskbar \in Name
    /\ NPublish \in Nat
    /\ IsFiniteSet(Process)
    /\ NULL \notin Process \cup Rect \cup Name

VARIABLES live,        \* the processes of the table
          videos,      \* the processes whose video is allocated
          foreground,  \* current_process
          rectangles,  \* video->rectangles
          printing,    \* video->printing_rectangle
          held,        \* the rectangles kheap holds
          shared,      \* rectangle->shared
          name,        \* rectangle->name
          published,   \* published_video_rectangles
          given,       \* history: the pointers command8 gave to programs
          made,        \* history: who made the rectangle, if it was in the foreground
          misused,     \* history: freed memory was written to
          halted       \* panic()

kernel == [live |-> live, videos |-> videos, foreground |-> foreground,
           rectangles |-> rectangles, printing |-> printing, held |-> held,
           shared |-> shared, name |-> name, published |-> published,
           given |-> given, made |-> made, misused |-> misused]
kernelVars == <<live, videos, foreground, rectangles, printing, held, shared, name,
                published, given, made, misused>>
vars == <<kernelVars, halted>>

Becomes(k) == /\ live' = k.live
              /\ videos' = k.videos
              /\ foreground' = k.foreground
              /\ rectangles' = k.rectangles
              /\ printing' = k.printing
              /\ held' = k.held
              /\ shared' = k.shared
              /\ name' = k.name
              /\ published' = k.published
              /\ given' = k.given
              /\ made' = k.made
              /\ misused' = k.misused

PublishSlot == 1 .. NPublish

-----------------------------------------------------------------------------
(* Seeded bug: a rectangle that is registered is not counted.              *)
RegisterUncounted(k, p, r) == [k EXCEPT !.rectangles[p] = Append(@, r)]

(* video_rectangle_register *)
video_rectangle_register(k, p, r) ==
    [k EXCEPT !.shared[r] = @ + 1, !.rectangles[p] = Append(@, r)]

(* video_rectangle_new: r is memory of the heap, all zero. *)
video_rectangle_new(k, p, r) ==
    video_rectangle_register(
        [k EXCEPT !.held = @ \cup {r}, !.shared[r] = 0, !.name[r] = NULL, !.made[r] = NULL],
        p, r)

(* Memory that is freed: what it holds is not read again, or may be        *)
(* anything.                                                               *)
Free(k, gone) == [k EXCEPT !.held = @ \ gone,
                           !.shared = [r \in Rect |-> IF r \in gone THEN 0 ELSE @[r]],
                           !.name = [r \in Rect |-> IF r \in gone THEN NULL ELSE @[r]]]

(* Seeded bug: the first user who leaves frees the rectangle.              *)
FreeAtOnce(k, p) == Free(k, Members(k.rectangles[p]))

(* video_rectangles_free: one user less for each rectangle of the list,    *)
(* and those without a user are freed.  The list itself goes with it.      *)
video_rectangles_free(k, p) ==
    LET left == [r \in Rect |->
                   k.shared[r] - Cardinality({i \in DOMAIN k.rectangles[p] :
                                                k.rectangles[p][i] = r})]
    IN  Free([k EXCEPT !.shared = left],
             {r \in Members(k.rectangles[p]) : left[r] <= 0})

(***************************************************************************)
(* What the walk over the published rectangles may find: a freed one still *)
(* has some name, and it may be n.  An empty slot is read as well, at      *)
(* address NULL, where there is no such name.                              *)
(***************************************************************************)
MayMatch(k, i, n) ==
    /\ k.published[i] # NULL
    /\ k.published[i] \in k.held => k.name[k.published[i]] = n

Matches(k, i, n) == MayMatch(k, i, n) /\ k.published[i] \in k.held

video_rectangle_get(k, n) ==
    {k.published[i] : i \in {j \in PublishSlot :
        MayMatch(k, j, n) /\ \A h \in PublishSlot : h < j => ~Matches(k, h, n)}}
    \cup {NULL : i \in {j \in {0} : \A h \in PublishSlot : ~Matches(k, h, n)}}

(* video_rectangle_is_published *)
video_rectangle_is_published(k, n) == {r # NULL : r \in video_rectangle_get(k, n)}

(* video_rectangle_publish_insert, which fails when the table is full. *)
video_rectangle_publish_insert(k, r) ==
    LET free == {i \in PublishSlot : k.published[i] = NULL}
    IN  IF free = {} THEN k
        ELSE [k EXCEPT !.published[CHOOSE i \in free : \A j \in free : i <= j] = r]

(* Seeded bug: the name is not looked up first.                            *)
PublishUnchecked(k, n, r) ==
    {video_rectangle_publish_insert([k EXCEPT !.name[r] = n], r)}

(* video_rectangle_publish: the name is taken by nobody.  The rectangle    *)
(* gets it, be there room in the table or not.                             *)
video_rectangle_publish(k, n, r) ==
    {IF taken THEN k
     ELSE IF r \notin k.held THEN [k EXCEPT !.misused = TRUE]
     ELSE video_rectangle_publish_insert([k EXCEPT !.name[r] = n], r) :
        taken \in video_rectangle_is_published(k, n)}

(* video_rectangle_register_default_rectangles: the task bar, and one to   *)
(* print on.                                                               *)
video_rectangle_register_default_rectangles(k, p) ==
    UNION {IF taskbar = NULL THEN {k}
           ELSE IF taskbar \notin k.held THEN {[k EXCEPT !.misused = TRUE]}
           ELSE {[video_rectangle_new(video_rectangle_register(k, p, taskbar), p, r)
                    EXCEPT !.printing[p] = r] : r \in Rect \ k.held} :
             taskbar \in video_rectangle_get(k, Taskbar)}

-----------------------------------------------------------------------------
(* process_load_for_slot, from the video on; p is memory of the heap.  If  *)
(* there is no task to be had, the video is left as it is.                 *)
process_load_for_slot(k, p) ==
    LET video == [k EXCEPT !.videos = @ \cup {p}, !.rectangles[p] = <<>>,
                           !.printing[p] = NULL]
    IN  UNION {{v, [v EXCEPT !.live = @ \cup {p}]} :
                  v \in video_rectangle_register_default_rectangles(video, p)}

(* process_load_start: a process that is loaded may be left unstarted. *)
process_load_start(k) ==
    {k} \cup UNION {
        LET loaded == process_load_for_slot(k, p)
        IN  loaded \cup {[l EXCEPT !.foreground = p] : l \in {m \in loaded : p \in m.live}} :
            p \in Process \ k.videos}

(* process_free of p and, in it, video_free. *)
process_free(k, p) ==
    {[video_rectangles_free(k, p) EXCEPT !.foreground = q, !.live = @ \ {p},
          !.videos = @ \ {p}, !.rectangles[p] = <<>>, !.printing[p] = NULL,
          !.made = [r \in Rect |-> IF @[r] = p THEN NULL ELSE @[r]]] :
        q \in IF k.foreground = p THEN k.live \ {p} ELSE {k.foreground}}

process_crash(k, p) == UNION {process_load_start(f) : f \in process_free(k, p)}

-----------------------------------------------------------------------------
(* kernel_main: the task bar is the first process; nothing is published. *)
Init == \E p \in Process :
          /\ live = {p}
          /\ videos = {p}
          /\ foreground = p
          /\ rectangles = [q \in Process |-> <<>>]
          /\ printing = [q \in Process |-> NULL]
          /\ held = {}
          /\ shared = [r \in Rect |-> 0]
          /\ name = [r \in Rect |-> NULL]
          /\ published = [i \in PublishSlot |-> NULL]
          /\ given = {}
          /\ made = [r \in Rect |-> NULL]
          /\ misused = FALSE
          /\ halted = FALSE

Handler(results) == /\ ~halted /\ ~misused
                    /\ \E k \in results : Becomes(k)
                    /\ UNCHANGED halted

(* A rectangle is registered with the video of the foreground process,     *)
(* whoever asks for it.                                                    *)
NewForForeground(k, p, r) ==
    [video_rectangle_new(k, k.foreground, r) EXCEPT
        !.made[r] = IF k.foreground = p THEN p ELSE NULL]

isr80h_command8_video_rectangle_new(p) ==
    Handler({[NewForForeground(kernel, p, r) EXCEPT !.given = @ \cup {r}] :
                r \in Rect \ held})

(***************************************************************************)
(* The other commands take a pointer to a rectangle.  A program may have   *)
(* it from command8, or by name from command18, and nobody takes it away   *)
(* when the rectangle is freed.                                            *)
(***************************************************************************)
isr80h_command9_video_rectangle_set_pixel ==
    \E r \in given : Handler({[kernel EXCEPT !.misused = r \notin held]})

isr80h_command17_rectangle_publish ==
    \E n \in Name, r \in given : Handler(video_rectangle_publish(kernel, n, r))

isr80h_command6_invoke == Handler(process_load_start(kernel))

(* fkeylistener_special, for a process that is there; in an empty slot it   *)
(* loads one as isr80h_command6_invoke does.                               *)
fkeylistener_special(p) == Handler({[kernel EXCEPT !.foreground = p]})

(* process_crash of p by one fault handler or the other. *)
Fault(p) ==
    IF live = {p}
    THEN /\ ~halted /\ ~misused
         /\ halted' = TRUE
         /\ UNCHANGED kernelVars
    ELSE Handler(process_crash(kernel, p))

(* Nothing is said of what comes after. *)
panic == (halted \/ misused) /\ UNCHANGED vars

Next == \/ \E p \in live :
              \/ isr80h_command8_video_rectangle_new(p)
              \/ fkeylistener_special(p)
              \/ Fault(p)
        \/ isr80h_command9_video_rectangle_set_pixel
        \/ isr80h_command17_rectangle_publish
        \/ isr80h_command6_invoke
        \/ panic

Spec == Init /\ [][Next]_vars
-----------------------------------------------------------------------------
(* The types of the variables. *)
TypeOK ==
    /\ live \subseteq videos /\ videos \subseteq Process
    /\ foreground \in Process
    /\ rectangles \in [Process -> Seq(Rect)]
    /\ printing \in [Process -> Rect \cup {NULL}]
    /\ held \subseteq Rect
    /\ shared \in [Rect -> Int]
    /\ name \in [Rect -> Name \cup {NULL}]
    /\ published \in [PublishSlot -> Rect \cup {NULL}]
    /\ given \subseteq Rect
    /\ made \in [Rect -> Process \cup {NULL}]
    /\ misused \in BOOLEAN /\ halted \in BOOLEAN

(***************************************************************************)
(* rectangle->shared is the number of videos that list the rectangle, and  *)
(* the rectangle is held as long as there is one (rectangle.c:222): what   *)
(* video_draw walks, and the rectangle the terminal is pasted into, is     *)
(* never freed memory, and nothing without a user is kept.  It holds up to *)
(* the moment a freed rectangle is written to, which the table allows:     *)
(* there it can still be found by name (rectangle.c:231).                  *)
(***************************************************************************)
Users(r) == {p \in Process : r \in Members(rectangles[p])}

SharedCountsUsers ==
    ~misused =>
        /\ \A r \in held : shared[r] = Cardinality(Users(r)) /\ shared[r] > 0
        /\ \A p \in Process : Distinct(rectangles[p]) /\ Members(rectangles[p]) \subseteq held
        /\ \A p \in videos : printing[p] # NULL => printing[p] \in Members(rectangles[p])

(* The rectangles are shared as objects with a count should be.            *)
Shared == INSTANCE Sharing WITH Object <- Rect, User <- Process,
                                there <- held, users <- [r \in Rect |-> Users(r)]
ImplementsSharing == Shared!Spec

(***************************************************************************)
(* A process that made a rectangle while it was in the foreground has it   *)
(* as long as it lives, whoever else uses it and leaves (isr80h/video.c:15, *)
(* where a process in the background gets no such thing).                  *)
(***************************************************************************)
OwnRectangleLives ==
    ~misused => \A r \in Rect : made[r] \in live =>
                    r \in held /\ r \in Members(rectangles[made[r]])

(***************************************************************************)
(* A name leads to one rectangle: two that are held and in the table do    *)
(* not have the same name, through renaming, freeing and the reuse of      *)
(* memory the table still points to (rectangle.c:144).                     *)
(***************************************************************************)
NamesDiffer ==
    \A i, j \in PublishSlot :
        LET r == published[i]  s == published[j]
        IN  r \in held /\ s \in held /\ r # s /\ name[r] # NULL => name[r] # name[s]
=============================================================================
