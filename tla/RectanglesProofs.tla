-------------------------- MODULE RectanglesProofs --------------------------
(***************************************************************************)
(* For any number of processes, rectangles, names and slots of the table:  *)
(* the count of a rectangle is the number of its users, a rectangle is     *)
(* held while it has one, and a process has what it made.  The invariant   *)
(* is one of the kernel's state, so that it can be followed through the    *)
(* operators a handler is composed of.                                     *)
(***************************************************************************)
EXTENDS Rectangles, Lemmas, FiniteSetTheorems

Kernel == [live       : SUBSET Process,
           videos     : SUBSET Process,
           foreground : Process,
           rectangles : [Process -> Seq(Rect)],
           printing   : [Process -> Rect \cup {NULL}],
           held       : SUBSET Rect,
           shared     : [Rect -> Int],
           name       : [Rect -> Name \cup {NULL}],
           published  : [PublishSlot -> Rect \cup {NULL}],
           given      : SUBSET Rect,
           made       : [Rect -> Process \cup {NULL}],
           misused    : BOOLEAN]

UsersOf(k, r) == {p \in Process : r \in Members(k.rectangles[p])}

(* What the counts mean. *)
Counted(k) ==
    /\ \A p \in Process : Distinct(k.rectangles[p])
    /\ \A r \in Rect : r \in k.held <=> UsersOf(k, r) # {}
    /\ \A r \in k.held : k.shared[r] = Cardinality(UsersOf(k, r))

Sound(k) ==
    /\ k \in Kernel
    /\ Counted(k)
    /\ k.live \subseteq k.videos
    /\ k.foreground \in k.live
    /\ \A p \in Process \ k.videos : k.rectangles[p] = <<>>
    /\ \A p \in k.videos : k.printing[p] # NULL =>
          k.printing[p] \in Members(k.rectangles[p])
    /\ \A r \in Rect : k.made[r] # NULL => r \in Members(k.rectangles[k.made[r]])

(* Two rectangles that are held and in the table have names of their own.  *)
Named(k) ==
    \A i, j \in PublishSlot :
        LET r == k.published[i]  s == k.published[j]
        IN  r \in k.held /\ s \in k.held /\ r # s /\ k.name[r] # NULL => k.name[r] # k.name[s]

(* From k to n, those in gone leave what they use and u joins what it will. *)
UsersChange(k, n, gone, u) ==
    \A r \in Rect : UsersOf(n, r) \in {UsersOf(k, r) \ gone, (UsersOf(k, r) \ gone) \cup {u}}

(* From k to n, nothing gets a name, and nothing is published.             *)
NamesStay(k, n) ==
    /\ n.published = k.published
    /\ \A r \in n.held : n.name[r] # NULL => r \in k.held /\ n.name[r] = k.name[r]

Follows(k, n, gone, u) == UsersChange(k, n, gone, u) /\ NamesStay(k, n)

RInv == Sound(kernel) /\ Named(kernel) /\ halted \in BOOLEAN

-----------------------------------------------------------------------------
(* Users are finitely many. *)
LEMMA UsersFinite ==
  ASSUME NEW k, NEW r
  PROVE  IsFiniteSet(UsersOf(k, r))
<1>1. UsersOf(k, r) \in SUBSET Process
  BY DEF UsersOf
<1>2. QED
  BY <1>1, FS_Subset, RectanglesAssumption

(* A rectangle is on a list once, or not at all. *)
LEMMA OccursOnce ==
  ASSUME NEW q \in Seq(Rect), Distinct(q), NEW r
  PROVE  Cardinality({i \in DOMAIN q : q[i] = r}) = IF r \in Members(q) THEN 1 ELSE 0
<1> DEFINE S == {i \in DOMAIN q : q[i] = r}
<1>1. DOMAIN q = 1 .. Len(q)
  BY LenProperties
<1>2. CASE r \in Members(q)
  <2>1. PICK i \in 1 .. Len(q) : q[i] = r
    BY <1>2 DEF Members
  <2>2. S = {i}
    BY <1>1, <2>1 DEF Distinct
  <2>3. Cardinality({i}) = 1
    BY FS_Singleton
  <2>4. QED
    BY <1>2, <2>2, <2>3
<1>3. CASE r \notin Members(q)
  <2>1. S = {}
    BY <1>1, <1>3 DEF Members
  <2>2. QED
    BY <1>3, <2>1, FS_EmptySet
<1>4. QED
  BY <1>2, <1>3

LEMMA EmptyList == Distinct(<<>>) /\ Members(<<>>) = {}
  BY DEF Distinct, Members

(***************************************************************************)
(* A rectangle that p does not list is put on its list and counted.  Before *)
(* that it is either held and has users, or is new and has none.           *)
(***************************************************************************)
Joins(k, p, r, n) ==
    /\ n \in Kernel
    /\ n.live = k.live /\ n.videos = k.videos /\ n.foreground = k.foreground
    /\ n.rectangles = [k.rectangles EXCEPT ![p] = Append(@, r)]
    /\ n.held = k.held \cup {r}
    /\ \A x \in Rect : n.shared[x] =
          IF x # r THEN k.shared[x] ELSE IF r \in k.held THEN k.shared[r] + 1 ELSE 1
    /\ \A x \in Rect : n.made[x] = k.made[x] \/ n.made[x] = NULL
    /\ n.published = k.published
    /\ \A x \in Rect : n.name[x] = IF x \in k.held \/ x # r THEN k.name[x] ELSE NULL

OneUserMore(k, p, r, n) ==
    /\ \A q \in Process : Members(n.rectangles[q]) =
          IF q = p THEN Members(k.rectangles[q]) \cup {r} ELSE Members(k.rectangles[q])
    /\ \A x \in Rect : UsersOf(n, x) =
          IF x = r THEN UsersOf(k, r) \cup {p} ELSE UsersOf(k, x)

LEMMA JoinUsers ==
  ASSUME NEW k \in Kernel, NEW p \in Process, NEW r \in Rect, NEW n, Joins(k, p, r, n)
  PROVE  OneUserMore(k, p, r, n)
<1>1. k.rectangles \in [Process -> Seq(Rect)]
  BY DEF Kernel
<1>2. \A q \in Process : n.rectangles[q] =
         IF q = p THEN Append(k.rectangles[p], r) ELSE k.rectangles[q]
  BY <1>1 DEF Joins
<1>3. Members(Append(k.rectangles[p], r)) = Members(k.rectangles[p]) \cup {r}
  BY <1>1, AppendMembers
<1>4. \A q \in Process : Members(n.rectangles[q]) =
         IF q = p THEN Members(k.rectangles[q]) \cup {r} ELSE Members(k.rectangles[q])
  BY <1>2, <1>3
<1>5. QED
  BY <1>4 DEF OneUserMore, UsersOf

LEMMA JoinSound ==
  ASSUME NEW k, Sound(k), NEW p \in k.videos, NEW r \in Rect \ Members(k.rectangles[p]),
         NEW n, Joins(k, p, r, n),
         \A q \in Process : n.printing[q] # k.printing[q] => q = p /\ n.printing[q] = r
  PROVE  Sound(n)
<1>1. /\ k \in Kernel /\ n \in Kernel /\ p \in Process /\ r \in Rect
      /\ k.rectangles \in [Process -> Seq(Rect)]
  BY DEF Sound, Kernel, Joins
<1>. OneUserMore(k, p, r, n)
  BY <1>1, JoinUsers, Zenon
<1>2. /\ \A q \in Process : Members(n.rectangles[q]) =
            IF q = p THEN Members(k.rectangles[q]) \cup {r} ELSE Members(k.rectangles[q])
      /\ \A x \in Rect : UsersOf(n, x) =
            IF x = r THEN UsersOf(k, r) \cup {p} ELSE UsersOf(k, x)
  BY DEF OneUserMore
<1>3. \A q \in Process : Distinct(n.rectangles[q])
  <2>1. Distinct(Append(k.rectangles[p], r))
    BY <1>1, AppendMembers DEF Sound, Counted
  <2>2. \A q \in Process : n.rectangles[q] =
           IF q = p THEN Append(k.rectangles[p], r) ELSE k.rectangles[q]
    BY <1>1 DEF Joins
  <2>3. QED
    BY <2>1, <2>2 DEF Sound, Counted
<1>4. Counted(n)
  <2>1. \A x \in Rect : x \in n.held <=> UsersOf(n, x) # {}
    BY <1>2 DEF Joins, Sound, Counted
  <2>2. IsFiniteSet(UsersOf(k, r)) /\ p \notin UsersOf(k, r)
    BY UsersFinite DEF UsersOf
  <2>3. Cardinality(UsersOf(k, r) \cup {p}) = Cardinality(UsersOf(k, r)) + 1
    BY <2>2, FS_AddElement
  <2>4. r \notin k.held => Cardinality(UsersOf(k, r)) = 0
    BY FS_EmptySet DEF Sound, Counted
  <2>5. n.shared[r] = Cardinality(UsersOf(n, r))
    <3>1. UsersOf(n, r) = UsersOf(k, r) \cup {p}
      BY <1>1, <1>2
    <3>2. CASE r \in k.held
      BY <1>1, <2>3, <3>1, <3>2 DEF Joins, Sound, Counted
    <3>3. CASE r \notin k.held
      BY <1>1, <2>3, <2>4, <3>1, <3>3 DEF Joins
    <3>4. QED
      BY <3>2, <3>3
  <2>6. \A x \in n.held : x # r => n.shared[x] = Cardinality(UsersOf(n, x))
    <3>1. n.held = k.held \cup {r} /\ k.held \subseteq Rect
      BY <1>1 DEF Joins, Kernel
    <3>2. QED
      BY <1>2, <3>1 DEF Joins, Sound, Counted
  <2>7. QED
    BY <1>3, <2>1, <2>5, <2>6 DEF Counted
<1>5. \A q \in n.videos : n.printing[q] # NULL => n.printing[q] \in Members(n.rectangles[q])
  <2> SUFFICES ASSUME NEW q \in n.videos, n.printing[q] # NULL
               PROVE  n.printing[q] \in Members(n.rectangles[q])
    OBVIOUS
  <2>1. q \in k.videos /\ q \in Process
    BY <1>1 DEF Joins, Kernel
  <2>2. CASE n.printing[q] = k.printing[q]
    BY <1>2, <2>1, <2>2 DEF Sound
  <2>3. CASE n.printing[q] # k.printing[q]
    BY <1>2, <2>1, <2>3
  <2>4. QED
    BY <2>2, <2>3
<1>6. \A x \in Rect : n.made[x] # NULL => x \in Members(n.rectangles[n.made[x]])
  <2> SUFFICES ASSUME NEW x \in Rect, n.made[x] # NULL
               PROVE  x \in Members(n.rectangles[n.made[x]])
    OBVIOUS
  <2>1. n.made[x] \in Process /\ n.made[x] = k.made[x]
    BY <1>1 DEF Joins, Kernel
  <2>2. QED
    BY <1>2, <2>1 DEF Sound
<1>7. \A q \in Process \ n.videos : n.rectangles[q] = <<>>
  BY <1>1 DEF Joins, Sound
<1>8. QED
  BY <1>1, <1>4, <1>5, <1>6, <1>7 DEF Sound, Joins

LEMMA JoinFollows ==
  ASSUME NEW k \in Kernel, NEW p \in Process, NEW r \in Rect, NEW n, Joins(k, p, r, n)
  PROVE  Follows(k, n, {}, p)
<1>1. OneUserMore(k, p, r, n)
  BY JoinUsers, Zenon
<1>2. UsersChange(k, n, {}, p)
  BY <1>1 DEF OneUserMore, UsersChange
<1>3. NamesStay(k, n)
  BY DEF NamesStay, Joins, Kernel
<1>4. QED
  BY <1>2, <1>3 DEF Follows

LEMMA SameFollows ==
  ASSUME NEW k, NEW n, n.rectangles = k.rectangles, n.held = k.held,
         n.published = k.published, n.name = k.name
  PROVE  \A u : Follows(k, n, {}, u)
<1>1. \A r : UsersOf(n, r) = UsersOf(k, r)
  BY DEF UsersOf
<1>2. \A u : UsersChange(k, n, {}, u)
  BY <1>1 DEF UsersChange
<1>3. NamesStay(k, n)
  BY DEF NamesStay
<1>4. QED
  BY <1>2, <1>3 DEF Follows

LEMMA FollowsOn ==
  ASSUME NEW k, NEW m, NEW n, NEW gone, NEW u, Follows(k, m, gone, u), Follows(m, n, {}, u)
  PROVE  Follows(k, n, gone, u)
<1>1. NamesStay(k, n)
  BY DEF Follows, NamesStay
<1>2. UsersChange(k, n, gone, u)
  BY DEF Follows, UsersChange
<1>3. QED
  BY <1>1, <1>2 DEF Follows

LEMMA FollowsNamed ==
  ASSUME NEW k, NEW n, NEW gone, NEW u, Follows(k, n, gone, u), Named(k)
  PROVE  Named(n)
BY DEF Follows, NamesStay, Named

(* Sound does not depend on names, the table or what programs were given. *)
LEMMA SameSound ==
  ASSUME NEW k, Sound(k), NEW n \in Kernel,
         n.live = k.live, n.videos = k.videos, n.foreground = k.foreground,
         n.rectangles = k.rectangles, n.printing = k.printing, n.held = k.held,
         n.shared = k.shared, n.made = k.made
  PROVE  Sound(n)
<1>1. \A r : UsersOf(n, r) = UsersOf(k, r)
  BY DEF UsersOf
<1>2. Counted(n)
  BY <1>1 DEF Sound, Counted
<1>3. QED
  BY <1>2 DEF Sound

-----------------------------------------------------------------------------
LEMMA RegisterJoins ==
  ASSUME NEW k \in Kernel, NEW p \in Process, NEW r \in k.held,
         NEW n, n = video_rectangle_register(k, p, r)
  PROVE  Joins(k, p, r, n) /\ n.printing = k.printing
<1>1. k.held \cup {r} = k.held /\ r \in Rect
  BY DEF Kernel
<1>2. k.rectangles \in [Process -> Seq(Rect)] /\ k.shared \in [Rect -> Int]
  BY DEF Kernel
<1>3. Append(k.rectangles[p], r) \in Seq(Rect)
  BY <1>1, <1>2, AppendProperties
<1>4. /\ [k.shared EXCEPT ![r] = @ + 1] \in [Rect -> Int]
      /\ [k.rectangles EXCEPT ![p] = Append(@, r)] \in [Process -> Seq(Rect)]
  BY <1>1, <1>2, <1>3
<1>5. n = [k EXCEPT !.shared = [k.shared EXCEPT ![r] = @ + 1],
                    !.rectangles = [k.rectangles EXCEPT ![p] = Append(@, r)]]
  BY DEF video_rectangle_register, Kernel
<1>6. n \in Kernel
  BY <1>4, <1>5 DEF Kernel
<1>7. /\ n.live = k.live /\ n.videos = k.videos /\ n.foreground = k.foreground
      /\ n.held = k.held /\ n.made = k.made /\ n.printing = k.printing
      /\ n.published = k.published /\ n.name = k.name
      /\ n.shared = [k.shared EXCEPT ![r] = @ + 1]
      /\ n.rectangles = [k.rectangles EXCEPT ![p] = Append(@, r)]
  BY <1>5 DEF Kernel
<1>8. QED
  BY <1>1, <1>2, <1>6, <1>7 DEF Joins

LEMMA NewJoins ==
  ASSUME NEW k \in Kernel, NEW p \in Process, NEW r \in Rect \ k.held,
         NEW n, n = video_rectangle_new(k, p, r)
  PROVE  Joins(k, p, r, n) /\ n.printing = k.printing
<1> DEFINE m == [k EXCEPT !.held = @ \cup {r}, !.shared[r] = 0, !.name[r] = NULL,
                          !.made[r] = NULL]
<1>1. /\ k.shared \in [Rect -> Int] /\ k.name \in [Rect -> Name \cup {NULL}]
      /\ k.made \in [Rect -> Process \cup {NULL}] /\ k.held \subseteq Rect
  BY DEF Kernel
<1>2. /\ [k.shared EXCEPT ![r] = 0] \in [Rect -> Int]
      /\ [k.name EXCEPT ![r] = NULL] \in [Rect -> Name \cup {NULL}]
      /\ [k.made EXCEPT ![r] = NULL] \in [Rect -> Process \cup {NULL}]
      /\ k.held \cup {r} \subseteq Rect
  BY <1>1
<1>3. /\ m.live = k.live /\ m.videos = k.videos /\ m.foreground = k.foreground
      /\ m.rectangles = k.rectangles /\ m.printing = k.printing
      /\ m.published = k.published /\ m.given = k.given /\ m.misused = k.misused
      /\ m.held = k.held \cup {r}
      /\ m.shared = [k.shared EXCEPT ![r] = 0]
      /\ m.name = [k.name EXCEPT ![r] = NULL]
      /\ m.made = [k.made EXCEPT ![r] = NULL]
  BY DEF Kernel
<1>4. m \in Kernel
  BY <1>2 DEF Kernel
<1>5. n = video_rectangle_register(m, p, r)
  BY DEF video_rectangle_new
<1> HIDE DEF m
<1>6. Joins(m, p, r, n) /\ n.printing = m.printing
  BY <1>3, <1>4, <1>5, RegisterJoins
<1>7. /\ n \in Kernel /\ n.live = k.live /\ n.videos = k.videos
      /\ n.foreground = k.foreground
      /\ n.rectangles = [k.rectangles EXCEPT ![p] = Append(@, r)]
      /\ n.held = k.held \cup {r}
      /\ n.printing = k.printing /\ n.published = k.published
  BY <1>3, <1>6 DEF Joins
<1>8. \A x \in Rect : n.shared[x] = IF x # r THEN k.shared[x] ELSE 1
  BY <1>1, <1>3, <1>6 DEF Joins
<1>9. \A x \in Rect : n.made[x] = k.made[x] \/ n.made[x] = NULL
  BY <1>1, <1>3, <1>6 DEF Joins
<1>10. \A x \in Rect : n.name[x] = IF x # r THEN k.name[x] ELSE NULL
  BY <1>1, <1>3, <1>6 DEF Joins
<1>11. QED
  BY <1>7, <1>8, <1>9, <1>10 DEF Joins

(* What is not held is on no list. *)
LEMMA ListedIsHeld ==
  ASSUME NEW k, Sound(k), NEW p \in Process
  PROVE  Members(k.rectangles[p]) \subseteq k.held
<1>1. Members(k.rectangles[p]) \subseteq Rect
  BY LenProperties DEF Sound, Kernel, Members
<1>2. QED
  BY <1>1 DEF Sound, Counted, UsersOf

(* The task bar is in memory that is held, or the handler ends the model.  *)
LEMMA DefaultSound ==
  ASSUME NEW k, Sound(k), NEW p \in k.videos, k.rectangles[p] = <<>>,
         NEW l \in video_rectangle_register_default_rectangles(k, p)
  PROVE  /\ Sound(l) /\ Follows(k, l, {}, p)
         /\ l.live = k.live /\ l.videos = k.videos /\ l.foreground = k.foreground
<1>1. k \in Kernel /\ p \in Process
  BY DEF Sound, Kernel
<1>2. PICK taskbar \in video_rectangle_get(k, Taskbar) :
         l \in IF taskbar = NULL THEN {k}
               ELSE IF taskbar \notin k.held THEN {[k EXCEPT !.misused = TRUE]}
               ELSE {[video_rectangle_new(video_rectangle_register(k, p, taskbar), p, r)
                        EXCEPT !.printing[p] = r] : r \in Rect \ k.held}
  BY DEF video_rectangle_register_default_rectangles
<1>3. CASE taskbar = NULL
  BY <1>2, <1>3, SameFollows
<1>4. CASE taskbar # NULL /\ taskbar \notin k.held
  <2>1. l = [k EXCEPT !.misused = TRUE]
    BY <1>2, <1>4
  <2>2. l \in Kernel /\ l.live = k.live /\ l.videos = k.videos /\ l.foreground = k.foreground
        /\ l.rectangles = k.rectangles /\ l.printing = k.printing /\ l.held = k.held
        /\ l.shared = k.shared /\ l.made = k.made
        /\ l.published = k.published /\ l.name = k.name
    BY <1>1, <2>1 DEF Kernel
  <2>3. QED
    BY <2>2, SameSound, SameFollows
<1>5. CASE taskbar # NULL /\ taskbar \in k.held
  <2> DEFINE a == video_rectangle_register(k, p, taskbar)
  <2>1. PICK r \in Rect \ k.held : l = [video_rectangle_new(a, p, r) EXCEPT !.printing[p] = r]
    BY <1>2, <1>5
  <2>2. Joins(k, p, taskbar, a) /\ a.printing = k.printing
    BY <1>1, <1>5, RegisterJoins
  <2> HIDE DEF a
  <2>3. taskbar \in Rect \ Members(k.rectangles[p]) /\ taskbar \in Rect
    BY <1>1, <1>5, EmptyList DEF Kernel
  <2>4. Sound(a)
    BY <2>2, <2>3, JoinSound
  <2>5. a \in Kernel /\ a.held = k.held /\ p \in a.videos
        /\ a.live = k.live /\ a.videos = k.videos /\ a.foreground = k.foreground
    BY <1>5, <2>2 DEF Joins
  <2> DEFINE b == video_rectangle_new(a, p, r)
  <2>6. Joins(a, p, r, b) /\ b.printing = a.printing
    BY <1>1, <2>1, <2>5, NewJoins
  <2>7. l = [b EXCEPT !.printing[p] = r]
    BY <2>1
  <2> HIDE DEF b
  <2>8. Joins(a, p, r, l) /\ \A q \in Process : l.printing[q] # a.printing[q] => q = p /\ l.printing[q] = r
    <3>1. b \in Kernel /\ b.printing \in [Process -> Rect \cup {NULL}]
      BY <2>6 DEF Joins, Kernel
    <3>2. [b.printing EXCEPT ![p] = r] \in [Process -> Rect \cup {NULL}]
      BY <2>1, <3>1
    <3>3. l \in Kernel
      BY <2>7, <3>1, <3>2 DEF Kernel
    <3>4. /\ l.live = b.live /\ l.videos = b.videos /\ l.foreground = b.foreground
          /\ l.rectangles = b.rectangles /\ l.held = b.held /\ l.shared = b.shared
          /\ l.published = b.published /\ l.name = b.name
          /\ l.made = b.made /\ l.printing = [b.printing EXCEPT ![p] = r]
      BY <2>7, <3>1 DEF Kernel
    <3>5. Joins(a, p, r, l)
      BY <2>6, <3>3, <3>4 DEF Joins
    <3>6. QED
      BY <1>1, <2>6, <3>1, <3>4, <3>5
  <2>9. r \in Rect \ Members(a.rectangles[p])
    BY <1>1, <2>1, <2>4, <2>5, ListedIsHeld
  <2>10. Sound(l)
    BY <2>4, <2>5, <2>8, <2>9, JoinSound
  <2>11. Follows(k, a, {}, p) /\ Follows(a, l, {}, p)
    BY <1>1, <2>1, <2>2, <2>3, <2>5, <2>8, JoinFollows
  <2>12. Follows(k, l, {}, p)
    BY <2>11, FollowsOn
  <2>13. QED
    BY <2>5, <2>8, <2>10, <2>12 DEF Joins
<1>6. QED
  BY <1>3, <1>4, <1>5

-----------------------------------------------------------------------------
(* A process that is loaded has a video, and a place in the table or none. *)
LEMMA LoadSlotSound ==
  ASSUME NEW k, Sound(k), NEW p \in Process \ k.videos, NEW l \in process_load_for_slot(k, p)
  PROVE  Sound(l) /\ Follows(k, l, {}, p)
<1> DEFINE video == [k EXCEPT !.videos = @ \cup {p}, !.rectangles[p] = <<>>,
                              !.printing[p] = NULL]
<1>1. /\ k \in Kernel /\ k.rectangles \in [Process -> Seq(Rect)]
      /\ k.printing \in [Process -> Rect \cup {NULL}]
  BY DEF Sound, Kernel
<1>2. PICK v \in video_rectangle_register_default_rectangles(video, p) :
         l = v \/ l = [v EXCEPT !.live = @ \cup {p}]
  BY DEF process_load_for_slot
<1>3. /\ [k.rectangles EXCEPT ![p] = <<>>] = k.rectangles
      /\ [k.printing EXCEPT ![p] = NULL] \in [Process -> Rect \cup {NULL}]
  BY <1>1 DEF Sound
<1>4. /\ video.live = k.live /\ video.videos = k.videos \cup {p}
      /\ video.foreground = k.foreground /\ video.rectangles = k.rectangles
      /\ video.printing = [k.printing EXCEPT ![p] = NULL] /\ video.held = k.held
      /\ video.shared = k.shared /\ video.made = k.made
      /\ video.published = k.published /\ video.name = k.name
  BY <1>1, <1>3 DEF Kernel
<1>5. video \in Kernel
  BY <1>1, <1>3 DEF Kernel
<1> HIDE DEF video
<1>6. Sound(video)
  <2>1. \A r : UsersOf(video, r) = UsersOf(k, r)
    BY <1>4 DEF UsersOf
  <2>2. Counted(video)
    BY <1>4, <2>1 DEF Sound, Counted
  <2>3. \A q \in video.videos : video.printing[q] # NULL =>
           video.printing[q] \in Members(video.rectangles[q])
    BY <1>1, <1>4 DEF Sound, Kernel
  <2>4. QED
    BY <1>4, <1>5, <2>2, <2>3 DEF Sound
<1>7. Sound(v) /\ Follows(k, v, {}, p) /\ v.live = k.live /\ p \in v.videos
  <2>1. p \in video.videos /\ video.rectangles[p] = <<>>
    BY <1>4 DEF Sound
  <2>2. Sound(v) /\ Follows(video, v, {}, p) /\ v.live = video.live /\ v.videos = video.videos
    BY <1>6, <2>1, DefaultSound
  <2>3. Follows(k, video, {}, p)
    BY <1>4, SameFollows
  <2>4. Follows(k, v, {}, p)
    BY <2>2, <2>3, FollowsOn
  <2>5. QED
    BY <1>4, <2>1, <2>2, <2>4
<1>8. LET m == [v EXCEPT !.live = @ \cup {p}] IN Sound(m) /\ Follows(k, m, {}, p)
  <2> DEFINE m == [v EXCEPT !.live = @ \cup {p}]
  <2>1. /\ m \in Kernel /\ m.live = v.live \cup {p} /\ m.videos = v.videos
        /\ m.foreground = v.foreground /\ m.rectangles = v.rectangles
        /\ m.printing = v.printing /\ m.held = v.held
        /\ m.shared = v.shared /\ m.made = v.made
        /\ m.published = v.published /\ m.name = v.name
    BY <1>7 DEF Sound, Kernel
  <2> HIDE DEF m
  <2>2. \A r : UsersOf(m, r) = UsersOf(v, r)
    BY <2>1 DEF UsersOf
  <2>3. Counted(m)
    BY <1>7, <2>1, <2>2 DEF Sound, Counted
  <2>4. Sound(m)
    BY <1>7, <2>1, <2>3 DEF Sound
  <2>5. Follows(v, m, {}, p)
    BY <2>1, SameFollows
  <2>6. Follows(k, m, {}, p)
    BY <1>7, <2>5, FollowsOn
  <2>7. QED
    BY <2>4, <2>6 DEF m
<1>9. QED
  BY <1>2, <1>7, <1>8

(* A process of the table may come to the foreground. *)
LEMMA ForegroundSound ==
  ASSUME NEW k, Sound(k), NEW p \in k.live
  PROVE  LET n == [k EXCEPT !.foreground = p]
         IN  Sound(n) /\ \A u : Follows(k, n, {}, u)
<1> DEFINE n == [k EXCEPT !.foreground = p]
<1>1. /\ n \in Kernel /\ n.live = k.live /\ n.videos = k.videos
      /\ n.foreground = p /\ n.rectangles = k.rectangles
      /\ n.printing = k.printing /\ n.held = k.held
      /\ n.shared = k.shared /\ n.made = k.made
      /\ n.published = k.published /\ n.name = k.name
  BY DEF Sound, Kernel
<1> HIDE DEF n
<1>2. \A r : UsersOf(n, r) = UsersOf(k, r)
  BY <1>1 DEF UsersOf
<1>3. Counted(n)
  BY <1>1, <1>2 DEF Sound, Counted
<1>4. Sound(n)
  BY <1>1, <1>3 DEF Sound
<1>5. \A u : Follows(k, n, {}, u)
  BY <1>1, SameFollows
<1>6. QED
  BY <1>4, <1>5 DEF n

LEMMA StartSound ==
  ASSUME NEW k, Sound(k), NEW l \in process_load_start(k)
  PROVE  Sound(l) /\ \E u \in Process : Follows(k, l, {}, u)
<1>1. CASE l = k
  <2>1. \A u : Follows(k, l, {}, u)
    BY <1>1, SameFollows
  <2>2. k.foreground \in Process
    BY DEF Sound, Kernel
  <2>3. QED
    BY <1>1, <2>1, <2>2
<1>2. CASE l # k
  <2>1. PICK p \in Process \ k.videos :
           l \in process_load_for_slot(k, p) \cup
                {[m EXCEPT !.foreground = p] :
                    m \in {o \in process_load_for_slot(k, p) : p \in o.live}}
    BY <1>2 DEF process_load_start
  <2>2. CASE l \in process_load_for_slot(k, p)
    BY <2>2, LoadSlotSound
  <2>3. CASE l \notin process_load_for_slot(k, p)
    <3>1. PICK m \in process_load_for_slot(k, p) : p \in m.live /\ l = [m EXCEPT !.foreground = p]
      BY <2>1, <2>3
    <3>2. Sound(m) /\ Follows(k, m, {}, p)
      BY LoadSlotSound
    <3>3. Sound(l) /\ Follows(m, l, {}, p)
      BY <3>1, <3>2, ForegroundSound
    <3>4. QED
      BY <3>2, <3>3, FollowsOn
  <2>4. QED
    BY <2>2, <2>3
<1>3. QED
  BY <1>1, <1>2

(***************************************************************************)
(* The user p is gone: the counts are one less, and those rectangles are    *)
(* freed that have no other user.                                          *)
(***************************************************************************)
Left(k, p) == [r \in Rect |->
                 k.shared[r] - Cardinality({i \in DOMAIN k.rectangles[p] :
                                              k.rectangles[p][i] = r})]
Gone(k, p) == {r \in Members(k.rectangles[p]) : Left(k, p)[r] <= 0}

LEMMA LeftCounts ==
  ASSUME NEW k, Sound(k), NEW p \in Process, NEW r \in k.held
  PROVE  /\ Left(k, p)[r] = Cardinality(UsersOf(k, r) \ {p})
         /\ Left(k, p)[r] <= 0 <=> UsersOf(k, r) \ {p} = {}
<1>1. r \in Rect /\ k.rectangles[p] \in Seq(Rect) /\ Distinct(k.rectangles[p])
      /\ k.shared[r] = Cardinality(UsersOf(k, r))
  BY DEF Sound, Kernel, Counted
<1>2. Left(k, p)[r] = k.shared[r] - (IF r \in Members(k.rectangles[p]) THEN 1 ELSE 0)
  BY <1>1, OccursOnce DEF Left
<1>3. IsFiniteSet(UsersOf(k, r)) /\ IsFiniteSet(UsersOf(k, r) \ {p})
  BY UsersFinite, FS_Subset
<1>4. Cardinality(UsersOf(k, r)) \in Nat /\ Cardinality(UsersOf(k, r) \ {p}) \in Nat
  BY <1>3, FS_CardinalityType
<1>5. Left(k, p)[r] = Cardinality(UsersOf(k, r) \ {p})
  <2>1. CASE p \in UsersOf(k, r)
    <3>1. r \in Members(k.rectangles[p])
      BY <2>1 DEF UsersOf
    <3>2. Cardinality(UsersOf(k, r) \ {p}) = Cardinality(UsersOf(k, r)) - 1
      BY <1>3, <2>1, FS_RemoveElement
    <3>3. QED
      BY <1>1, <1>2, <3>1, <3>2
  <2>2. CASE p \notin UsersOf(k, r)
    <3>1. r \notin Members(k.rectangles[p]) /\ UsersOf(k, r) \ {p} = UsersOf(k, r)
      BY <2>2 DEF UsersOf
    <3>2. Cardinality(UsersOf(k, r) \ {p}) = Cardinality(UsersOf(k, r))
      BY <3>1
    <3>3. Left(k, p)[r] = k.shared[r] - 0
      BY <1>2, <3>1
    <3>4. QED
      BY <1>1, <1>4, <3>2, <3>3
  <2>3. QED
    BY <2>1, <2>2
<1>6. Cardinality(UsersOf(k, r) \ {p}) = 0 <=> UsersOf(k, r) \ {p} = {}
  BY <1>3, FS_EmptySet
<1>7. QED
  BY <1>4, <1>5, <1>6

(* The fields of a state that p has left. *)
Leaves(k, p, q, n) ==
    /\ n.live = k.live \ {p} /\ n.videos = k.videos \ {p} /\ n.foreground = q
    /\ n.rectangles = [k.rectangles EXCEPT ![p] = <<>>]
    /\ n.printing = [k.printing EXCEPT ![p] = NULL]
    /\ n.held = k.held \ Gone(k, p)
    /\ n.shared = [r \in Rect |-> IF r \in Gone(k, p) THEN 0 ELSE Left(k, p)[r]]
    /\ n.published = k.published
    /\ n.name = [r \in Rect |-> IF r \in Gone(k, p) THEN NULL ELSE k.name[r]]
    /\ n.made = [r \in Rect |-> IF k.made[r] = p THEN NULL ELSE k.made[r]]

LEMMA FreeLeaves ==
  ASSUME NEW k, Sound(k), NEW p \in Process, NEW n \in process_free(k, p)
  PROVE  /\ n \in Kernel
         /\ \E q \in IF k.foreground = p THEN k.live \ {p} ELSE {k.foreground} :
                Leaves(k, p, q, n)
<1>1. k \in Kernel /\ k.rectangles \in [Process -> Seq(Rect)] /\ k.shared \in [Rect -> Int]
      /\ k.printing \in [Process -> Rect \cup {NULL}] /\ k.live \subseteq Process
      /\ k.name \in [Rect -> Name \cup {NULL}] /\ k.made \in [Rect -> Process \cup {NULL}]
      /\ k.foreground \in Process
  BY DEF Sound, Kernel
<1>2. \A r \in Rect : Left(k, p)[r] \in Int
  <2> SUFFICES ASSUME NEW r \in Rect PROVE Left(k, p)[r] \in Int
    OBVIOUS
  <2>1. k.rectangles[p] \in Seq(Rect) /\ Distinct(k.rectangles[p])
    BY <1>1 DEF Sound, Counted
  <2>2. Left(k, p)[r] = k.shared[r] - (IF r \in Members(k.rectangles[p]) THEN 1 ELSE 0)
    BY <2>1, OccursOnce DEF Left
  <2>3. QED
    BY <1>1, <2>2
<1>3. Left(k, p) \in [Rect -> Int]
  BY <1>2 DEF Left
<1> DEFINE v == video_rectangles_free(k, p)
<1>4. v = Free([k EXCEPT !.shared = Left(k, p)], Gone(k, p))
  BY DEF video_rectangles_free, Left, Gone
<1>5. /\ v.live = k.live /\ v.videos = k.videos /\ v.foreground = k.foreground
      /\ v.rectangles = k.rectangles /\ v.printing = k.printing
      /\ v.held = k.held \ Gone(k, p) /\ v.made = k.made /\ v.published = k.published
      /\ v.shared = [r \in Rect |-> IF r \in Gone(k, p) THEN 0 ELSE Left(k, p)[r]]
      /\ v.name = [r \in Rect |-> IF r \in Gone(k, p) THEN NULL ELSE k.name[r]]
  BY <1>1, <1>4 DEF Free, Kernel
<1>6. /\ v.held \subseteq Rect /\ v.shared \in [Rect -> Int]
      /\ v.name \in [Rect -> Name \cup {NULL}]
  BY <1>1, <1>3, <1>5 DEF Kernel
<1>7. v \in Kernel
  <2>1. v = [[k EXCEPT !.shared = Left(k, p)] EXCEPT
                !.held = k.held \ Gone(k, p), !.shared = v.shared, !.name = v.name]
    BY <1>1, <1>4, <1>5 DEF Free, Kernel
  <2>2. QED
    BY <1>1, <1>5, <1>6, <2>1 DEF Kernel
<1>8. PICK q \in IF k.foreground = p THEN k.live \ {p} ELSE {k.foreground} :
         n = [v EXCEPT !.foreground = q, !.live = @ \ {p},
                !.videos = @ \ {p}, !.rectangles[p] = <<>>, !.printing[p] = NULL,
                !.made = [r \in Rect |-> IF @[r] = p THEN NULL ELSE @[r]]]
  BY DEF process_free
<1> HIDE DEF v
<1>9. q \in Process
  BY <1>1, <1>8
<1>10. /\ [k.rectangles EXCEPT ![p] = <<>>] \in [Process -> Seq(Rect)]
       /\ [k.printing EXCEPT ![p] = NULL] \in [Process -> Rect \cup {NULL}]
       /\ [r \in Rect |-> IF k.made[r] = p THEN NULL ELSE k.made[r]]
             \in [Rect -> Process \cup {NULL}]
  BY <1>1
<1>11. Leaves(k, p, q, n)
  BY <1>5, <1>7, <1>8 DEF Leaves, Kernel
<1>12. n \in Kernel
  <2>1. /\ [v.rectangles EXCEPT ![p] = <<>>] \in [Process -> Seq(Rect)]
        /\ [v.printing EXCEPT ![p] = NULL] \in [Process -> Rect \cup {NULL}]
        /\ [r \in Rect |-> IF v.made[r] = p THEN NULL ELSE v.made[r]]
              \in [Rect -> Process \cup {NULL}]
    BY <1>5, <1>10
  <2>2. /\ v.live \ {p} \in SUBSET Process /\ v.videos \ {p} \in SUBSET Process
    BY <1>7 DEF Kernel
  <2>3. QED
    BY <1>7, <1>8, <1>9, <2>1, <2>2 DEF Kernel
<1>13. QED
  BY <1>8, <1>11, <1>12

(* With p gone the counts still count. *)
LEMMA FreeSound ==
  ASSUME NEW k, Sound(k), NEW p \in k.live, k.live # {p}, NEW n \in process_free(k, p)
  PROVE  Sound(n) /\ \A u : Follows(k, n, {p}, u)
<1>1. k \in Kernel /\ k.rectangles \in [Process -> Seq(Rect)] /\ k.live \subseteq Process
      /\ p \in Process /\ k.printing \in [Process -> Rect \cup {NULL}]
      /\ k.made \in [Rect -> Process \cup {NULL}] /\ k.held \subseteq Rect
  BY DEF Sound, Kernel
<1>2. n \in Kernel
  BY <1>1, FreeLeaves
<1>3. PICK q \in IF k.foreground = p THEN k.live \ {p} ELSE {k.foreground} : Leaves(k, p, q, n)
  BY <1>1, FreeLeaves
<1>4. n.foreground \in n.live /\ n.live \subseteq n.videos
  BY <1>3 DEF Leaves, Sound
<1>5. \A x \in Process : Members(n.rectangles[x]) =
         IF x = p THEN {} ELSE Members(k.rectangles[x])
  BY <1>1, <1>3, EmptyList DEF Leaves
<1>6. \A r : UsersOf(n, r) = UsersOf(k, r) \ {p}
  BY <1>5 DEF UsersOf
<1>7. Gone(k, p) = {r \in k.held : r \in Members(k.rectangles[p]) /\ UsersOf(k, r) \ {p} = {}}
  <2>1. \A r \in k.held : Left(k, p)[r] <= 0 <=> UsersOf(k, r) \ {p} = {}
    BY <1>1, LeftCounts
  <2>2. Members(k.rectangles[p]) \subseteq k.held
    BY <1>1, ListedIsHeld
  <2>3. QED
    BY <2>1, <2>2 DEF Gone
<1>8. \A r \in k.held : UsersOf(k, r) # {}
  BY <1>1 DEF Sound, Counted
<1>9. Counted(n)
  <2>1. \A x \in Process : Distinct(n.rectangles[x])
    BY <1>1, <1>3, EmptyList DEF Leaves, Sound, Counted
  <2>2. \A r \in Rect : r \in n.held <=> UsersOf(n, r) # {}
    <3> SUFFICES ASSUME NEW r \in Rect PROVE r \in n.held <=> UsersOf(n, r) # {}
      OBVIOUS
    <3>1. r \in n.held <=> r \in k.held /\ r \notin Gone(k, p)
      BY <1>3 DEF Leaves
    <3>2. r \notin k.held => UsersOf(k, r) = {}
      BY DEF Sound, Counted
    <3>3. r \notin Members(k.rectangles[p]) => UsersOf(k, r) \ {p} = UsersOf(k, r)
      BY DEF UsersOf
    <3>4. QED
      BY <1>6, <1>7, <1>8, <3>1, <3>2, <3>3
  <2>3. \A r \in n.held : n.shared[r] = Cardinality(UsersOf(n, r))
    <3> SUFFICES ASSUME NEW r \in n.held PROVE n.shared[r] = Cardinality(UsersOf(n, r))
      OBVIOUS
    <3>1. r \in Rect /\ r \in k.held /\ r \notin Gone(k, p)
      BY <1>1, <1>3 DEF Leaves
    <3>2. n.shared[r] = Left(k, p)[r]
      BY <1>3, <3>1 DEF Leaves
    <3>3. Left(k, p)[r] = Cardinality(UsersOf(k, r) \ {p})
      BY <1>1, <3>1, LeftCounts
    <3>4. UsersOf(n, r) = UsersOf(k, r) \ {p}
      BY <1>6
    <3>5. QED
      BY <3>2, <3>3, <3>4
  <2>4. QED
    BY <2>1, <2>2, <2>3 DEF Counted
<1>10. \A x \in Process \ n.videos : n.rectangles[x] = <<>>
  BY <1>1, <1>3 DEF Leaves, Sound
<1>11. \A x \in n.videos : n.printing[x] # NULL => n.printing[x] \in Members(n.rectangles[x])
  <2> SUFFICES ASSUME NEW x \in n.videos, n.printing[x] # NULL
               PROVE  n.printing[x] \in Members(n.rectangles[x])
    OBVIOUS
  <2>1. x \in k.videos /\ x # p /\ x \in Process
    BY <1>2, <1>3 DEF Leaves, Kernel
  <2>2. n.printing[x] = k.printing[x] /\ Members(n.rectangles[x]) = Members(k.rectangles[x])
    BY <1>1, <1>3, <1>5, <2>1 DEF Leaves
  <2>3. QED
    BY <2>1, <2>2 DEF Sound
<1>12. \A r \in Rect : n.made[r] # NULL => r \in Members(n.rectangles[n.made[r]])
  <2> SUFFICES ASSUME NEW r \in Rect, n.made[r] # NULL
               PROVE  r \in Members(n.rectangles[n.made[r]])
    OBVIOUS
  <2>1. n.made[r] = k.made[r] /\ k.made[r] # p /\ k.made[r] \in Process
    BY <1>1, <1>3 DEF Leaves
  <2>2. r \in Members(k.rectangles[k.made[r]])
    BY <2>1 DEF Sound
  <2>3. QED
    BY <1>5, <2>1, <2>2
<1>13. Sound(n)
  BY <1>2, <1>4, <1>9, <1>10, <1>11, <1>12 DEF Sound
<1>14. \A u : UsersChange(k, n, {p}, u)
  BY <1>6 DEF UsersChange
<1>15. NamesStay(k, n)
  BY <1>1, <1>3 DEF NamesStay, Leaves
<1>16. QED
  BY <1>13, <1>14, <1>15 DEF Follows

LEMMA CrashSound ==
  ASSUME NEW k, Sound(k), NEW p \in k.live, k.live # {p}, NEW n \in process_crash(k, p)
  PROVE  Sound(n) /\ \E u \in Process : Follows(k, n, {p}, u)
<1>1. PICK f \in process_free(k, p) : n \in process_load_start(f)
  BY DEF process_crash
<1>2. Sound(f) /\ \A u : Follows(k, f, {p}, u)
  BY FreeSound
<1>3. Sound(n) /\ \E u \in Process : Follows(f, n, {}, u)
  BY <1>1, <1>2, StartSound
<1>4. QED
  BY <1>2, <1>3, FollowsOn

-----------------------------------------------------------------------------
(* A name is given, or a freed rectangle is written to: no count changes,  *)
(* and the name is nobody else's.                                          *)
LEMMA PublishSound ==
  ASSUME NEW k, Sound(k), NEW n \in Name, NEW r \in Rect, NEW l \in video_rectangle_publish(k, n, r)
  PROVE  /\ Sound(l) /\ \A u : UsersChange(k, l, {}, u)
         /\ Named(k) => Named(l)
<1>1. k \in Kernel /\ k.name \in [Rect -> Name \cup {NULL}]
      /\ k.published \in [PublishSlot -> Rect \cup {NULL}]
  BY DEF Sound, Kernel
<1>2. CASE l = k
  BY <1>2, SameFollows DEF Follows
<1>3. CASE l = [k EXCEPT !.misused = TRUE]
  <2>1. l \in Kernel /\ l.live = k.live /\ l.videos = k.videos /\ l.foreground = k.foreground
        /\ l.rectangles = k.rectangles /\ l.printing = k.printing /\ l.held = k.held
        /\ l.shared = k.shared /\ l.made = k.made
        /\ l.published = k.published /\ l.name = k.name
    BY <1>1, <1>3 DEF Kernel
  <2>2. Sound(l) /\ \A u : Follows(k, l, {}, u)
    BY <2>1, SameSound, SameFollows
  <2>3. QED
    BY <2>2, FollowsNamed DEF Follows
<1>4. CASE /\ l = video_rectangle_publish_insert([k EXCEPT !.name[r] = n], r)
           /\ r \in k.held /\ \A h \in PublishSlot : ~Matches(k, h, n)
  <2> DEFINE m == [k EXCEPT !.name[r] = n]
  <2>1. [k.name EXCEPT ![r] = n] \in [Rect -> Name \cup {NULL}]
    BY <1>1
  <2>2. m \in Kernel /\ m.live = k.live /\ m.videos = k.videos /\ m.foreground = k.foreground
        /\ m.rectangles = k.rectangles /\ m.printing = k.printing /\ m.held = k.held
        /\ m.shared = k.shared /\ m.made = k.made /\ m.published = k.published
        /\ m.name = [k.name EXCEPT ![r] = n]
    BY <1>1, <2>1 DEF Kernel
  <2> HIDE DEF m
  <2>3. /\ l \in Kernel /\ l.live = m.live /\ l.videos = m.videos /\ l.foreground = m.foreground
        /\ l.rectangles = m.rectangles /\ l.printing = m.printing /\ l.held = m.held
        /\ l.shared = m.shared /\ l.made = m.made /\ l.name = m.name
        /\ \A i \in PublishSlot : l.published[i] \in {r, m.published[i]}
    <3>1. CASE l = m
      BY <2>2, <3>1
    <3>2. CASE l # m
      <4>1. PICK i : l = [m EXCEPT !.published[i] = r]
        BY <1>4, <3>2 DEF video_rectangle_publish_insert, m
      <4>2. [m.published EXCEPT ![i] = r] \in [PublishSlot -> Rect \cup {NULL}]
        BY <1>1, <2>2
      <4>3. l.published = [m.published EXCEPT ![i] = r]
        BY <2>2, <4>1 DEF Kernel
      <4>4. QED
        BY <1>1, <2>2, <4>1, <4>2, <4>3 DEF Kernel
    <3>3. QED
      BY <3>1, <3>2
  <2>4. Sound(l)
    BY <2>2, <2>3, SameSound
  <2>5. \A x : UsersOf(l, x) = UsersOf(k, x)
    BY <2>2, <2>3 DEF UsersOf
  <2>6. \A u : UsersChange(k, l, {}, u)
    BY <2>5 DEF UsersChange
  <2>7. \A h \in PublishSlot : k.published[h] \in k.held => k.name[k.published[h]] # n
    BY <1>1, <1>4, RectanglesAssumption DEF Matches, MayMatch, Kernel
  <2>8. ASSUME Named(k) PROVE Named(l)
    <3> SUFFICES ASSUME NEW i \in PublishSlot, NEW j \in PublishSlot,
                        l.published[i] \in l.held, l.published[j] \in l.held,
                        l.published[i] # l.published[j], l.name[l.published[i]] # NULL
                 PROVE  l.name[l.published[i]] # l.name[l.published[j]]
      BY DEF Named
    <3> DEFINE s == l.published[i]
               t == l.published[j]
    <3>1. /\ l.held = k.held /\ k.held \subseteq Rect
          /\ \A x \in Rect : l.name[x] = IF x = r THEN n ELSE k.name[x]
          /\ s \in {r, k.published[i]} /\ t \in {r, k.published[j]}
      BY <1>1, <2>2, <2>3 DEF Kernel
    <3>2. CASE s = r
      BY <2>7, <3>1, <3>2
    <3>3. CASE t = r
      BY <2>7, <3>1, <3>3
    <3>4. CASE s # r /\ t # r
      BY <2>8, <3>1, <3>4 DEF Named
    <3>5. QED
      BY <3>2, <3>3, <3>4
  <2>9. QED
    BY <2>4, <2>6, <2>8
<1>5. PICK taken \in video_rectangle_is_published(k, n) :
        l = IF taken THEN k
            ELSE IF r \notin k.held THEN [k EXCEPT !.misused = TRUE]
            ELSE video_rectangle_publish_insert([k EXCEPT !.name[r] = n], r)
  BY DEF video_rectangle_publish
<1>6. CASE taken = FALSE /\ r \in k.held
  <2>1. NULL \in video_rectangle_get(k, n)
    BY <1>6 DEF video_rectangle_is_published
  <2>2. \A h \in PublishSlot : ~Matches(k, h, n)
    BY <2>1 DEF video_rectangle_get, MayMatch
  <2>3. QED
    BY <1>4, <1>5, <1>6, <2>2
<1>7. taken \in BOOLEAN
  BY DEF video_rectangle_is_published
<1>8. QED
  BY <1>2, <1>3, <1>5, <1>6, <1>7

(* command8: the process in the foreground has one rectangle more.         *)
LEMMA NewForForegroundSound ==
  ASSUME NEW k, Sound(k), NEW p \in k.live, NEW r \in Rect \ k.held,
         NEW l, l = [NewForForeground(k, p, r) EXCEPT !.given = @ \cup {r}]
  PROVE  Sound(l) /\ Follows(k, l, {}, k.foreground)
<1> DEFINE n == video_rectangle_new(k, k.foreground, r)
           mine == IF k.foreground = p THEN p ELSE NULL
<1>1. k \in Kernel /\ k.foreground \in Process /\ k.foreground \in k.videos /\ p \in Process
      /\ k.rectangles \in [Process -> Seq(Rect)]
  BY DEF Sound, Kernel
<1>2. Joins(k, k.foreground, r, n) /\ n.printing = k.printing
  BY <1>1, NewJoins
<1>3. r \notin Members(k.rectangles[k.foreground])
  BY <1>1, ListedIsHeld
<1> HIDE DEF n
<1>4. Sound(n)
  BY <1>1, <1>2, <1>3, JoinSound
<1>5. n \in Kernel /\ n.made \in [Rect -> Process \cup {NULL}] /\ n.given \subseteq Rect
  BY <1>4 DEF Sound, Kernel
<1>6. [n.made EXCEPT ![r] = mine] \in [Rect -> Process \cup {NULL}]
  BY <1>1, <1>5
<1>7. l = [[n EXCEPT !.made[r] = mine] EXCEPT !.given = @ \cup {r}]
  BY DEF NewForForeground, n
<1> DEFINE m == [n EXCEPT !.made[r] = mine]
<1>8. l \in Kernel /\ l.live = n.live /\ l.videos = n.videos /\ l.foreground = n.foreground
      /\ l.rectangles = n.rectangles /\ l.printing = n.printing /\ l.held = n.held
      /\ l.shared = n.shared /\ l.made = [n.made EXCEPT ![r] = mine]
      /\ l.published = n.published /\ l.name = n.name
  <2>1. m \in Kernel /\ m.live = n.live /\ m.videos = n.videos /\ m.foreground = n.foreground
        /\ m.rectangles = n.rectangles /\ m.printing = n.printing /\ m.held = n.held
        /\ m.shared = n.shared /\ m.made = [n.made EXCEPT ![r] = mine] /\ m.given = n.given
        /\ m.published = n.published /\ m.name = n.name
    BY <1>5, <1>6 DEF Kernel
  <2>2. l = [m EXCEPT !.given = m.given \cup {r}] /\ m.given \cup {r} \subseteq Rect
    BY <1>5, <1>7, <2>1
  <2> HIDE DEF m
  <2>3. QED
    BY <2>1, <2>2 DEF Kernel
<1>9. \A x : UsersOf(l, x) = UsersOf(n, x)
  BY <1>8 DEF UsersOf
<1>10. Counted(l)
  BY <1>4, <1>8, <1>9 DEF Sound, Counted
<1>11. \A x \in Rect : l.made[x] # NULL => x \in Members(l.rectangles[l.made[x]])
  <2> SUFFICES ASSUME NEW x \in Rect, l.made[x] # NULL
               PROVE  x \in Members(l.rectangles[l.made[x]])
    OBVIOUS
  <2>1. CASE x # r
    BY <1>4, <1>5, <1>8, <2>1 DEF Sound
  <2>2. CASE x = r
    <3>1. l.made[x] = k.foreground
      BY <1>5, <1>8, <2>2
    <3>2. OneUserMore(k, k.foreground, r, n)
      BY <1>1, <1>2, JoinUsers, Zenon
    <3>3. r \in Members(n.rectangles[k.foreground])
      BY <1>1, <3>2 DEF OneUserMore
    <3>4. QED
      BY <1>8, <2>2, <3>1, <3>3
  <2>3. QED
    BY <2>1, <2>2
<1>12. Sound(l)
  BY <1>4, <1>8, <1>10, <1>11 DEF Sound
<1>13. Follows(k, n, {}, k.foreground) /\ Follows(n, l, {}, k.foreground)
  BY <1>1, <1>2, <1>8, JoinFollows, SameFollows
<1>14. QED
  BY <1>12, <1>13, FollowsOn

-----------------------------------------------------------------------------
(* What a handler may do. *)
Right(k, n) ==
    /\ Sound(n) /\ Named(n)
    /\ \E u, v \in Process : UsersChange(k, n, {}, u) \/ UsersChange(k, n, {v}, u)

LEMMA BecomesRight ==
  ASSUME NEW k, Right(kernel, k), Becomes(k)
  PROVE  Right(kernel, kernel')
<1>1. k \in Kernel
  BY DEF Right, Sound
<1>2. /\ kernel'.live = k.live /\ kernel'.videos = k.videos
      /\ kernel'.foreground = k.foreground /\ kernel'.rectangles = k.rectangles
      /\ kernel'.printing = k.printing /\ kernel'.held = k.held
      /\ kernel'.shared = k.shared /\ kernel'.made = k.made
      /\ kernel'.published = k.published /\ kernel'.name = k.name
  BY DEF kernel, Becomes
<1>3. kernel' \in Kernel
  BY <1>1 DEF kernel, Becomes, Kernel
<1>4. Sound(kernel')
  BY <1>2, <1>3, SameSound DEF Right
<1>5. Named(kernel')
  BY <1>2 DEF Right, Named
<1>6. \A r : UsersOf(kernel', r) = UsersOf(k, r)
  BY <1>2 DEF UsersOf
<1>7. \A gone, u : UsersChange(kernel, k, gone, u) => UsersChange(kernel, kernel', gone, u)
  BY <1>6 DEF UsersChange
<1>8. QED
  BY <1>4, <1>5, <1>7 DEF Right

LEMMA RInvInit == Init => RInv
<1> SUFFICES ASSUME Init PROVE RInv
  OBVIOUS
<1>1. PICK p \in Process :
        /\ live = {p} /\ videos = {p} /\ foreground = p
        /\ rectangles = [q \in Process |-> <<>>]
        /\ printing = [q \in Process |-> NULL]
        /\ held = {} /\ shared = [r \in Rect |-> 0] /\ name = [r \in Rect |-> NULL]
        /\ published = [i \in PublishSlot |-> NULL] /\ given = {}
        /\ made = [r \in Rect |-> NULL] /\ misused = FALSE /\ halted = FALSE
  BY DEF Init
<1>2. <<>> \in Seq(Rect)
  OBVIOUS
<1>3. kernel \in Kernel
  <2>1. rectangles \in [Process -> Seq(Rect)] /\ printing \in [Process -> Rect \cup {NULL}]
    BY <1>1, <1>2
  <2>2. /\ shared \in [Rect -> Int] /\ name \in [Rect -> Name \cup {NULL}]
        /\ made \in [Rect -> Process \cup {NULL}]
        /\ published \in [PublishSlot -> Rect \cup {NULL}]
    BY <1>1
  <2>3. /\ live \subseteq Process /\ videos \subseteq Process /\ foreground \in Process
        /\ held \subseteq Rect /\ given \subseteq Rect /\ misused \in BOOLEAN
    BY <1>1
  <2>4. QED
    BY <2>1, <2>2, <2>3 DEF kernel, Kernel
<1>4. \A q \in Process : kernel.rectangles[q] = <<>>
  BY <1>1 DEF kernel
<1>5. \A r \in Rect : UsersOf(kernel, r) = {}
  BY <1>4, EmptyList DEF UsersOf
<1>6. Counted(kernel)
  BY <1>1, <1>4, <1>5, EmptyList DEF Counted, kernel
<1>7. Sound(kernel)
  BY <1>1, <1>3, <1>4, <1>6 DEF Sound, kernel
<1>8. Named(kernel)
  BY <1>1 DEF Named, kernel
<1>9. QED
  BY <1>1, <1>7, <1>8 DEF RInv

LEMMA HandlerRight ==
  ASSUME NEW results, Handler(results), RInv, \A k \in results : Right(kernel, k)
  PROVE  RInv' /\ Right(kernel, kernel')
<1>1. PICK k \in results : Becomes(k)
  BY DEF Handler
<1>2. Right(kernel, kernel')
  BY <1>1, BecomesRight
<1>3. halted' \in BOOLEAN
  BY DEF Handler, RInv
<1>4. QED
  BY <1>2, <1>3 DEF RInv, Right

(* What a lemma says of the users in any of its forms is right. *)
LEMMA FollowsRight ==
  ASSUME NEW k, Sound(k), Named(k), NEW n, Sound(n), NEW u \in Process, NEW v \in Process,
         Follows(k, n, {}, u) \/ Follows(k, n, {v}, u)
  PROVE  Right(k, n)
<1>1. Named(n)
  BY FollowsNamed
<1>2. QED
  BY <1>1 DEF Right, Follows

LEMMA RInvNext ==
  ASSUME RInv, [Next]_vars
  PROVE  RInv' /\ Right(kernel, kernel')
<1> DEFINE Goal == RInv' /\ Right(kernel, kernel')
<1>1. Sound(kernel) /\ Named(kernel) /\ halted \in BOOLEAN
  BY DEF RInv
<1>2. /\ kernel.live = live /\ kernel.held = held /\ kernel.foreground = foreground
      /\ kernel.given = given /\ kernel.given \subseteq Rect
      /\ foreground \in Process /\ live \subseteq Process
  BY <1>1 DEF Sound, Kernel, kernel
<1>3. Right(kernel, kernel)
  BY <1>1, <1>2, SameFollows, FollowsRight
<1>4. ASSUME NEW p \in live, isr80h_command8_video_rectangle_new(p) PROVE Goal
  <2>1. ASSUME NEW r \in Rect \ held
        PROVE  Right(kernel, [NewForForeground(kernel, p, r) EXCEPT !.given = @ \cup {r}])
    <3> DEFINE n == [NewForForeground(kernel, p, r) EXCEPT !.given = @ \cup {r}]
    <3>1. Sound(n) /\ Follows(kernel, n, {}, foreground)
      BY <1>1, <1>2, NewForForegroundSound
    <3> HIDE DEF n
    <3>2. Right(kernel, n)
      BY <1>1, <1>2, <3>1, FollowsRight
    <3>3. QED
      BY <3>2 DEF n
  <2>2. QED
    BY <1>4, <2>1, HandlerRight DEF isr80h_command8_video_rectangle_new
<1>5. ASSUME NEW p \in live, fkeylistener_special(p) PROVE Goal
  <2> DEFINE n == [kernel EXCEPT !.foreground = p]
  <2>1. Sound(n) /\ Follows(kernel, n, {}, foreground)
    BY <1>1, <1>2, ForegroundSound
  <2> HIDE DEF n
  <2>2. Right(kernel, n)
    BY <1>1, <1>2, <2>1, FollowsRight
  <2>3. QED
    BY <1>5, <2>2, HandlerRight DEF fkeylistener_special, n
<1>6. ASSUME NEW p \in live, Fault(p) PROVE Goal
  <2>1. CASE live = {p}
    <3>1. kernel' = kernel /\ halted' = TRUE
      BY <1>6, <2>1 DEF Fault, kernelVars, kernel
    <3>2. QED
      BY <1>1, <1>3, <3>1 DEF RInv
  <2>2. CASE live # {p}
    <3>1. ASSUME NEW k \in process_crash(kernel, p) PROVE Right(kernel, k)
      <4>1. Sound(k) /\ \E u \in Process : Follows(kernel, k, {p}, u)
        BY <1>1, <1>2, <2>2, CrashSound
      <4>2. QED
        BY <1>1, <1>2, <4>1, FollowsRight
    <3>2. Handler(process_crash(kernel, p))
      BY <1>6, <2>2 DEF Fault
    <3>3. QED
      BY <3>1, <3>2, HandlerRight
  <2>3. QED
    BY <2>1, <2>2
<1>7. ASSUME isr80h_command9_video_rectangle_set_pixel PROVE Goal
  <2>1. PICK r \in given : Handler({[kernel EXCEPT !.misused = r \notin held]})
    BY <1>7 DEF isr80h_command9_video_rectangle_set_pixel
  <2> DEFINE n == [kernel EXCEPT !.misused = r \notin held]
  <2>2. (r \notin held) \in BOOLEAN
    OBVIOUS
  <2>3. n \in Kernel /\ n.live = kernel.live /\ n.videos = kernel.videos
        /\ n.foreground = kernel.foreground /\ n.rectangles = kernel.rectangles
        /\ n.printing = kernel.printing /\ n.held = kernel.held
        /\ n.shared = kernel.shared /\ n.made = kernel.made
        /\ n.published = kernel.published /\ n.name = kernel.name
    BY <1>1, <2>2 DEF Sound, Kernel
  <2> HIDE DEF n
  <2>4. Sound(n) /\ Follows(kernel, n, {}, foreground)
    BY <1>1, <2>3, SameSound, SameFollows
  <2>5. Right(kernel, n)
    BY <1>1, <1>2, <2>4, FollowsRight
  <2>6. QED
    BY <2>1, <2>5, HandlerRight DEF n
<1>8. ASSUME isr80h_command17_rectangle_publish PROVE Goal
  <2>1. PICK n \in Name, r \in given : Handler(video_rectangle_publish(kernel, n, r))
    BY <1>8 DEF isr80h_command17_rectangle_publish
  <2>2. \A k \in video_rectangle_publish(kernel, n, r) : Right(kernel, k)
    BY <1>1, <1>2, PublishSound DEF Right
  <2>3. QED
    BY <2>1, <2>2, HandlerRight
<1>9. ASSUME isr80h_command6_invoke PROVE Goal
  <2>1. ASSUME NEW k \in process_load_start(kernel) PROVE Right(kernel, k)
    <3>1. Sound(k) /\ \E u \in Process : Follows(kernel, k, {}, u)
      BY <1>1, StartSound
    <3>2. QED
      BY <1>1, <1>2, <3>1, FollowsRight
  <2>2. QED
    BY <1>9, <2>1, HandlerRight DEF isr80h_command6_invoke
<1>10. CASE UNCHANGED vars
  <2>1. kernel' = kernel /\ halted' = halted
    BY <1>10 DEF vars, kernelVars, kernel
  <2>2. QED
    BY <1>1, <1>3, <2>1 DEF RInv
<1>11. QED
  BY <1>4, <1>5, <1>6, <1>7, <1>8, <1>9, <1>10 DEF Next, panic

LEMMA RInvHolds == Spec => []RInv
<1>1. RInv /\ [Next]_vars => RInv'
  BY RInvNext
<1>2. QED
  BY <1>1, RInvInit, PTL DEF Spec

-----------------------------------------------------------------------------
(* The variables keep their types, whatever order the handlers run in.     *)
THEOREM RectanglesTypes == Spec => []TypeOK
<1>1. RInv => TypeOK
  BY DEF RInv, Sound, Kernel, kernel, TypeOK
<1>2. QED
  BY <1>1, RInvHolds, PTL

(***************************************************************************)
(* video_rectangle_register and video_rectangles_free keep                 *)
(* rectangle->shared at the number of videos that list the rectangle, and  *)
(* what is listed is never freed memory (rectangle.c:222).                 *)
(***************************************************************************)
THEOREM RectanglesCounted == Spec => []SharedCountsUsers
<1>1. RInv => SharedCountsUsers
  <2> SUFFICES ASSUME RInv PROVE SharedCountsUsers
    OBVIOUS
  <2>1. /\ kernel.rectangles = rectangles /\ kernel.held = held /\ kernel.shared = shared
        /\ kernel.printing = printing /\ kernel.videos = videos
    BY DEF kernel
  <2>2. Sound(kernel) /\ Counted(kernel) /\ held \subseteq Rect
    BY <2>1 DEF RInv, Sound, Kernel
  <2>3. \A r : UsersOf(kernel, r) = Users(r)
    BY <2>1 DEF UsersOf, Users
  <2>4. ASSUME NEW r \in held PROVE shared[r] = Cardinality(Users(r)) /\ shared[r] > 0
    <3>1. shared[r] = Cardinality(Users(r)) /\ Users(r) # {}
      BY <2>1, <2>2, <2>3, <2>4 DEF Counted
    <3>2. IsFiniteSet(Users(r))
      BY <2>3, UsersFinite
    <3>3. Cardinality(Users(r)) \in Nat /\ Cardinality(Users(r)) # 0
      BY <3>1, <3>2, FS_CardinalityType, FS_EmptySet
    <3>4. QED
      BY <3>1, <3>3
  <2>5. \A p \in Process : Distinct(rectangles[p]) /\ Members(rectangles[p]) \subseteq held
    BY <2>1, <2>2, ListedIsHeld DEF Counted
  <2>6. \A p \in videos : printing[p] # NULL => printing[p] \in Members(rectangles[p])
    BY <2>1, <2>2 DEF Sound
  <2>7. QED
    BY <2>4, <2>5, <2>6 DEF SharedCountsUsers
<1>2. QED
  BY <1>1, RInvHolds, PTL

(***************************************************************************)
(* What a process made while it was in the foreground is freed by no other *)
(* process that ends (rectangle.c:222, isr80h/video.c:15).                 *)
(***************************************************************************)
THEOREM OwnRectangles == Spec => []OwnRectangleLives
<1>1. RInv => OwnRectangleLives
  <2> SUFFICES ASSUME RInv, NEW r \in Rect, made[r] \in live
               PROVE  r \in held /\ r \in Members(rectangles[made[r]])
    BY DEF OwnRectangleLives
  <2>1. /\ kernel.rectangles = rectangles /\ kernel.held = held /\ kernel.made = made
        /\ kernel.live = live
    BY DEF kernel
  <2>2. Sound(kernel) /\ live \subseteq Process
    BY <2>1 DEF RInv, Sound, Kernel
  <2>3. made[r] \in Process /\ made[r] # NULL
    BY <2>2, RectanglesAssumption
  <2>4. r \in Members(rectangles[made[r]])
    BY <2>1, <2>2, <2>3 DEF Sound
  <2>5. Members(rectangles[made[r]]) \subseteq held
    BY <2>1, <2>2, <2>3, ListedIsHeld
  <2>6. QED
    BY <2>4, <2>5
<1>2. QED
  BY <1>1, RInvHolds, PTL

(***************************************************************************)
(* A name leads to one rectangle (rectangle.c:144).                        *)
(***************************************************************************)
THEOREM RectanglesNamed == Spec => []NamesDiffer
<1>1. RInv => NamesDiffer
  <2>1. kernel.published = published /\ kernel.held = held /\ kernel.name = name
    BY DEF kernel
  <2>2. QED
    BY <2>1 DEF RInv, Named, NamesDiffer
<1>2. QED
  BY <1>1, RInvHolds, PTL

(***************************************************************************)
(* The rectangles are shared as module Sharing says: every step of the     *)
(* kernel is one of Sharing's.                                             *)
(***************************************************************************)
THEOREM RectanglesShare == Spec => ImplementsSharing
<1> DEFINE U == [r \in Rect |-> Users(r)]
<1>1. \A r : UsersOf(kernel, r) = Users(r)
  BY DEF UsersOf, Users, kernel
<1>2. Init => Shared!Init
  <2> SUFFICES ASSUME Init PROVE Shared!Init
    OBVIOUS
  <2>1. held = {} /\ \A q \in Process : rectangles[q] = <<>>
    BY DEF Init
  <2>2. \A r \in Rect : Users(r) = {}
    BY <2>1, EmptyList DEF Users
  <2>3. QED
    BY <2>1, <2>2 DEF Shared!Init
<1>3. RInv => held = {r \in Rect : Users(r) # {}}
  <2>1. kernel.held = held
    BY DEF kernel
  <2>2. QED
    BY <1>1, <2>1 DEF RInv, Sound, Counted, Kernel
<1>4. ASSUME RInv, RInv', [Next]_vars
      PROVE  [Shared!Next]_<<held, U>>
  <2>1. PICK u \in Process, v \in Process :
           UsersChange(kernel, kernel', {}, u) \/ UsersChange(kernel, kernel', {v}, u)
    BY <1>4, RInvNext DEF Right
  <2>2. \A r : UsersOf(kernel', r) = Users(r)'
    BY DEF UsersOf, Users, kernel
  <2>3. ASSUME NEW gone, UsersChange(kernel, kernel', gone, u)
        PROVE  Shared!Change(gone, u)
    <3>1. \A r \in Rect : Users(r)' \in {Users(r) \ gone, (Users(r) \ gone) \cup {u}}
      BY <1>1, <2>2, <2>3 DEF UsersChange
    <3>2. \A r \in Rect : r \in held <=> Users(r) # {}
      BY <1>3, <1>4
    <3>3. held' = {r \in Rect : Users(r)' # {}}
      <4>1. kernel'.held = held'
        BY DEF kernel
      <4>2. QED
        BY <1>4, <2>2, <4>1 DEF RInv, Sound, Counted, Kernel
    <3>4. U' = [r \in Rect |-> Users(r)'] /\ \A r \in Rect : U[r] = Users(r) /\ U'[r] = Users(r)'
      OBVIOUS
    <3>5. U' \in [Rect -> SUBSET Process]
      BY <3>4 DEF Users
    <3> DEFINE stay == [r \in Rect |-> U[r] \ gone]
    <3>6. ASSUME NEW r \in Rect
          PROVE  IF r \in held /\ stay[r] # {}
                 THEN U'[r] \in {stay[r], stay[r] \cup {u}}
                 ELSE U'[r] \in {{}, {u}}
      <4>1. stay[r] = Users(r) \ gone /\ U'[r] = Users(r)'
        BY <3>4
      <4>2. r \notin held => Users(r) \ gone = {}
        BY <3>2
      <4>3. U'[r] \in {stay[r], stay[r] \cup {u}}
        BY <3>1, <4>1
      <4>4. CASE r \in held /\ stay[r] # {}
        BY <4>3, <4>4
      <4>5. CASE stay[r] = {}
        BY <4>3, <4>5
      <4>6. QED
        BY <4>1, <4>2, <4>4, <4>5
    <3>7. held' = {r \in Rect : U'[r] # {}}
      BY <3>3, <3>4
    <3>8. QED
      BY <3>5, <3>6, <3>7 DEF Shared!Change
  <2>4. Shared!Next
    BY <2>1, <2>3 DEF Shared!Next
  <2>5. QED
    BY <2>4
<1>5. QED
  BY <1>2, <1>4, RInvHolds, PTL DEF Spec, ImplementsSharing, Shared!Spec
=============================================================================
