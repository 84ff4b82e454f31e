-------------------------- MODULE InterruptProofs --------------------------
(***************************************************************************)
(* The two interrupts, of the timer and of the keyboard.                   *)
(*                                                                         *)
(* The timer, for any number of tasks, any width of the clock, any tick    *)
(* and any set of sleep times: the running task is on the list and awake,  *)
(* sleepers are on time, and nobody is woken early unless the head of the  *)
(* list sleeps.  SleepersOnTime becomes inductive once it also says why    *)
(* the clock does not wrap before the tick that ends the sleep.            *)
(*                                                                         *)
(* The keyboard, for any size of the ring, any keys and any special keys:  *)
(* the types, the ring is a queue until it is overrun, the special keys    *)
(* follow the keyboard, every listener hears of every key once and in      *)
(* order, and a key scrolls once when it is pressed.                       *)
(***************************************************************************)
EXTENDS Scheduler, Listeners, Lemmas

SleepInv ==
    \A t \in Live : ~awake[t] /\ ~offClock[t] =>
        /\ remain[t] >= 0
        /\ awakeAt[t] = ticks + remain[t]
        /\ awakeAt[t] + Tick < Half
        /\ awakeAt[t] # -1

SInv == /\ TypeOK
        /\ Distinct(queue)
        /\ queue # <<>>
        /\ RunningIsAwake
        /\ SleepInv

(* Signed yields a long, and leaves a number that is one alone. *)
LEMMA SignedLong ==
  ASSUME NEW x \in Int
  PROVE  Signed(x) \in Long /\ (x \in Long => Signed(x) = x)
<1> DEFINE m == 2 * Half
<1>1. Half \in Nat /\ Half >= 1 /\ m \in Nat /\ m > 0
  BY SchedulerAssumption
<1> HIDE DEF m
<1>2. \A y \in Int : y % m \in 0 .. m - 1 /\ (y \in 0 .. m - 1 => y % m = y)
  BY <1>1
<1>3. Signed(x) = ((x + Half) % m) - Half /\ x + Half \in Int
  BY <1>1 DEF Signed, m
<1>4. (x + Half) % m \in 0 .. m - 1 /\ (x + Half \in 0 .. m - 1 => (x + Half) % m = x + Half)
  BY <1>2, <1>3
<1>5. m = 2 * Half
  BY DEF m
<1>6. QED
  BY <1>1, <1>3, <1>4, <1>5 DEF Long

(***************************************************************************)
(* What task_get_next does to the flags: it chooses an awake task of the   *)
(* list, wakes at most that one, and that only if the head sleeps.         *)
(***************************************************************************)
Chose(q, aw, at, u, aw2, at2) ==
    /\ u \in Members(q)
    /\ aw2 \in [Task -> BOOLEAN] /\ at2 \in [Task -> Long]
    /\ aw2[u]
    /\ \A t \in Task : aw[t] => aw2[t]
    /\ \A t \in Task : aw2[t] /\ ~aw[t] => t = u /\ ~aw[Head(q)]
    /\ \A t \in Task : ~aw2[t] => at2[t] = at[t]

LEMMA ChoicesChose ==
  ASSUME NEW q \in Seq(Task), NEW i, NEW aw \in [Task -> BOOLEAN],
         NEW at \in [Task -> Long], NEW c \in Choices(q, i, aw, at)
  PROVE  Chose(q, aw, at, c.task, c.awake, c.at)
<1>1. PICK u \in Members(q) :
        /\ IsNextActive(q, i, aw, u)
        /\ c = [task  |-> u,
                awake |-> IF aw[Head(q)] THEN aw ELSE [aw EXCEPT ![u] = TRUE],
                at    |-> IF aw[Head(q)] THEN at ELSE [at EXCEPT ![u] = -1]]
  BY DEF Choices
<1>2. /\ c.task = u
      /\ c.awake = IF aw[Head(q)] THEN aw ELSE [aw EXCEPT ![u] = TRUE]
      /\ c.at = IF aw[Head(q)] THEN at ELSE [at EXCEPT ![u] = -1]
  BY <1>1
<1>3. u \in Task /\ -1 \in Long
  BY <1>1, LenProperties, ElementOfSeq, SchedulerAssumption DEF Members, Long
<1>4. CASE aw[Head(q)]
  <2>1. aw[u]
    BY <1>1, <1>4 DEF IsNextActive
  <2>2. QED
    BY <1>1, <1>2, <1>4, <2>1 DEF Chose
<1>5. CASE ~aw[Head(q)]
  BY <1>1, <1>2, <1>3, <1>5 DEF Chose
<1>6. QED
  BY <1>4, <1>5

LEMMA TaskNextChose ==
  ASSUME NEW q \in Seq(Task), NEW cur, NEW aw \in [Task -> BOOLEAN],
         NEW at \in [Task -> Long], task_next(q, cur, aw, at)
  PROVE  Chose(q, aw, at, current', awake', awakeAt')
  BY ChoicesChose DEF task_next

(* The members of a list of tasks are tasks. *)
LEMMA MembersAreTasks ==
  ASSUME NEW q \in Seq(Task)
  PROVE  Members(q) \subseteq Task /\ (q # <<>> => Head(q) \in Members(q) /\ Head(q) = q[1])
  BY LenProperties, ElementOfSeq, EmptySeq, HeadTailProperties DEF Members

-----------------------------------------------------------------------------
LEMMA InitSInv == Init => SInv
<1>1. SUFFICES ASSUME NEW t \in Task, Init, queue = <<t>>, current = t PROVE SInv
  BY DEF Init
<1>2. queue \in Seq(Task) /\ Len(queue) = 1 /\ queue[1] = t /\ queue # <<>>
  BY <1>1
<1>3. 0 \in Long /\ -1 \in -1 .. 2 * Half - 1 /\ 0 \in 0 .. MaxBirths
  BY SchedulerAssumption DEF Long
<1>4. TypeOK
  BY <1>1, <1>2, <1>3 DEF Init, TypeOK
<1>5. Live = {t} /\ Distinct(queue)
  BY <1>2 DEF Live, Members, Distinct
<1>6. QED
  BY <1>1, <1>2, <1>4, <1>5 DEF SInv, RunningIsAwake, SleepInv, Init

(* The reading of the clock at a timer interrupt, for a sleeper on time. *)
LEMMA TickOfSleeper ==
  ASSUME SInv, pit_interrupt, NEW t \in Live, ~awake[t], ~offClock[t]
  PROVE  /\ t \in Due(ticks') <=> remain'[t] = -1
         /\ t \notin Due(ticks') => remain'[t] >= 0 /\ awakeAt[t] = ticks' + remain'[t]
<1>1. /\ remain[t] >= 0 /\ awakeAt[t] = ticks + remain[t]
      /\ awakeAt[t] + Tick < Half /\ awakeAt[t] # -1
  BY DEF SInv, SleepInv
<1>2. /\ t \in Task /\ remain[t] \in Int /\ ticks \in Int /\ ticks >= -Half
      /\ Half \in Nat /\ Tick \in Nat /\ Tick >= 1
  BY MembersAreTasks, SchedulerAssumption DEF SInv, TypeOK, Live, Long
<1>3. ticks' = ticks + Tick
  <2>1. ticks + Tick \in Long /\ ticks + Tick \in Int
    BY <1>1, <1>2 DEF Long
  <2>2. QED
    BY <2>1, SignedLong DEF pit_interrupt
<1>4. remain'[t] = IF remain[t] >= Tick THEN remain[t] - Tick ELSE -1
  BY <1>2 DEF pit_interrupt, Slept
<1>5. t \in Due(ticks') <=> ticks' > awakeAt[t]
  BY <1>1 DEF Due
<1>6. QED
  BY <1>1, <1>2, <1>3, <1>4, <1>5

(* The flags task_next starts from at a timer interrupt. *)
TickAwake == [t \in Task |-> awake[t] \/ t \in Due(ticks')]
TickAt == [t \in Task |-> IF t \in Due(ticks') THEN -1 ELSE awakeAt[t]]

LEMMA PitChose ==
  ASSUME SInv, pit_interrupt
  PROVE  Chose(queue, TickAwake, TickAt, current', awake', awakeAt')
<1>1. TickAwake \in [Task -> BOOLEAN] /\ TickAt \in [Task -> Long]
  BY SchedulerAssumption DEF TickAwake, TickAt, SInv, TypeOK, Long
<1>2. task_next(queue, current, TickAwake, TickAt)
  BY DEF pit_interrupt, TickAwake, TickAt
<1>3. QED
  BY <1>1, <1>2, TaskNextChose DEF SInv, TypeOK

LEMMA PitSInv == ASSUME SInv, pit_interrupt PROVE SInv'
<1>1. Chose(queue, TickAwake, TickAt, current', awake', awakeAt')
  BY PitChose
<1>2. current' \in Live' /\ current' \in Task /\ awake'[current']
  BY <1>1, MembersAreTasks DEF Chose, Live, SInv, TypeOK, pit_interrupt
<1>3. TypeOK'
  <2>1. ticks' \in Long
    BY SignedLong, SchedulerAssumption DEF SInv, TypeOK, pit_interrupt, Long
  <2>2. remain' \in [Task -> -1 .. 2 * Half - 1]
    BY SchedulerAssumption DEF SInv, TypeOK, pit_interrupt, Slept
  <2>3. QED
    BY <1>1, <1>2, <2>1, <2>2 DEF SInv, TypeOK, pit_interrupt, Chose
<1>4. SleepInv'
  <2>1. SUFFICES ASSUME NEW t \in Live, ~awake'[t], ~offClock[t]
                 PROVE  /\ remain'[t] >= 0
                        /\ awakeAt'[t] = ticks' + remain'[t]
                        /\ awakeAt'[t] + Tick < Half
                        /\ awakeAt'[t] # -1
    BY DEF SleepInv, pit_interrupt, Live
  <2>2. t \in Task /\ ~TickAwake[t] /\ awakeAt'[t] = TickAt[t]
    BY <1>1, <2>1, MembersAreTasks DEF Chose, SInv, TypeOK, Live
  <2>3. ~awake[t] /\ t \notin Due(ticks') /\ awakeAt'[t] = awakeAt[t]
    BY <2>2 DEF TickAwake, TickAt
  <2>4. QED
    BY <2>1, <2>3, TickOfSleeper DEF SInv, SleepInv
<1>5. QED
  BY <1>2, <1>3, <1>4 DEF SInv, RunningIsAwake, pit_interrupt

LEMMA SleepChose ==
  ASSUME SInv, NEW m \in Sleeps, task_usleep(m)
  PROVE  Chose(queue, [awake EXCEPT ![current] = FALSE],
               [awakeAt EXCEPT ![current] = Signed(ticks + m)],
               current', awake', awakeAt')
<1>1. Signed(ticks + m) \in Long
  <2>1. ticks + m \in Int
    BY SchedulerAssumption DEF SInv, TypeOK, Long
  <2>2. QED
    BY <2>1, SignedLong
<1>2. QED
  BY <1>1, TaskNextChose DEF SInv, TypeOK, task_usleep

LEMMA SleepSInv == ASSUME SInv, NEW m \in Sleeps, task_usleep(m) PROVE SInv'
<1> DEFINE aw == [awake EXCEPT ![current] = FALSE]
<1> DEFINE at == [awakeAt EXCEPT ![current] = Signed(ticks + m)]
<1>1. Chose(queue, aw, at, current', awake', awakeAt')
  BY SleepChose
<1>2. current' \in Live' /\ current' \in Task /\ awake'[current']
  BY <1>1, MembersAreTasks DEF Chose, Live, SInv, TypeOK, task_usleep
<1>3. m \in 0 .. 2 * Half - 1 /\ m \in Int /\ ticks \in Int /\ ticks >= -Half
      /\ Half \in Nat /\ Tick \in Nat /\ Tick >= 1
  BY SchedulerAssumption DEF SInv, TypeOK, Long
<1>4. TypeOK'
  <2>1. remain' \in [Task -> -1 .. 2 * Half - 1]
    BY <1>3 DEF SInv, TypeOK, task_usleep
  <2>2. offClock' \in [Task -> BOOLEAN]
    <3>1. Unreadable(m) \in BOOLEAN
      BY DEF Unreadable
    <3>2. QED
      BY <3>1 DEF SInv, TypeOK, task_usleep
  <2>3. QED
    BY <1>1, <1>2, <2>1, <2>2 DEF SInv, TypeOK, task_usleep, Chose
<1>5. SleepInv'
  <2>1. SUFFICES ASSUME NEW t \in Live, ~awake'[t], ~offClock'[t]
                 PROVE  /\ remain'[t] >= 0
                        /\ awakeAt'[t] = ticks + remain'[t]
                        /\ awakeAt'[t] + Tick < Half
                        /\ awakeAt'[t] # -1
    BY DEF SleepInv, task_usleep, Live
  <2>2. t \in Task /\ ~aw[t] /\ awakeAt'[t] = at[t]
    BY <1>1, <2>1, MembersAreTasks DEF Chose, SInv, TypeOK, Live
  <2>3. CASE t = current
    <3>1. ~Unreadable(m) /\ remain'[t] = m /\ awakeAt'[t] = Signed(ticks + m)
      BY <2>1, <2>2, <2>3 DEF SInv, TypeOK, task_usleep
    <3>2. ticks + m + Tick < Half /\ ticks + m # -1
      BY <3>1, <1>3 DEF Unreadable
    <3>3. Signed(ticks + m) = ticks + m
      BY <3>2, <1>3, SignedLong DEF Long
    <3>4. QED
      BY <3>1, <3>2, <3>3, <1>3
  <2>4. CASE t # current
    <3>1. ~awake[t] /\ awakeAt'[t] = awakeAt[t] /\ remain'[t] = remain[t] /\ ~offClock[t]
      BY <2>1, <2>2, <2>4 DEF SInv, TypeOK, task_usleep
    <3>2. QED
      BY <3>1 DEF SInv, SleepInv
  <2>5. QED
    BY <2>3, <2>4
<1>6. QED
  BY <1>2, <1>4, <1>5 DEF SInv, RunningIsAwake, task_usleep

LEMMA NewSInv == ASSUME SInv, NEW t \in Task, task_new(t) PROVE SInv'
<1>1. /\ queue' \in Seq(Task) /\ queue' # <<>> /\ Live' = Live \cup {t}
      /\ t \notin Live /\ Distinct(queue')
  <2>1. queue' = Append(queue, t) /\ t \notin Members(queue) /\ queue \in Seq(Task)
    BY DEF SInv, TypeOK, task_new, Fresh, Live
  <2>2. queue' \in Seq(Task) /\ queue' # <<>>
    BY <2>1, AppendProperties
  <2>3. Members(queue') = Members(queue) \cup {t} /\ Distinct(queue')
    BY <2>1, AppendMembers DEF SInv
  <2>4. QED
    BY <2>1, <2>2, <2>3 DEF Live
<1>2. TypeOK'
  <2>1. births' \in 0 .. MaxBirths
    BY SchedulerAssumption DEF SInv, TypeOK, task_new, Fresh
  <2>2. 0 \in Long /\ -1 \in -1 .. 2 * Half - 1
    BY SchedulerAssumption DEF Long
  <2>3. QED
    BY <1>1, <2>1, <2>2 DEF SInv, TypeOK, task_new
<1>3. RunningIsAwake'
  BY <1>1 DEF SInv, TypeOK, RunningIsAwake, task_new
<1>4. SleepInv'
  <2>1. \A x \in Live : x \in Task /\ x # t
    BY <1>1, MembersAreTasks DEF SInv, TypeOK, Live
  <2>2. awake'[t]
    BY DEF SInv, TypeOK, task_new
  <2>3. \A x \in Live : /\ awake'[x] = awake[x] /\ awakeAt'[x] = awakeAt[x]
                        /\ remain'[x] = remain[x] /\ offClock'[x] = offClock[x]
    BY <2>1 DEF SInv, TypeOK, task_new
  <2>4. QED
    BY <1>1, <2>2, <2>3 DEF SInv, SleepInv, task_new
<1>5. QED
  BY <1>1, <1>2, <1>3, <1>4 DEF SInv

(***************************************************************************)
(* A fault handler that frees a task and loads the tasks of S: every task  *)
(* that stays and is not of S keeps its flag or is woken, and it is woken  *)
(* only if the head of the new list was asleep.                            *)
(***************************************************************************)
Frees(S) ==
    /\ queue' \in Seq(Task) /\ queue' # <<>> /\ Distinct(queue')
    /\ Live' \subseteq Live \cup S
    /\ current' \in Live' /\ awake'[current']
    /\ awake' \in [Task -> BOOLEAN] /\ awakeAt' \in [Task -> Long]
    /\ \A x \in S : awake'[x]
    /\ \A x \in Live' \ S : awake'[x] /\ ~awake[x] => ~awake[Head(queue')]
    /\ \A x \in Live' \ S : ~awake'[x] => ~awake[x] /\ awakeAt'[x] = awakeAt[x]

LEMMA RemoveChose ==
  ASSUME SInv, NEW t \in Live, Len(queue) > 1, NEW c \in task_list_remove(t),
         NEW q, q = Without(queue, IndexOf(queue, t))
  PROVE  /\ q \in Seq(Task) /\ q # <<>> /\ Distinct(q) /\ Members(q) = Live \ {t}
         /\ c.awake \in [Task -> BOOLEAN] /\ c.at \in [Task -> Long]
         /\ \A x \in Task : awake[x] => c.awake[x]
         /\ \A x \in Task : c.awake[x] /\ ~awake[x] => ~awake[Head(q)]
         /\ \A x \in Task : ~c.awake[x] => c.at[x] = awakeAt[x]
<1>1. IndexOf(queue, t) \in 1 .. Len(queue) /\ queue[IndexOf(queue, t)] = t
  BY IndexOfMember DEF SInv, TypeOK, Live
<1>2. q \in Seq(Task) /\ Len(q) = Len(queue) - 1
  BY <1>1, WithoutProperties DEF SInv, TypeOK
<1>3. Distinct(q) /\ Members(q) = Live \ {t}
  BY <1>1, WithoutMembers DEF SInv, TypeOK, Live
<1>4. q # <<>>
  BY <1>2, EmptySeq, LenProperties DEF SInv, TypeOK
<1>5. awake \in [Task -> BOOLEAN] /\ awakeAt \in [Task -> Long]
  BY DEF SInv, TypeOK
<1>6. CASE t = current
  <2>1. c \in Choices(q, IndexOf(queue, t) - 1, awake, awakeAt)
    BY <1>6 DEF task_list_remove
  <2>2. Chose(q, awake, awakeAt, c.task, c.awake, c.at)
    BY <2>1, <1>2, <1>5, ChoicesChose
  <2>3. QED
    BY <2>2, <1>2, <1>3, <1>4 DEF Chose
<1>7. CASE t # current
  <2>1. c.awake = awake /\ c.at = awakeAt
    BY <1>7 DEF task_list_remove
  <2>2. QED
    BY <2>1, <1>2, <1>3, <1>4, <1>5
<1>8. QED
  BY <1>6, <1>7

LEMMA CrashFrees ==
  ASSUME SInv, NEW t \in Task, NEW n \in Task, crash(t, n)
  PROVE  Frees({n})
<1> DEFINE q == Without(queue, IndexOf(queue, t))
<1>1. PICK c \in task_list_remove(t) :
        task_next(queue', c.task, [c.awake EXCEPT ![n] = TRUE], [c.at EXCEPT ![n] = 0])
  BY DEF crash
<1>2. /\ q \in Seq(Task) /\ q # <<>> /\ Distinct(q) /\ Members(q) = Live \ {t}
      /\ c.awake \in [Task -> BOOLEAN] /\ c.at \in [Task -> Long]
      /\ \A x \in Task : awake[x] => c.awake[x]
      /\ \A x \in Task : c.awake[x] /\ ~awake[x] => ~awake[Head(q)]
      /\ \A x \in Task : ~c.awake[x] => c.at[x] = awakeAt[x]
  BY <1>1, RemoveChose DEF crash
<1>3. queue' = Append(q, n) /\ n \notin Live \ {t}
  BY DEF crash, Fresh
<1> HIDE DEF q
<1>4. queue' \in Seq(Task) /\ queue' # <<>> /\ Head(queue') = Head(q)
  BY <1>2, <1>3, AppendProperties, LenProperties, EmptySeq
<1>5. Members(queue') = Members(q) \cup {n} /\ Distinct(queue')
  BY <1>2, <1>3, AppendMembers
<1>6. Head(q) \in Live \ {t} /\ Head(q) \in Task /\ Head(q) # n
  BY <1>2, <1>3, MembersAreTasks
<1> DEFINE aw == [c.awake EXCEPT ![n] = TRUE]
<1> DEFINE at == [c.at EXCEPT ![n] = 0]
<1>7. aw \in [Task -> BOOLEAN] /\ at \in [Task -> Long]
  BY <1>2, SchedulerAssumption DEF Long
<1>8. Chose(queue', aw, at, current', awake', awakeAt')
  BY <1>1, <1>4, <1>7, TaskNextChose
<1>9. /\ aw[n] /\ (~aw[Head(q)] => ~awake[Head(q)])
      /\ \A x \in Task \ {n} : aw[x] = c.awake[x] /\ at[x] = c.at[x]
  BY <1>2, <1>6
<1>10. Live' = (Live \ {t}) \cup {n} /\ Live' \subseteq Task
  BY <1>2, <1>4, <1>5, MembersAreTasks DEF Live
<1> HIDE DEF aw, at
<1>11. ASSUME NEW x \in Live' \ {n}
       PROVE  /\ awake'[x] /\ ~awake[x] => ~awake[Head(queue')]
              /\ ~awake'[x] => ~awake[x] /\ awakeAt'[x] = awakeAt[x]
  <2>1. x \in Task /\ aw[x] = c.awake[x] /\ at[x] = c.at[x]
    BY <1>9, <1>10
  <2>2. QED
    BY <2>1, <1>2, <1>4, <1>8, <1>9 DEF Chose
<1>12. current' \in Live' /\ awake'[current'] /\ awake'[n]
       /\ awake' \in [Task -> BOOLEAN] /\ awakeAt' \in [Task -> Long]
  BY <1>8, <1>9 DEF Chose, Live
<1>13. QED
  BY <1>4, <1>5, <1>10, <1>11, <1>12 DEF Frees

LEMMA UnreportedFrees ==
  ASSUME SInv, NEW t \in Task, crash_unreported(t)
  PROVE  Frees({})
<1>1. PICK c \in task_list_remove(t) : task_next(queue', c.task, c.awake, c.at)
  BY DEF crash_unreported
<1>2. /\ queue' \in Seq(Task) /\ queue' # <<>> /\ Distinct(queue')
      /\ Members(queue') = Live \ {t}
      /\ c.awake \in [Task -> BOOLEAN] /\ c.at \in [Task -> Long]
      /\ \A x \in Task : awake[x] => c.awake[x]
      /\ \A x \in Task : c.awake[x] /\ ~awake[x] => ~awake[Head(queue')]
      /\ \A x \in Task : ~c.awake[x] => c.at[x] = awakeAt[x]
  BY <1>1, RemoveChose DEF crash_unreported
<1>3. Chose(queue', c.awake, c.at, current', awake', awakeAt')
  BY <1>1, <1>2, TaskNextChose
<1>4. Live' = Live \ {t} /\ Live' \subseteq Task /\ Head(queue') \in Task
  BY <1>2, MembersAreTasks DEF Live
<1>5. ASSUME NEW x \in Live'
      PROVE  /\ awake'[x] /\ ~awake[x] => ~awake[Head(queue')]
             /\ ~awake'[x] => ~awake[x] /\ awakeAt'[x] = awakeAt[x]
  BY <1>2, <1>3, <1>4 DEF Chose
<1>6. current' \in Live' /\ awake'[current']
      /\ awake' \in [Task -> BOOLEAN] /\ awakeAt' \in [Task -> Long]
  BY <1>3 DEF Chose, Live
<1>7. QED
  BY <1>2, <1>4, <1>5, <1>6 DEF Frees

(* Freeing tasks keeps the invariant: what a sleeper that stays has still  *)
(* to sleep, and the clock, do not change.                                 *)
LEMMA FreesSInv ==
  ASSUME SInv, NEW S, Frees(S), UNCHANGED <<ticks, halted>>,
         births' \in 0 .. MaxBirths,
         remain' \in [Task -> -1 .. 2 * Half - 1], offClock' \in [Task -> BOOLEAN],
         \A x \in Live' \ S : remain'[x] = remain[x] /\ offClock'[x] = offClock[x]
  PROVE  SInv'
<1>1. Live' \subseteq Task
  BY MembersAreTasks DEF Frees, Live
<1>2. TypeOK'
  BY <1>1 DEF SInv, TypeOK, Frees
<1>3. SleepInv'
  <2>1. SUFFICES ASSUME NEW x \in Live', ~awake'[x], ~offClock'[x]
                 PROVE  /\ remain'[x] >= 0
                        /\ awakeAt'[x] = ticks' + remain'[x]
                        /\ awakeAt'[x] + Tick < Half
                        /\ awakeAt'[x] # -1
    BY DEF SleepInv
  <2>2. x \notin S /\ x \in Live /\ ~awake[x] /\ awakeAt'[x] = awakeAt[x]
    BY <2>1 DEF Frees
  <2>3. remain'[x] = remain[x] /\ ~offClock[x] /\ ticks' = ticks
    BY <2>1, <2>2
  <2>4. QED
    BY <2>2, <2>3 DEF SInv, SleepInv
<1>4. QED
  BY <1>2, <1>3 DEF SInv, Frees, RunningIsAwake

LEMMA CrashSInv ==
  ASSUME SInv, NEW t \in Task, NEW n \in Task, crash(t, n)
  PROVE  SInv'
<1>1. Frees({n}) /\ Live' \subseteq Task
  BY CrashFrees, MembersAreTasks DEF Frees, Live
<1>2. births' \in 0 .. MaxBirths
  BY SchedulerAssumption DEF SInv, TypeOK, crash, Fresh
<1>3. /\ remain' \in [Task -> -1 .. 2 * Half - 1] /\ offClock' \in [Task -> BOOLEAN]
      /\ UNCHANGED <<ticks, halted>>
  BY SchedulerAssumption DEF SInv, TypeOK, crash
<1>4. \A x \in Live' \ {n} : remain'[x] = remain[x] /\ offClock'[x] = offClock[x]
  BY <1>1 DEF SInv, TypeOK, crash
<1>5. QED
  BY <1>1, <1>2, <1>3, <1>4, FreesSInv

LEMMA UnreportedSInv ==
  ASSUME SInv, NEW t \in Task, crash_unreported(t)
  PROVE  SInv'
<1>1. Frees({})
  BY UnreportedFrees
<1>2. UNCHANGED <<ticks, halted, births, remain, offClock>>
  BY DEF crash_unreported, timeVars
<1>3. QED
  BY <1>1, <1>2, FreesSInv DEF SInv, TypeOK

LEMMA StutterSInv ==
  ASSUME SInv, UNCHANGED <<queue, current, awake, awakeAt, births, timeVars>>,
         halted' \in BOOLEAN
  PROVE  SInv'
  BY DEF SInv, TypeOK, RunningIsAwake, SleepInv, Live, timeVars

LEMMA SInvInductive == SInv /\ [Next]_vars => SInv'
<1>1. SUFFICES ASSUME SInv, [Next]_vars PROVE SInv'
  OBVIOUS
<1>2. CASE pit_interrupt
  BY <1>1, <1>2, PitSInv
<1>3. CASE \E m \in Sleeps : task_usleep(m)
  BY <1>1, <1>3, SleepSInv
<1>4. CASE \E t \in Task : task_new(t)
  BY <1>1, <1>4, NewSInv
<1>5. CASE \E t, n \in Task : crash(t, n)
  BY <1>1, <1>5, CrashSInv
<1>6. CASE \E t \in Task : crash_unreported(t)
  BY <1>1, <1>6, UnreportedSInv
<1>7. CASE crash_last
  BY <1>1, <1>7, StutterSInv DEF crash_last
<1>8. CASE UNCHANGED vars
  BY <1>1, <1>8, StutterSInv DEF vars, timeVars, SInv, TypeOK
<1>9. QED
  BY <1>1, <1>2, <1>3, <1>4, <1>5, <1>6, <1>7, <1>8 DEF Next, panic

LEMMA SInvHolds == Spec => []SInv
<1>1. Init => SInv
  BY InitSInv
<1>2. SInv /\ [Next]_vars => SInv'
  BY SInvInductive
<1>3. QED
  BY <1>1, <1>2, PTL DEF Spec

-----------------------------------------------------------------------------
(* Every variable of the scheduler keeps its type: the clock wraps as a    *)
(* long and so do the wake-up times computed from it.                      *)
THEOREM SchedulerTypes == Spec => []TypeOK
<1>1. SInv => TypeOK
  BY DEF SInv
<1>2. QED
  BY <1>1, SInvHolds, PTL

(* Every handler of the kernel returns to a task that is on the list and   *)
(* awake (task_next, task_list_remove).                                    *)
THEOREM RunningAwake == Spec => []RunningIsAwake
<1>1. SInv => RunningIsAwake
  BY DEF SInv
<1>2. QED
  BY <1>1, SInvHolds, PTL

(* A sleeper whose wake-up time the clock can show has still to sleep what *)
(* awake_at says (task_usleep, task_wake_tasks).                           *)
THEOREM SleepersTimed == Spec => []SleepersOnTime
<1>1. SInv => SleepersOnTime
  BY DEF SInv, SleepInv, SleepersOnTime
<1>2. QED
  BY <1>1, SInvHolds, PTL

(* Nobody is woken early while the head of the list is awake               *)
(* (task_get_next_active_task, task_get_awake_count).                      *)
THEOREM EarlyWake == Spec => EarlyWakeOnlyIfHeadSleeps
<1> DEFINE Woken(t) == t \in Live \cap Members(queue') /\ ~awake[t] /\ awake'[t] /\ ~offClock[t]
<1> DEFINE Excused(t) == \/ remain'[t] = -1
                         \/ ~awake[Head(queue')]
                         \/ ~awake'[Head(queue')]
<1>1. ASSUME SInv, [Next]_vars, NEW t, Woken(t) PROVE Excused(t)
  <2>1. t \in Task /\ t \in Live /\ Head(queue) \in Live /\ Head(queue) \in Task
    BY <1>1, MembersAreTasks DEF SInv, TypeOK, Live
  <2>2. CASE pit_interrupt
    <3>1. Chose(queue, TickAwake, TickAt, current', awake', awakeAt') /\ queue' = queue
      BY <1>1, <2>2, PitChose DEF pit_interrupt
    <3>2. CASE t \in Due(ticks')
      BY <1>1, <2>1, <2>2, <3>2, TickOfSleeper
    <3>3. CASE t \notin Due(ticks')
      <4>1. ~TickAwake[t]
        BY <1>1, <2>1, <3>3 DEF TickAwake
      <4>2. ~TickAwake[Head(queue)]
        BY <1>1, <2>1, <3>1, <4>1 DEF Chose
      <4>3. QED
        BY <2>1, <3>1, <4>2 DEF TickAwake
    <3>4. QED
      BY <3>2, <3>3
  <2>3. ASSUME NEW m \in Sleeps, task_usleep(m) PROVE Excused(t)
    <3> DEFINE aw == [awake EXCEPT ![current] = FALSE]
    <3>1. Chose(queue, aw, [awakeAt EXCEPT ![current] = Signed(ticks + m)],
                current', awake', awakeAt') /\ queue' = queue
      BY <1>1, <2>3, SleepChose DEF task_usleep
    <3>2. t # current /\ ~aw[t] /\ awake[current] /\ current \in Task
          /\ \A x \in Task \ {current} : aw[x] = awake[x]
      BY <1>1, <2>1 DEF SInv, TypeOK, RunningIsAwake
    <3>3. t = current' /\ ~aw[Head(queue)]
      BY <1>1, <2>1, <3>1, <3>2 DEF Chose
    <3>4. CASE Head(queue) # current
      BY <2>1, <3>1, <3>2, <3>3, <3>4
    <3>5. CASE Head(queue) = current
      BY <2>1, <3>1, <3>2, <3>3, <3>5 DEF Chose
    <3>6. QED
      BY <3>4, <3>5
  <2>4. ASSUME NEW u \in Task, task_new(u) PROVE Excused(t)
    <3>1. CASE t = u
      BY <1>1, <2>1, <2>4, <3>1 DEF SInv, TypeOK, task_new
    <3>2. CASE t # u
      BY <1>1, <2>1, <2>4, <3>2 DEF SInv, TypeOK, task_new
    <3>3. QED
      BY <3>1, <3>2
  <2>5. ASSUME NEW u \in Task, NEW n \in Task, crash(u, n) PROVE Excused(t)
    <3>1. Frees({n})
      BY <1>1, <2>5, CrashFrees
    <3>2. CASE t = n
      BY <1>1, <2>1, <2>5, <3>2 DEF crash, SInv, TypeOK
    <3>3. CASE t # n
      BY <1>1, <3>1, <3>3 DEF Frees, Live
    <3>4. QED
      BY <3>2, <3>3
  <2>6. ASSUME NEW u \in Task, crash_unreported(u) PROVE Excused(t)
    BY <1>1, <2>6, UnreportedFrees DEF Frees, Live
  <2>7. CASE crash_last \/ UNCHANGED vars
    <3>1. awake' = awake
      BY <2>7 DEF crash_last, vars
    <3>2. QED
      BY <1>1, <3>1
  <2>8. QED
    BY <1>1, <2>2, <2>3, <2>4, <2>5, <2>6, <2>7 DEF Next, panic
<1> DEFINE A == \A t \in Live \cap Members(queue') :
                  ~awake[t] /\ awake'[t] /\ ~offClock[t] => Excused(t)
<1>2. SInv /\ [Next]_vars => [A]_vars
  BY <1>1
<1>3. QED
  BY <1>2, SInvHolds, PTL DEF Spec, EarlyWakeOnlyIfHeadSleeps

-----------------------------------------------------------------------------
(* The keyboard and its listeners. *)

(* Where the kernel is in building the list, and what the list is then.    *)
Building ==
    \/ /\ boot = <<"keyboard_init", "scrollkeylistener_init", "keyboard_listener_init">>
       /\ next = [l \in Listener |-> Null]
       /\ first = Null /\ last = Null
    \/ /\ boot = <<"scrollkeylistener_init", "keyboard_listener_init">>
       /\ next = [l \in Listener |-> Null]
       /\ first = fkeylistener /\ last = fkeylistener
    \/ /\ boot = <<"keyboard_listener_init">>
       /\ next = [l \in Listener |-> IF l = fkeylistener THEN scrollkeylistener ELSE Null]
       /\ first = fkeylistener /\ last = scrollkeylistener

(* The list the interrupts walk: the link of the first listener is the one *)
(* keyboard_init left behind.                                              *)
Built ==
    /\ boot = <<>>
    /\ next = [l \in Listener |-> IF l = fkeylistener THEN scrollkeylistener ELSE Null]
    /\ first = fkeylistener

Walking ==
    \/ walk.at = Null /\ called \in {<<Null>>, <<fkeylistener, scrollkeylistener>>}
    \/ Built /\ walk.at = fkeylistener /\ called = <<>>
    \/ Built /\ walk.at = scrollkeylistener /\ called = <<fkeylistener>>

ListInv == /\ walk \in [key : Special \cup {NoKey}, at : Listener \cup {Null}]
           /\ y_scroll \in Int
           /\ Building \/ Built
           /\ Walking

(* A walk about a special key that is on is about one that was up.         *)
FreshInv == /\ SpecialIsDown
            /\ walk.at # Null /\ walk.key \in {Up, Down} /\ special_keys[walk.key] => fresh

-----------------------------------------------------------------------------
LEMMA IndexInRing ==
  ASSUME NEW count \in Nat
  PROVE  Index(count) \in 0 .. Size - 1 /\ Next32(count) \in 0 .. Width - 1
<1>1. Size \in Nat /\ Size > 0 /\ Width \in Nat /\ Width > 0
  BY KeyboardAssumption
<1>2. \A n \in Nat : n > 0 => count % n \in 0 .. n - 1 /\ (count + 1) % n \in 0 .. n - 1
  OBVIOUS
<1>3. QED
  BY <1>1, <1>2 DEF Index, Next32

LEMMA TypesInit == LInit => KeyboardTypeOK
<1>1. 0 \in 0 .. Width - 1
  BY KeyboardAssumption
<1>2. QED
  BY <1>1 DEF LInit, KeyboardInit, KeyboardTypeOK

LEMMA TypesStep == KeyboardTypeOK /\ [LNext]_lvars => KeyboardTypeOK'
<1> SUFFICES ASSUME KeyboardTypeOK, [LNext]_lvars
             PROVE  KeyboardTypeOK'
  OBVIOUS
<1>1. /\ Index(head) \in 0 .. Size - 1 /\ Next32(head) \in 0 .. Width - 1
      /\ Index(tail) \in 0 .. Size - 1 /\ Next32(tail) \in 0 .. Width - 1
  <2>1. head \in Nat /\ tail \in Nat
    BY KeyboardAssumption DEF KeyboardTypeOK
  <2>2. QED
    BY <2>1, IndexInRing
<1>2. ASSUME NEW c \in Key, keyboard_push(c)
      PROVE  KeyboardTypeOK'
  BY <1>1, <1>2 DEF KeyboardTypeOK, keyboard_push
<1>3. CASE keyboard_pop
  <2>1. buffer[Index(head)] \in Key \cup {NoKey}
    BY <1>1 DEF KeyboardTypeOK
  <2>2. QED
    BY <1>1, <1>3, <2>1 DEF KeyboardTypeOK, keyboard_pop
<1>4. ASSUME NEW s \in Special, press(s) \/ release(s)
      PROVE  KeyboardTypeOK'
  BY <1>4 DEF KeyboardTypeOK, press, release, ringVars, keyboard_special_on, keyboard_special_off
<1>5. CASE UNCHANGED keyboardVars
  BY <1>5 DEF KeyboardTypeOK, keyboardVars
<1>6. QED
  BY <1>2, <1>3, <1>4, <1>5
  DEF LNext, lvars, Typed, SpecialChanges, Pop, Call, keyboard_init,
      scrollkeylistener_init, keyboard_listener_init, BootStep

(* The keyboard's variables keep their types, counters that overflow       *)
(* included (keyboard_push, keyboard_pop).                                 *)
THEOREM KeyboardTypes == LSpec => []KeyboardTypeOK
<1>1. QED
  BY TypesInit, TypesStep, PTL DEF LSpec

-----------------------------------------------------------------------------
LEMMA ListInit == LInit => ListInv
<1>1. NoKey \in Special \cup {NoKey}
  OBVIOUS
<1>2. QED
  BY <1>1 DEF LInit, ListInv, Building, Walking

(* A step of the boot: no interrupt comes, and no walk is under way. *)
LEMMA BootKeepsList ==
  ASSUME ListInv, keyboard_init \/ scrollkeylistener_init \/ keyboard_listener_init
  PROVE  ListInv'
<1>1. boot # <<>> /\ UNCHANGED <<walk, called, y_scroll>>
  BY DEF keyboard_init, scrollkeylistener_init, keyboard_listener_init, BootStep, walkVars
<1>2. Building /\ walk.at = Null
  BY <1>1, ListenersAssumption DEF ListInv, Built, Walking
<1>3. Walking'
  BY <1>1, <1>2, ListenersAssumption DEF ListInv, Walking, Listener, Built
<1>4. (Building \/ Built)'
  <2>1. CASE keyboard_init
    <3>1. boot = <<"keyboard_init", "scrollkeylistener_init", "keyboard_listener_init">>
      BY <1>2, <2>1 DEF Building, keyboard_init, BootStep
    <3>2. last = Null /\ next = [l \in Listener |-> Null]
      BY <1>2, <3>1 DEF Building
    <3>3. boot' = <<"scrollkeylistener_init", "keyboard_listener_init">>
      BY <2>1, <3>1 DEF keyboard_init, BootStep
    <3>4. QED
      BY <2>1, <3>2, <3>3 DEF Building, keyboard_init, keyboard_listener_register
  <2>2. CASE scrollkeylistener_init
    <3>1. boot = <<"scrollkeylistener_init", "keyboard_listener_init">>
      BY <1>2, <2>2 DEF Building, scrollkeylistener_init, BootStep
    <3>2. last = fkeylistener /\ first = fkeylistener /\ next = [l \in Listener |-> Null]
      BY <1>2, <3>1 DEF Building
    <3>3. boot' = <<"keyboard_listener_init">>
      BY <2>2, <3>1 DEF scrollkeylistener_init, BootStep
    <3>4. next' = [l \in Listener |-> IF l = fkeylistener THEN scrollkeylistener ELSE Null]
      BY <2>2, <3>2, ListenersAssumption
      DEF scrollkeylistener_init, keyboard_listener_register, Listener
    <3>5. first' = fkeylistener /\ last' = scrollkeylistener
      BY <2>2, <3>2, ListenersAssumption
      DEF scrollkeylistener_init, keyboard_listener_register
    <3>6. QED
      BY <3>3, <3>4, <3>5 DEF Building
  <2>3. CASE keyboard_listener_init
    <3>1. boot = <<"keyboard_listener_init">>
      BY <1>2, <2>3 DEF Building, keyboard_listener_init, BootStep
    <3>2. next = [l \in Listener |-> IF l = fkeylistener THEN scrollkeylistener ELSE Null]
      BY <1>2, <3>1 DEF Building
    <3>3. boot' = <<>>
      BY <2>3, <3>1 DEF keyboard_listener_init, BootStep
    <3>4. next' = next /\ first' = fkeylistener
      BY <2>3 DEF keyboard_listener_init, keyboard_listener_register
    <3>5. QED
      BY <3>2, <3>3, <3>4 DEF Built
  <2>4. QED
    BY <2>1, <2>2, <2>3
<1>5. QED
  BY <1>1, <1>3, <1>4 DEF ListInv

(* What Append does, position by position. *)
LEMMA AppendPositions ==
  ASSUME NEW S, NEW q \in Seq(S), NEW x \in S
  PROVE  /\ Append(q, x) \in Seq(S)
         /\ Len(Append(q, x)) = Len(q) + 1 /\ Append(q, x)[Len(q) + 1] = x
         /\ \A j \in 1 .. Len(q) : Append(q, x)[j] = q[j]
  BY AppendProperties, LenProperties

(* A sequence of one element, with another at its end. *)
LEMMA AppendOne ==
  ASSUME NEW S, NEW one \in Seq(S), NEW two \in Seq(S), NEW b \in S
  PROVE  Len(one) = 1 /\ Len(two) = 2 /\ one[1] = two[1] /\ two[2] = b
           => Append(one, b) = two
<1> DEFINE r == Append(one, b)
<1>1. /\ r \in Seq(S) /\ Len(r) = Len(one) + 1 /\ r[Len(one) + 1] = b
      /\ \A i \in 1 .. Len(one) : r[i] = one[i]
  BY AppendPositions
<1> HIDE DEF r
<1> SUFFICES ASSUME Len(one) = 1, Len(two) = 2, one[1] = two[1], two[2] = b
             PROVE  r = two
  BY DEF r
<1>2. Len(r) = 2 /\ r[2] = b /\ r[1] = one[1]
  BY <1>1
<1>3. \A i \in 1 .. Len(r) : r[i] = two[i]
  BY <1>2
<1>4. QED
  BY <1>1, <1>2, <1>3, SeqEqual

LEMMA CallKeepsList ==
  ASSUME ListInv, Call
  PROVE  ListInv'
<1>1. Built /\ Built'
  <2>1. walk.at # Null
    BY DEF Call
  <2>2. QED
    BY <2>1 DEF Walking, ListInv, Call, Built, listVars
<1>2. /\ next[fkeylistener] = scrollkeylistener /\ next[scrollkeylistener] = Null
      /\ walk'.at = next[walk.at] /\ walk'.key = walk.key
      /\ walk' \in [key : Special \cup {NoKey}, at : Listener \cup {Null}]
  BY <1>1, ListenersAssumption DEF Built, Call, ListInv, Listener, Walking
<1>3. Walking'
  <2>1. CASE walk.at = fkeylistener
    <3>1. called = <<>>
      BY <2>1, ListenersAssumption DEF ListInv, Walking
    <3>2. called' = <<fkeylistener>>
      BY <2>1, <3>1 DEF Call, MaxCalled
    <3>3. QED
      BY <1>1, <1>2, <2>1, <3>2 DEF Walking
  <2>2. CASE walk.at = scrollkeylistener
    <3>1. called = <<fkeylistener>>
      BY <2>2, ListenersAssumption DEF ListInv, Walking
    <3>2. called' = Append(called, scrollkeylistener)
      BY <2>2, <3>1 DEF Call, MaxCalled
    <3> DEFINE two == <<fkeylistener, scrollkeylistener>>
    <3>3. /\ called \in Seq(Listener) /\ Len(called) = 1 /\ called[1] = two[1]
          /\ two \in Seq(Listener) /\ Len(two) = 2 /\ two[2] = scrollkeylistener
          /\ scrollkeylistener \in Listener
      BY <3>1 DEF Listener
    <3> HIDE DEF two
    <3>4. called' = two
      BY <3>2, <3>3, AppendOne
    <3>5. QED
      BY <1>1, <1>2, <2>2, <3>4 DEF Walking, two
  <2>3. QED
    BY <2>1, <2>2 DEF ListInv, Walking, Call
<1>4. y_scroll' \in Int
  BY DEF ListInv, Call, scrollkeylistener_special
<1>5. QED
  BY <1>1, <1>2, <1>3, <1>4 DEF ListInv

LEMMA ListStep == ListInv /\ [LNext]_lvars => ListInv'
<1> SUFFICES ASSUME ListInv, [LNext]_lvars
             PROVE  ListInv'
  OBVIOUS
<1>1. CASE keyboard_init \/ scrollkeylistener_init \/ keyboard_listener_init
  BY <1>1, BootKeepsList
<1>2. CASE Call
  BY <1>2, CallKeepsList
<1>3. CASE Idle /\ (Typed \/ SpecialChanges \/ Pop) /\ UNCHANGED <<boot, listVars, y_scroll>>
  <2>1. Built /\ Built' /\ walk.at = Null /\ y_scroll' \in Int
    BY <1>3, ListenersAssumption DEF Idle, ListInv, Building, Built, listVars
  <2>2. CASE UNCHANGED <<walk, called>>
    BY <2>1, <2>2, ListenersAssumption DEF ListInv, Walking
  <2>3. ASSUME NEW key \in Special \cup {NoKey}, Walk(key)
        PROVE  ListInv'
    BY <2>1, <2>3, ListenersAssumption DEF ListInv, Walk, Walking, Built, Listener
  <2>4. QED
    BY <1>3, <2>2, <2>3 DEF Typed, SpecialChanges, Pop, walkVars
<1>4. CASE UNCHANGED lvars
  BY <1>4 DEF lvars, listVars, walkVars, ListInv, Building, Built, Walking
<1>5. QED
  BY <1>1, <1>2, <1>3, <1>4 DEF LNext

(* Each listener hears of each key once, in the order of keyboard_init,    *)
(* although keyboard_listener_init forgets the list.                       *)
THEOREM ListenersHear == LSpec => []EveryListenerHears
<1>1. ListInv => EveryListenerHears
  BY ListenersAssumption DEF ListInv, Walking, EveryListenerHears, Listener
<1>2. QED
  BY <1>1, ListInit, ListStep, PTL DEF LSpec

-----------------------------------------------------------------------------
LEMMA FreshInit == LInit => FreshInv
<1>1. ASSUME LInit
      PROVE  walk.at = Null
  BY <1>1 DEF LInit
<1>2. QED
  BY <1>1 DEF LInit, KeyboardInit, FreshInv, SpecialIsDown

LEMMA FreshStep == KeyboardTypeOK /\ FreshInv /\ [LNext]_lvars => FreshInv'
<1> SUFFICES ASSUME KeyboardTypeOK, FreshInv, [LNext]_lvars
             PROVE  FreshInv'
  OBVIOUS
<1>1. CASE UNCHANGED <<keyboardVars, walkVars>>
  BY <1>1 DEF FreshInv, SpecialIsDown, keyboardVars, walkVars
<1>2. CASE Call
  BY <1>2 DEF Call, FreshInv, SpecialIsDown, keyboardVars
<1>3. CASE Idle /\ Typed
  BY <1>3 DEF Typed, keyboard_push, FreshInv, SpecialIsDown
<1>4. ASSUME NEW s \in Special, press(s) \/ release(s), walk.at = Null,
             IF Alert(s) THEN Walk(s) ELSE UNCHANGED <<walk, called>>,
             fresh' = (s \notin down)
      PROVE  FreshInv'
  <2>1. SpecialIsDown'
    BY <1>4 DEF FreshInv, SpecialIsDown, press, release, keyboard_special_on,
                keyboard_special_off, KeyboardTypeOK
  <2>2. CASE ~Alert(s)
    BY <1>4, <2>1, <2>2 DEF FreshInv
  <2>3. CASE Alert(s) /\ s \in {Up, Down} /\ special_keys'[s]
    <3>1. ~special_keys[s] /\ s # CapsLock
      BY <2>3, ListenersAssumption DEF Alert, KeyboardTypeOK
    <3>2. s \notin down
      BY <3>1 DEF FreshInv, SpecialIsDown
    <3>3. QED
      BY <1>4, <2>1, <3>2 DEF FreshInv
  <2>4. CASE Alert(s) /\ ~(s \in {Up, Down} /\ special_keys'[s])
    BY <1>4, <2>1, <2>4 DEF FreshInv, Walk
  <2>5. QED
    BY <2>2, <2>3, <2>4
<1>5. CASE Idle /\ Pop
  BY <1>5 DEF Pop, keyboard_pop, walkVars, FreshInv, SpecialIsDown
<1>6. QED
  BY <1>1, <1>2, <1>3, <1>4, <1>5
  DEF LNext, lvars, Idle, SpecialChanges, keyboard_init, scrollkeylistener_init,
      keyboard_listener_init, BootStep

(* A special key other than caps lock is on exactly while it is held down  *)
(* (keyboard_special_on, keyboard_special_off).                            *)
THEOREM SpecialFollowsKey == LSpec => []SpecialIsDown
<1>1. FreshInv => SpecialIsDown
  BY DEF FreshInv
<1>2. QED
  BY <1>1, TypesInit, TypesStep, FreshInit, FreshStep, PTL DEF LSpec

(* A key held down moves the view once, however often it is reported.      *)
THEOREM ScrollsOnce == LSpec => ScrollsOncePerPress
<1>1. FreshInv /\ [LNext]_lvars => [y_scroll' # y_scroll => fresh]_lvars
  <2> SUFFICES ASSUME FreshInv, Call, y_scroll' # y_scroll
               PROVE  fresh
    BY DEF LNext, lvars, keyboard_init, scrollkeylistener_init, keyboard_listener_init,
           BootStep
  <2>1. walk.key \in {Up, Down} /\ special_keys[walk.key] /\ walk.at # Null
    BY DEF Call, scrollkeylistener_special
  <2>2. QED
    BY <2>1 DEF FreshInv
<1>2. QED
  BY <1>1, TypesInit, TypesStep, FreshInit, FreshStep, PTL DEF LSpec, ScrollsOncePerPress
-----------------------------------------------------------------------------
(* Until a key is overrun, the entries from head to tail are the ones with *)
(* a key; that makes the ring a queue.                                     *)
RingInv ==
    ~overrun =>
        /\ Pending <= Size
        /\ \A j \in 0 .. Size - 1 : buffer[Index(head + j)] # NoKey <=> j < Pending

(* A count that has wrapped leads to the same entry of the ring. *)
LEMMA IndexOfSum ==
  ASSUME NEW a \in Int, NEW j \in Int
  PROVE  /\ Index((a % Width) + j) = Index(a + j)
         /\ Index(a % Width) = Index(a)
         /\ Index(a + Size) = Index(a)
         /\ Index(a) \in 0 .. Size - 1
<1>1. Size \in Nat \ {0} /\ Width \in Nat \ {0} /\ Width % Size = 0
  BY KeyboardAssumption
<1>2. ASSUME NEW x \in Int, NEW c \in Int
      PROVE  (x + Size * c) % Size = x % Size
  <2> DEFINE q == x \div Size
             r == x % Size
  <2>1. q \in Int /\ r \in 0 .. Size - 1 /\ x = Size * q + r
    BY <1>1, DivMod
  <2> HIDE DEF q, r
  <2>2. x + Size * c = Size * (q + c) + r /\ q + c \in Int
    BY <1>1, <2>1
  <2>3. (Size * (q + c) + r) % Size = r
    BY <1>1, <2>1, <2>2, DivUnique
  <2>4. QED
    BY <2>2, <2>3 DEF r
<1> DEFINE w == Width \div Size
           m == a \div Width
           b == a % Width
<1>3. w \in Int /\ Width = Size * w
  <2>1. w \in Int /\ Width = Size * w + 0
    BY <1>1, DivMod
  <2> HIDE DEF w
  <2>2. QED
    BY <1>1, <2>1
<1>4. m \in Int /\ b \in Int /\ a = Width * m + b
  BY <1>1, DivMod
<1> HIDE DEF w, m, b
<1>5. b = a + Size * (-(w * m)) /\ -(w * m) \in Int
  BY <1>1, <1>3, <1>4
<1>6. b + j = (a + j) + Size * (-(w * m))
  <2> DEFINE c == Size * (-(w * m))
  <2>1. c \in Int
    BY <1>1, <1>5
  <2>2. b = a + c
    BY <1>5
  <2> HIDE DEF c
  <2>3. b + j = (a + j) + c
    BY <2>1, <2>2
  <2>4. QED
    BY <2>3 DEF c
<1>7. (b + j) % Size = (a + j) % Size /\ b % Size = a % Size
  BY <1>2, <1>5, <1>6
<1>8. (a + Size) % Size = a % Size
  <2>1. a + Size = a + Size * 1
    BY <1>1
  <2>2. QED
    BY <1>2, <2>1
<1>9. a % Size \in 0 .. Size - 1
  BY <1>1
<1>10. QED
  BY <1>7, <1>8, <1>9 DEF Index, b

(* Less than a round apart, two counts lead to two entries. *)
LEMMA IndexDiffers ==
  ASSUME NEW a \in Int, NEW i \in 0 .. Size - 1, NEW j \in 0 .. Size - 1,
         Index(a + i) = Index(a + j)
  PROVE  i = j
<1>1. Size \in Nat \ {0}
  BY KeyboardAssumption
<1> DEFINE x == a + i
           y == a + j
           d == (x \div Size) - (y \div Size)
<1>2. x \in Int /\ y \in Int /\ x % Size = y % Size
  BY <1>1 DEF Index
<1>3. d \in Int /\ Size * d = x - y
  <2>1. /\ x \div Size \in Int /\ x = Size * (x \div Size) + (x % Size) /\ x % Size \in Int
        /\ y \div Size \in Int /\ y = Size * (y \div Size) + (y % Size)
    BY <1>1, <1>2, DivMod
  <2> HIDE DEF x, y
  <2>2. QED
    BY <1>1, <1>2, <2>1
<1>4. x - y = i - j /\ i - j < Size /\ -Size < i - j
  BY <1>1
<1> HIDE DEF x, y, d
<1>5. Size * d < Size * 1 /\ Size * (-1) < Size * d
  BY <1>1, <1>3, <1>4
<1>6. d < 1 /\ -1 < d
  BY <1>1, <1>3, <1>5, TimesLess
<1>7. QED
  BY <1>1, <1>3, <1>4, <1>6

(* The tail is as far behind the head as keys are pending, and a key more  *)
(* or less moves the one or the other by one.                              *)
LEMMA PendingKeys ==
  ASSUME KeyboardTypeOK
  PROVE  /\ Pending \in 0 .. Width - 1
         /\ tail = (head + Pending) % Width
         /\ Pending + 1 < Width => (Next32(tail) - head) % Width = Pending + 1
         /\ Pending > 0 => (tail - Next32(head)) % Width = Pending - 1
<1>1. Width \in Nat \ {0} /\ tail \in 0 .. Width - 1 /\ head \in 0 .. Width - 1
  BY KeyboardAssumption DEF KeyboardTypeOK
<1> DEFINE p == Pending
           q == (tail - head) \div Width
<1>2. p \in 0 .. Width - 1 /\ q \in Int /\ tail - head = Width * q + p
  BY <1>1, DivMod DEF Pending
<1> HIDE DEF p, q
<1>3. tail = (head + p) % Width
  <2>1. head + p = Width * (-q) + tail /\ -q \in Int
    BY <1>1, <1>2
  <2>2. QED
    BY <1>1, <2>1, DivUnique
<1>4. ASSUME p + 1 < Width PROVE (Next32(tail) - head) % Width = p + 1
  <2> DEFINE s == (tail + 1) \div Width
             n == (tail + 1) % Width
  <2>1. s \in Int /\ n \in Int /\ tail + 1 = Width * s + n
    BY <1>1, DivMod
  <2> HIDE DEF s, n
  <2>2. n - head = Width * (q - s) + (p + 1) /\ q - s \in Int
    BY <1>1, <1>2, <2>1
  <2>3. p + 1 \in 0 .. Width - 1
    BY <1>1, <1>2, <1>4
  <2>4. (n - head) % Width = p + 1
    BY <1>1, <2>2, <2>3, DivUnique
  <2>5. QED
    BY <2>4 DEF n, Next32
<1>5. ASSUME p > 0 PROVE (tail - Next32(head)) % Width = p - 1
  <2> DEFINE s == (head + 1) \div Width
             n == (head + 1) % Width
  <2>1. s \in Int /\ n \in Int /\ head + 1 = Width * s + n
    BY <1>1, DivMod
  <2> HIDE DEF s, n
  <2>2. tail - n = Width * (q + s) + (p - 1) /\ q + s \in Int
    BY <1>1, <1>2, <2>1
  <2>3. p - 1 \in 0 .. Width - 1
    BY <1>1, <1>2, <1>5
  <2>4. (tail - n) % Width = p - 1
    BY <1>1, <2>2, <2>3, DivUnique
  <2>5. QED
    BY <2>4 DEF n, Next32
<1>6. QED
  BY <1>2, <1>3, <1>4, <1>5 DEF p

LEMMA RingInit == LInit => KeyboardTypeOK /\ RingInv
<1> SUFFICES ASSUME LInit PROVE KeyboardTypeOK /\ RingInv
  OBVIOUS
<1>1. KeyboardTypeOK
  BY TypesInit
<1>2. Size \in Nat \ {0} /\ Width \in Nat \ {0} /\ head = 0 /\ tail = 0
  BY KeyboardAssumption DEF LInit, KeyboardInit
<1>3. \A j \in 0 .. Size - 1 : buffer[Index(head + j)] = NoKey
  <2>1. ASSUME NEW j \in 0 .. Size - 1 PROVE Index(head + j) \in 0 .. Size - 1
    BY <1>2, IndexOfSum
  <2>2. QED
    BY <2>1 DEF LInit, KeyboardInit
<1>4. Pending = 0
  BY <1>2 DEF Pending
<1>5. QED
  BY <1>1, <1>2, <1>3, <1>4 DEF RingInv

(* keyboard_push on a ring that is not full. *)
Pushed(c) == /\ Pending < Size
             /\ Pending' = Pending + 1
             /\ \A i \in 1 .. Pending + 1 :
                   buffer'[Index(head' + i - 1)] =
                     IF i = Pending + 1 THEN c ELSE buffer[Index(head + i - 1)]

LEMMA PushOnRing ==
  ASSUME KeyboardTypeOK, RingInv, ~overrun, NEW c \in Key, keyboard_push(c)
  PROVE  /\ RingInv'
         /\ overrun' => Pending = Size
         /\ ~overrun' => Pushed(c)
<1>1. Size \in Nat \ {0} /\ Width \in Nat /\ Size < Width /\ head \in Nat /\ c # NoKey
  BY KeyboardAssumption DEF KeyboardTypeOK
<1>2. /\ Pending \in 0 .. Width - 1 /\ tail = (head + Pending) % Width
      /\ Pending <= Size
      /\ \A j \in 0 .. Size - 1 : buffer[Index(head + j)] # NoKey <=> j < Pending
  BY PendingKeys DEF RingInv
<1> DEFINE p == Pending
<1> HIDE DEF p
<1>3. Index(tail) = Index(head + p) /\ Index(tail) \in 0 .. Size - 1
  <2>1. head + p \in Int
    BY <1>1, <1>2 DEF p
  <2>2. QED
    BY <1>2, <2>1, IndexOfSum DEF p
<1>4. /\ buffer' = [buffer EXCEPT ![Index(tail)] = c] /\ tail' = Next32(tail) /\ head' = head
      /\ overrun' = (buffer[Index(tail)] # NoKey)
  BY DEF keyboard_push
<1>5. CASE p = Size
  <2>1. Index(head + p) = Index(head + 0)
    BY <1>1, <1>5, IndexOfSum
  <2>2. buffer[Index(head + 0)] # NoKey
    BY <1>1, <1>2, <1>5 DEF p
  <2>3. overrun'
    BY <1>3, <1>4, <2>1, <2>2
  <2>4. QED
    BY <1>5, <2>3 DEF RingInv, p
<1>6. CASE p < Size
  <2>1. p \in 0 .. Size - 1
    BY <1>1, <1>2, <1>6 DEF p
  <2>2. ~overrun'
    <3>1. buffer[Index(head + p)] # NoKey <=> p < p
      BY <1>2, <2>1 DEF p
    <3>2. ~(p < p)
      BY <2>1
    <3>3. buffer[Index(tail)] = NoKey
      BY <1>3, <3>1, <3>2
    <3>4. QED
      BY <1>4, <3>3
  <2>3. Pending' = p + 1
    BY <1>1, <1>2, <1>4, <1>6, PendingKeys DEF p, Pending
  <2>4. ASSUME NEW j \in 0 .. Size - 1
        PROVE  buffer'[Index(head' + j)] = IF j = p THEN c ELSE buffer[Index(head + j)]
    <3>1. Index(head + j) \in 0 .. Size - 1
      BY <1>1, IndexOfSum
    <3>2. Index(head + j) = Index(tail) <=> j = p
      <4>1. ASSUME Index(head + j) = Index(head + p) PROVE j = p
        BY <1>1, <2>1, <4>1, IndexDiffers
      <4>2. QED
        BY <1>3, <4>1
    <3>3. QED
      BY <1>4, <3>1, <3>2 DEF KeyboardTypeOK
  <2>5. \A j \in 0 .. Size - 1 : buffer'[Index(head' + j)] # NoKey <=> j < p + 1
    BY <1>1, <1>2, <2>1, <2>4 DEF p
  <2>6. RingInv'
    BY <1>1, <1>6, <2>1, <2>3, <2>5 DEF RingInv
  <2>7. ASSUME NEW i \in 1 .. p + 1
        PROVE  buffer'[Index(head' + i - 1)] =
                 IF i = p + 1 THEN c ELSE buffer[Index(head + i - 1)]
    <3>1. i - 1 \in 0 .. Size - 1 /\ (i - 1 = p <=> i = p + 1)
      BY <1>1, <2>1
    <3>2. head' + (i - 1) = head' + i - 1 /\ head + (i - 1) = head + i - 1
      BY <1>1, <1>4
    <3>3. QED
      BY <2>4, <3>1, <3>2
  <2>8. QED
    BY <1>6, <2>2, <2>3, <2>6, <2>7 DEF p, Pushed
<1>7. QED
  BY <1>1, <1>2, <1>5, <1>6 DEF p

(* keyboard_pop on a ring that has keys. *)
Popped == /\ Pending > 0
          /\ got' = buffer[Index(head)]
          /\ Pending' = Pending - 1
          /\ \A i \in 1 .. Pending - 1 : buffer'[Index(head' + i - 1)] = buffer[Index(head + i)]

LEMMA PopOnRing ==
  ASSUME KeyboardTypeOK, RingInv, ~overrun, keyboard_pop
  PROVE  /\ RingInv'
         /\ \/ Pending = 0 /\ got' = NoKey /\ UNCHANGED <<buffer, tail, head>>
            \/ Popped
<1>1. Size \in Nat \ {0} /\ Width \in Nat /\ Size < Width /\ head \in Nat
  BY KeyboardAssumption DEF KeyboardTypeOK
<1>2. /\ Pending \in 0 .. Width - 1
      /\ Pending <= Size
      /\ \A j \in 0 .. Size - 1 : buffer[Index(head + j)] # NoKey <=> j < Pending
      /\ buffer[Index(head)] # NoKey <=> 0 < Pending
  <2>1. head + 0 = head /\ 0 \in 0 .. Size - 1
    BY <1>1
  <2>2. QED
    BY <2>1, PendingKeys DEF RingInv
<1>3. CASE Pending = 0
  <2>1. UNCHANGED <<buffer, tail, head, overrun>> /\ got' = NoKey
    BY <1>2, <1>3 DEF keyboard_pop
  <2>2. QED
    BY <1>3, <2>1 DEF RingInv, Pending
<1>4. CASE Pending > 0
  <2>1. /\ buffer' = [buffer EXCEPT ![Index(head)] = NoKey] /\ head' = Next32(head)
        /\ tail' = tail /\ overrun' = overrun /\ got' = buffer[Index(head)]
    BY <1>2, <1>4 DEF keyboard_pop
  <2> DEFINE p == Pending
  <2>2. Pending' = p - 1 /\ p \in 1 .. Size
    BY <1>1, <1>2, <1>4, <2>1, PendingKeys DEF Pending
  <2> HIDE DEF p
  <2>3. Index(head) \in 0 .. Size - 1 /\ head + 0 = head
    BY <1>1, IndexOfSum
  <2>4. ASSUME NEW j \in 0 .. Size - 1
        PROVE  buffer'[Index(head' + j)] =
                 IF j = Size - 1 THEN NoKey ELSE buffer[Index(head + (j + 1))]
    <3>1. Index(head' + j) = Index(head + (j + 1)) /\ Index(head' + j) \in 0 .. Size - 1
      <4>1. /\ head + 1 \in Int /\ head' = (head + 1) % Width /\ head' \in Int
            /\ (head + 1) + j = head + (j + 1) /\ j \in Int /\ head' + j \in Int
        BY <1>1, <2>1 DEF Next32
      <4>2. QED
        BY <4>1, IndexOfSum
    <3>2. CASE j = Size - 1
      <4>1. head + (j + 1) = head + Size
        BY <1>1, <3>2
      <4>2. Index(head + Size) = Index(head)
        BY <1>1, IndexOfSum
      <4>3. QED
        BY <2>1, <2>3, <3>1, <3>2, <4>1, <4>2 DEF KeyboardTypeOK
    <3>3. CASE j # Size - 1
      <4>1. j + 1 \in 0 .. Size - 1 /\ j + 1 # 0 /\ 0 \in 0 .. Size - 1
        BY <1>1, <3>3
      <4>2. Index(head + (j + 1)) # Index(head)
        <5> DEFINE i == j + 1
        <5>1. i \in 0 .. Size - 1 /\ i # 0 /\ 0 \in 0 .. Size - 1 /\ head \in Int
          BY <1>1, <4>1
        <5> HIDE DEF i
        <5>2. Index(head + i) # Index(head + 0)
          BY <5>1, IndexDiffers
        <5>3. QED
          BY <2>3, <5>2 DEF i
      <4>3. QED
        BY <2>1, <3>1, <3>3, <4>2 DEF KeyboardTypeOK
    <3>4. QED
      BY <3>2, <3>3
  <2>5. \A j \in 0 .. Size - 1 : buffer'[Index(head' + j)] # NoKey <=> j < p - 1
    <3> SUFFICES ASSUME NEW j \in 0 .. Size - 1
                 PROVE  buffer'[Index(head' + j)] # NoKey <=> j < p - 1
      OBVIOUS
    <3>1. CASE j = Size - 1
      BY <1>1, <2>2, <2>4, <3>1
    <3>2. CASE j # Size - 1
      <4>1. j + 1 \in 0 .. Size - 1
        BY <1>1, <3>2
      <4>2. buffer[Index(head + (j + 1))] # NoKey <=> j + 1 < p
        BY <1>2, <4>1 DEF p
      <4>3. QED
        BY <2>2, <2>4, <3>2, <4>2
    <3>3. QED
      BY <3>1, <3>2
  <2>6. RingInv'
    BY <1>1, <2>1, <2>2, <2>5 DEF RingInv
  <2>7. ASSUME NEW i \in 1 .. p - 1
        PROVE  buffer'[Index(head' + i - 1)] = buffer[Index(head + i)]
    <3>1. i - 1 \in 0 .. Size - 1 /\ i - 1 # Size - 1 /\ (i - 1) + 1 = i
      BY <1>1, <2>2
    <3>2. head' \in Int
      BY <1>1, <2>1 DEF Next32
    <3>3. head' + (i - 1) = head' + i - 1
      BY <3>2
    <3>4. QED
      BY <2>4, <3>1, <3>3
  <2>8. QED
    BY <1>4, <2>1, <2>2, <2>6, <2>7 DEF p, Popped
<1>5. QED
  BY <1>2, <1>3, <1>4

-----------------------------------------------------------------------------
(* A function from the numbers up to n is a sequence. *)
LEMMA SeqOfFunction ==
  ASSUME NEW S, NEW n \in Nat, NEW f \in [1 .. n -> S]
  PROVE  f \in Seq(S) /\ Len(f) = n /\ (f = <<>> <=> n = 0)
<1>1. f \in Seq(S)
  BY SeqDef
<1>2. Len(f) = n
  BY <1>1, LenProperties
<1>3. QED
  BY <1>1, <1>2, EmptySeq

LEMMA ContentsOfRing ==
  ASSUME KeyboardTypeOK, RingInv, ~overrun
  PROVE  /\ Contents \in Seq(Key) /\ Len(Contents) = Pending /\ Pending \in 0 .. Size
         /\ Contents = <<>> <=> Pending = 0
         /\ \A i \in 1 .. Pending : Contents[i] = buffer[Index(head + i - 1)]
         /\ Pending > 0 => Contents[1] = buffer[Index(head)]
<1>1. Size \in Nat \ {0} /\ head \in Nat
  BY KeyboardAssumption DEF KeyboardTypeOK
<1>2. Pending \in 0 .. Size
  BY <1>1, PendingKeys DEF RingInv
<1>3. ASSUME NEW i \in 1 .. Pending PROVE buffer[Index(head + i - 1)] \in Key
  <2>1. i - 1 \in 0 .. Size - 1 /\ head + (i - 1) = head + i - 1 /\ i - 1 < Pending
    BY <1>1, <1>2
  <2>2. Index(head + (i - 1)) \in 0 .. Size - 1
    <3> DEFINE a == head + (i - 1)
    <3>1. a \in Int /\ Size \in Int
      BY <1>1, <2>1
    <3> HIDE DEF a
    <3>2. Index(a) \in 0 .. Size - 1
      BY <3>1, IndexOfSum
    <3>3. QED
      BY <3>2 DEF a
  <2>3. buffer[Index(head + (i - 1))] # NoKey
    BY <2>1 DEF RingInv
  <2>4. QED
    BY <2>1, <2>2, <2>3 DEF KeyboardTypeOK
<1>4. Contents \in [1 .. Pending -> Key]
  BY <1>3 DEF Contents
<1>5. Pending \in Nat
  BY <1>1, <1>2
<1>6. /\ Contents \in Seq(Key) /\ Len(Contents) = Pending
      /\ Contents = <<>> <=> Pending = 0
  BY <1>4, <1>5, SeqOfFunction
<1>7. \A i \in 1 .. Pending : Contents[i] = buffer[Index(head + i - 1)]
  BY DEF Contents
<1>8. ASSUME Pending > 0 PROVE Contents[1] = buffer[Index(head)]
  <2>1. 1 \in 1 .. Pending /\ head + 1 - 1 = head
    BY <1>1, <1>5, <1>8
  <2>2. QED
    BY <1>7, <2>1
<1>9. QED
  BY <1>2, <1>6, <1>7, <1>8

(* What is pushed is put at the end of the queue. *)
LEMMA PushPuts ==
  ASSUME KeyboardTypeOK, RingInv, ~overrun, NEW c \in Key, Pushed(c)
  PROVE  Contents' = Append(Contents, c)
<1>1. /\ Contents \in Seq(Key) /\ Len(Contents) = Pending /\ Pending \in 0 .. Size
      /\ \A i \in 1 .. Pending : Contents[i] = buffer[Index(head + i - 1)]
      /\ Size \in Nat
  BY ContentsOfRing, KeyboardAssumption
<1> DEFINE p == Pending
           r == Append(Contents, c)
<1>2. /\ r \in Seq(Key) /\ Len(r) = p + 1 /\ r[p + 1] = c
      /\ \A i \in 1 .. p : r[i] = Contents[i]
  BY <1>1, AppendPositions
<1>3. /\ Contents' = [i \in 1 .. p + 1 |-> buffer'[Index(head' + i - 1)]]
      /\ \A i \in 1 .. p + 1 : buffer'[Index(head' + i - 1)] =
                                  IF i = p + 1 THEN c ELSE buffer[Index(head + i - 1)]
  BY DEF Pushed, Contents
<1> HIDE DEF p, r
<1>4. p \in Nat
  BY <1>1 DEF p
<1> DEFINE f == Contents'
<1>5. \A i \in 1 .. p + 1 : f[i] = r[i]
  <2> SUFFICES ASSUME NEW i \in 1 .. p + 1 PROVE f[i] = r[i]
    OBVIOUS
  <2>1. f[i] = buffer'[Index(head' + i - 1)]
    BY <1>3
  <2>2. CASE i \in 1 .. p
    <3>1. i # p + 1
      BY <1>4, <2>2
    <3>2. r[i] = buffer[Index(head + i - 1)]
      BY <1>1, <1>2, <2>2 DEF p
    <3>3. QED
      BY <1>3, <2>1, <3>1, <3>2
  <2>3. CASE i = p + 1
    BY <1>2, <1>3, <2>1, <2>3
  <2>4. QED
    BY <1>4, <2>2, <2>3
<1>6. f \in [1 .. p + 1 -> Key]
  <2>1. \A i \in 1 .. p + 1 : r[i] \in Key
    BY <1>2, ElementOfSeq
  <2>2. QED
    BY <1>3, <1>5, <2>1
<1> HIDE DEF f
<1>7. f \in Seq(Key) /\ Len(f) = p + 1
  BY <1>4, <1>6, SeqOfFunction
<1>8. f = r
  BY <1>2, <1>5, <1>7, SeqEqual
<1>9. QED
  BY <1>8 DEF f, r

(* What is popped was the first of the queue. *)
LEMMA PopGets ==
  ASSUME KeyboardTypeOK, RingInv, ~overrun, Popped
  PROVE  Contents # <<>> /\ got' = Head(Contents) /\ Contents' = Tail(Contents)
<1>1. /\ Contents \in Seq(Key) /\ Len(Contents) = Pending /\ Pending \in 0 .. Size
      /\ Contents # <<>> /\ Pending > 0 /\ Contents[1] = buffer[Index(head)]
      /\ \A i \in 1 .. Pending : Contents[i] = buffer[Index(head + i - 1)]
      /\ Size \in Nat
  BY ContentsOfRing, KeyboardAssumption DEF Popped
<1>2. got' = Head(Contents)
  BY <1>1 DEF Popped
<1> DEFINE p == Pending
           r == Tail(Contents)
<1>3. /\ r \in Seq(Key) /\ Len(r) = p - 1
      /\ \A i \in 1 .. p - 1 : r[i] = Contents[i + 1]
  BY <1>1, HeadTailProperties
<1>4. /\ Contents' = [i \in 1 .. p - 1 |-> buffer'[Index(head' + i - 1)]]
      /\ \A i \in 1 .. p - 1 : buffer'[Index(head' + i - 1)] = buffer[Index(head + i)]
  BY DEF Popped, Contents
<1> HIDE DEF p, r
<1>5. p \in Nat /\ p - 1 \in Nat
  BY <1>1 DEF p
<1> DEFINE f == Contents'
<1>6. \A i \in 1 .. p - 1 : f[i] = r[i]
  <2> SUFFICES ASSUME NEW i \in 1 .. p - 1 PROVE f[i] = r[i]
    OBVIOUS
  <2>1. i + 1 \in 1 .. p /\ head + (i + 1) - 1 = head + i
    <3>1. head \in Int
      BY KeyboardAssumption DEF KeyboardTypeOK
    <3>2. QED
      BY <1>5, <3>1
  <2>2. Contents[i + 1] = buffer[Index(head + i)]
    BY <1>1, <2>1 DEF p
  <2>3. QED
    BY <1>3, <1>4, <2>2
<1>7. f \in [1 .. p - 1 -> Key]
  <2>1. \A i \in 1 .. p - 1 : r[i] \in Key
    BY <1>3, ElementOfSeq
  <2>2. QED
    BY <1>4, <1>6, <2>1
<1> HIDE DEF f
<1>8. f \in Seq(Key) /\ Len(f) = p - 1
  BY <1>5, <1>7, SeqOfFunction
<1>9. f = r
  BY <1>3, <1>6, <1>8, SeqEqual
<1>10. QED
  BY <1>1, <1>2, <1>9 DEF f, r

LEMMA RingStep ==
  ASSUME KeyboardTypeOK, RingInv, [LNext]_lvars
  PROVE  RingInv' /\ [Q!QNext]_<<IF overrun THEN <<>> ELSE Contents, got, overrun>>
<1> DEFINE k == IF overrun THEN <<>> ELSE Contents
<1>1. CASE UNCHANGED ringVars
  <2>1. Pending' = Pending /\ Contents' = Contents /\ UNCHANGED <<got, overrun>>
    BY <1>1 DEF ringVars, Pending, Contents
  <2>2. QED
    BY <1>1, <2>1 DEF ringVars, RingInv
<1>2. ASSUME overrun, UNCHANGED overrun
      PROVE  RingInv' /\ Q!QNext
  BY <1>2 DEF RingInv, Q!QNext, Q!Anything
<1>3. ASSUME NEW c \in Key, keyboard_push(c), ~overrun
      PROVE  RingInv' /\ Q!QNext
  <2>1. RingInv' /\ (overrun' => Pending = Size) /\ (~overrun' => Pushed(c))
    BY <1>3, PushOnRing
  <2>2. k = Contents /\ Len(k) = Pending /\ got' = got
    BY <1>3, ContentsOfRing DEF keyboard_push
  <2>3. CASE overrun'
    <3>1. overrun' = TRUE /\ k' = <<>> /\ Len(k) = Size
      BY <1>3, <2>1, <2>2, <2>3 DEF keyboard_push, KeyboardTypeOK
    <3>2. Q!Lose
      BY <1>3, <2>2, <3>1 DEF Q!Lose
    <3>3. QED
      BY <2>1, <3>2 DEF Q!QNext
  <2>4. CASE ~overrun'
    <3>1. Contents' = Append(Contents, c) /\ Pending < Size
      BY <1>3, <2>1, <2>4, PushPuts DEF Pushed
    <3>2. k' = Append(k, c) /\ Len(k) < Size /\ overrun' = overrun
      BY <1>3, <2>2, <2>4, <3>1 DEF keyboard_push, KeyboardTypeOK
    <3>3. Q!Put(c)
      BY <1>3, <2>2, <3>2 DEF Q!Put
    <3>4. QED
      BY <2>1, <3>3 DEF Q!QNext
  <2>5. QED
    BY <2>3, <2>4
<1>4. ASSUME keyboard_pop, ~overrun
      PROVE  RingInv' /\ Q!QNext
  <2>1. RingInv' /\ overrun' = overrun /\ k = Contents /\ k' = Contents'
    BY <1>4, PopOnRing DEF keyboard_pop
  <2>2. CASE Pending = 0 /\ got' = NoKey /\ UNCHANGED <<buffer, tail, head>>
    <3>1. k = <<>> /\ k' = k
      BY <1>4, <2>1, <2>2, ContentsOfRing DEF Contents, Pending
    <3>2. Q!GetNothing
      BY <1>4, <2>1, <2>2, <3>1 DEF Q!GetNothing
    <3>3. QED
      BY <2>1, <3>2 DEF Q!QNext
  <2>3. CASE Popped
    <3>1. k # <<>> /\ got' = Head(k) /\ k' = Tail(k)
      BY <1>4, <2>1, <2>3, PopGets
    <3>2. Q!Get
      BY <1>4, <2>1, <3>1 DEF Q!Get
    <3>3. QED
      BY <2>1, <3>2 DEF Q!QNext
  <2>4. QED
    BY <1>4, <2>2, <2>3, PopOnRing
<1>5. ASSUME NEW c \in Key, keyboard_push(c), overrun PROVE overrun' = overrun
  BY <1>5 DEF keyboard_push, KeyboardTypeOK
<1>6. \/ UNCHANGED ringVars
      \/ \E c \in Key : keyboard_push(c)
      \/ keyboard_pop
  BY DEF LNext, lvars, keyboardVars, ringVars, Typed, SpecialChanges, Pop, press, release, Call,
         keyboard_init, scrollkeylistener_init, keyboard_listener_init, BootStep
<1>7. QED
  BY <1>1, <1>2, <1>3, <1>4, <1>5, <1>6 DEF keyboard_pop

(* Until a key is overrun the ring is a queue of Size keys: what is read   *)
(* is what was typed, in order and once, also when the counters overflow   *)
(* (keyboard_push, keyboard_pop).                                          *)
THEOREM KeyboardIsQueue == LSpec => ImplementsKeyQueue
<1>1. LInit => Q!QInit
  <2> SUFFICES ASSUME LInit PROVE Q!QInit
    OBVIOUS
  <2>1. KeyboardTypeOK /\ RingInv /\ ~overrun /\ overrun = FALSE /\ got = NoKey
    BY RingInit DEF LInit, KeyboardInit
  <2>2. Pending = 0
    BY KeyboardAssumption DEF LInit, KeyboardInit, Pending
  <2>3. Contents = <<>>
    BY <2>1, <2>2, ContentsOfRing
  <2>4. QED
    BY <2>1, <2>3 DEF Q!QInit
<1>2. QED
  BY <1>1, RingInit, RingStep, TypesInit, TypesStep, PTL DEF LSpec, ImplementsKeyQueue, Q!QSpec
=============================================================================
