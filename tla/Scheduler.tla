----------------------------- MODULE Scheduler ------------------------------
(***************************************************************************)
(* The round-robin scheduler of task/task.c, driven by the timer interrupt *)
(* of timer/pit.c, the sleep system call of isr80h/process.c and the fault *)
(* handlers, which free a task and load the crash program.                 *)
(*                                                                         *)
(* Interrupts stay off while the kernel runs, so each handler is one step. *)
(* queue is the task list from task_head to task_tail; module TaskList     *)
(* shows how far the pointers of the code keep to it.  A task is the block *)
(* of kernel memory it lives in, which a later task may be given again.    *)
(***************************************************************************)
EXTENDS Queue

CONSTANTS Task,       \* the memory blocks tasks are made in
          Half,       \* a long holds -Half .. Half - 1: 2^31
          Tick,       \* PIT_TIMER_AVERAGE_MS
          Sleeps,     \* the sleep times in ms that programs ask for
          MaxBirths   \* bound: how many tasks are created after the first

ASSUME SchedulerAssumption ==
    /\ Half \in Nat \ {0}
    /\ Tick \in 1 .. Half - 1
    /\ Sleeps \subseteq 0 .. 2 * Half - 1
    /\ MaxBirths \in Nat

VARIABLES queue,      \* task_head .. task_tail
          current,    \* current_task
          awake,      \* task->awake
          awakeAt,    \* task->awake_at
          ticks,      \* ticks_since_initialized
          halted,     \* panic()
          births,     \* bounded by MaxBirths
          remain,     \* history: ms a sleeper has still to sleep, -1 once over
          offClock    \* history: no reading of ticks marks the end of the sleep

timeVars == <<ticks, remain, offClock>>
vars == <<queue, current, awake, awakeAt, ticks, halted, births, remain, offClock>>

Live == Members(queue)
Long == -Half .. Half - 1

(* Seeded bug: a long that does not wrap.                                  *)
Unbounded(x) == x

(* Conversion to a 32-bit long. *)
Signed(x) == ((x + Half) % (2 * Half)) - Half

Init == \E t \in Task :
          /\ queue = <<t>>
          /\ current = t
          /\ awake = [u \in Task |-> TRUE]
          /\ awakeAt = [u \in Task |-> 0]
          /\ ticks = 0
          /\ halted = FALSE
          /\ births = 0
          /\ remain = [u \in Task |-> -1]
          /\ offClock = [u \in Task |-> FALSE]

-----------------------------------------------------------------------------
(* The k-th task after position i, round the end of the list to its head:  *)
(* k applications of task_get_next_to.                                     *)
After(q, i, k) == q[((i + k - 1) % Len(q)) + 1]

(* Seeded bug: the next task is taken whether it is awake or not.          *)
NextAwakeOrNot(q, i, aw, u) == u = After(q, i, 1)

(* Seeded bug: the search starts at the head of the list every time.       *)
FirstAwakeFromHead(q, i, aw, u) ==
    IF ~aw[Head(q)] THEN u = After(q, i, 1) ELSE u = Head(q)

(***************************************************************************)
(* task_get_next_active_task from position i.  task_get_awake_count counts *)
(* the awake tasks before the first sleeper, so it is 0 as soon as the     *)
(* head sleeps; the next task is then woken and taken.  Otherwise the walk *)
(* goes on to the first task that is awake.                                *)
(***************************************************************************)
IsNextActive(q, i, aw, u) ==
    IF ~aw[Head(q)] THEN u = After(q, i, 1)
    ELSE \E k \in 1 .. Len(q) : /\ u = After(q, i, k)
                                /\ aw[u]
                                /\ \A m \in 1 .. (k - 1) : ~aw[After(q, i, m)]

(* What task_get_next leaves: the task chosen, and the flags after the     *)
(* task_wake it may have done.  One outcome, as a singleton set.           *)
Choices(q, i, aw, at) ==
    {[task  |-> u,
      awake |-> IF aw[Head(q)] THEN aw ELSE [aw EXCEPT ![u] = TRUE],
      at    |-> IF aw[Head(q)] THEN at ELSE [at EXCEPT ![u] = -1]] :
        u \in {v \in Members(q) : IsNextActive(q, i, aw, v)}}

(* task_next: switch to the chosen task, from the current one. *)
task_next(q, cur, aw, at) ==
    \E c \in Choices(q, IndexOf(q, cur), aw, at) :
        /\ current' = c.task
        /\ awake' = c.awake
        /\ awakeAt' = c.at

(* Seeded bug: a sleeper is woken at its time, not after it.               *)
DueAtOnce(now) == {t \in Live : ~awake[t] /\ awakeAt[t] # -1 /\ now >= awakeAt[t]}

(* Seeded bug: a sleep until 0 is permanent, as task.h:37 has it.          *)
DueZeroIsPermanent(now) ==
    {t \in Live : ~awake[t] /\ awakeAt[t] \notin {-1, 0} /\ now > awakeAt[t]}

(* task_wake_tasks *)
Due(now) == {t \in Live : ~awake[t] /\ awakeAt[t] # -1 /\ now > awakeAt[t]}

Slept(t) == IF remain[t] >= Tick THEN remain[t] - Tick ELSE -1

pit_interrupt ==
    /\ ~halted
    /\ ticks' = Signed(ticks + Tick)
    /\ LET due == Due(ticks')
       IN  task_next(queue, current,
                     [t \in Task |-> awake[t] \/ t \in due],
                     [t \in Task |-> IF t \in due THEN -1 ELSE awakeAt[t]])
    /\ remain' = [t \in Task |-> Slept(t)]
    /\ UNCHANGED <<queue, halted, births, offClock>>

(* The sum in task_usleep wraps, or the tick that should end the sleep     *)
(* does, or the sum is the -1 that task_wake_tasks skips.                  *)
Unreadable(millis) == ticks + millis + Tick >= Half \/ ticks + millis = -1

(* isr80h_command7_sleep, task_usleep: only the running task sleeps. *)
task_usleep(millis) ==
    /\ ~halted
    /\ task_next(queue, current,
                 [awake EXCEPT ![current] = FALSE],
                 [awakeAt EXCEPT ![current] = Signed(ticks + millis)])
    /\ remain' = [remain EXCEPT ![current] = millis]
    /\ offClock' = [offClock EXCEPT ![current] = Unreadable(millis)]
    /\ UNCHANGED <<queue, ticks, halted, births>>

(* task_new, task_init: a zeroed task, awake, at the tail of the list. *)
Fresh(t, used) == /\ births < MaxBirths
                  /\ births' = births + 1
                  /\ t \in Task \ used

task_new(t) ==
    /\ ~halted
    /\ Fresh(t, Live)
    /\ queue' = Append(queue, t)
    /\ awake' = [awake EXCEPT ![t] = TRUE]
    /\ awakeAt' = [awakeAt EXCEPT ![t] = 0]
    /\ remain' = [remain EXCEPT ![t] = -1]
    /\ offClock' = [offClock EXCEPT ![t] = FALSE]
    /\ UNCHANGED <<current, ticks, halted>>

(***************************************************************************)
(* A fault handler: process_crash frees the task of process t, loads the   *)
(* crash program as task n, and the handler then calls task_next.  If the  *)
(* task freed was the running one, task_list_remove has already moved      *)
(* current_task on, from where the freed task stood.  process_free panics  *)
(* if there is no other process.                                           *)
(***************************************************************************)
task_list_remove(t) ==
    LET i == IndexOf(queue, t)
    IN  IF t = current
        THEN Choices(Without(queue, i), i - 1, awake, awakeAt)
        ELSE {[task |-> current, awake |-> awake, at |-> awakeAt]}

crash(t, n) ==
    /\ ~halted
    /\ t \in Live
    /\ Len(queue) > 1
    /\ Fresh(n, Live \ {t})
    /\ queue' = Append(Without(queue, IndexOf(queue, t)), n)
    /\ \E c \in task_list_remove(t) :
          task_next(queue', c.task, [c.awake EXCEPT ![n] = TRUE], [c.at EXCEPT ![n] = 0])
    /\ remain' = [remain EXCEPT ![n] = -1]
    /\ offClock' = [offClock EXCEPT ![n] = FALSE]
    /\ UNCHANGED <<ticks, halted>>

(* The same when the crash program cannot be loaded. *)
crash_unreported(t) ==
    /\ ~halted
    /\ t \in Live
    /\ Len(queue) > 1
    /\ queue' = Without(queue, IndexOf(queue, t))
    /\ \E c \in task_list_remove(t) : task_next(queue', c.task, c.awake, c.at)
    /\ UNCHANGED <<births, halted, timeVars>>

crash_last ==
    /\ ~halted
    /\ Len(queue) = 1
    /\ halted' = TRUE
    /\ UNCHANGED <<queue, current, awake, awakeAt, births, timeVars>>

panic == halted /\ UNCHANGED vars

Next == \/ pit_interrupt
        \/ \E m \in Sleeps : task_usleep(m)
        \/ \E t \in Task : task_new(t)
        \/ \E t, n \in Task : crash(t, n)
        \/ \E t \in Task : crash_unreported(t)
        \/ crash_last
        \/ panic

(* The timer goes on interrupting: interrupts are on whenever a task runs. *)
Spec == Init /\ [][Next]_vars /\ WF_vars(pit_interrupt)
-----------------------------------------------------------------------------
(* The types of the variables. *)
TypeOK == /\ queue \in Seq(Task)
          /\ current \in Task
          /\ awake \in [Task -> BOOLEAN]
          /\ awakeAt \in [Task -> Long]
          /\ ticks \in Long
          /\ halted \in BOOLEAN
          /\ births \in 0 .. MaxBirths
          /\ remain \in [Task -> -1 .. 2 * Half - 1]
          /\ offClock \in [Task -> BOOLEAN]

(* The task the kernel returns to is on the list and not asleep, whichever *)
(* handler chose it and whichever tasks it freed (task_next, task_switch). *)
RunningIsAwake == current \in Live /\ awake[current]

(* A sleeper whose wake-up time the clock can show is on time: it has      *)
(* still to sleep what awake_at says, and never oversleeps a timer         *)
(* interrupt (task_wake_tasks, task_usleep).                               *)
SleepersOnTime ==
    \A t \in Live : ~awake[t] /\ ~offClock[t] =>
        remain[t] >= 0 /\ awakeAt[t] = ticks + remain[t]

(* A task is woken before its time only if the head of the list sleeps     *)
(* before or after the step (task_get_next_active_task).                   *)
EarlyWakeOnlyIfHeadSleeps ==
    [][\A t \in Live \cap Members(queue') :
          ~awake[t] /\ awake'[t] /\ ~offClock[t] =>
             \/ remain'[t] = -1
             \/ ~awake[Head(queue')]
             \/ ~awake'[Head(queue')]]_vars

(* No starvation: a task that is awake runs, unless it is freed or the     *)
(* machine panics.  Only finitely many tasks are created, see MaxBirths.   *)
AwakeTaskRuns ==
    \A t \in Task : (t \in Live /\ awake[t]) ~> (current = t \/ t \notin Live \/ halted)

(* A timed sleep ends, unless the task is freed or the machine panics.     *)
SleepEnds ==
    \A t \in Task :
        (t \in Live /\ ~awake[t] /\ ~offClock[t]) ~> (awake[t] \/ t \notin Live \/ halted)
=============================================================================
