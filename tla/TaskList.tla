------------------------------ MODULE TaskList ------------------------------
(***************************************************************************)
(* The linked list of tasks in task/task.c: task_head, task_tail and the   *)
(* next and prev pointers in the tasks themselves.  A freed task keeps its *)
(* contents until the heap hands its block out again; task_new zeroes it.  *)
(*                                                                         *)
(* order is a history variable: the tasks created and not freed, oldest    *)
(* first, which is what module Scheduler takes the list to be.             *)
(***************************************************************************)
EXTENDS Queue

CONSTANTS Task,       \* the memory blocks tasks are made in
          NULL

ASSUME TaskListAssumption == NULL \notin Task

VARIABLES next, prev,         \* task->next, task->prev, also of freed tasks
          task_head, task_tail,
          current_task,
          order,              \* history: the tasks that exist
          dirty               \* history: a task was removed through an outdated prev

vars == <<next, prev, task_head, task_tail, current_task, order, dirty>>

Pointer == Task \cup {NULL}
Live == Members(order)
Pos(t) == IndexOf(order, t)

(* Nothing is loaded; the first task is run as soon as it is there.        *)
Init == /\ next = [t \in Task |-> NULL]
        /\ prev = [t \in Task |-> NULL]
        /\ task_head = NULL
        /\ task_tail = NULL
        /\ current_task = NULL
        /\ order = <<>>
        /\ dirty = FALSE

-----------------------------------------------------------------------------
(* task_get_next_to *)
NextTo(nx, hd, t) == IF nx[t] = NULL THEN hd ELSE nx[t]

(* The tasks task_get_next_active_task can come to from t: it goes on from *)
(* one to the next as long as they sleep.                                  *)
Candidates(nx, hd, t) ==
    {u \in Task : \A S \in SUBSET Task :
        (NextTo(nx, hd, t) \in S /\ \A v \in S : NextTo(nx, hd, v) \in S) => u \in S}

(* p->next = t.  A store through NULL goes to low memory, not to a task.   *)
Link(nx, p, t) == IF p = NULL THEN nx ELSE [nx EXCEPT ![p] = t]

(* Seeded bug: prev is set in the old tail, and the new task is not        *)
(* zeroed.                                                                 *)
TaskNewSwapped(t) ==
    /\ t \in Task \ Live
    /\ IF task_head = NULL
       THEN task_head' = t /\ UNCHANGED <<next, prev>>
       ELSE /\ next' = [next EXCEPT ![task_tail] = t]
            /\ prev' = [prev EXCEPT ![task_tail] = t]
            /\ UNCHANGED task_head
    /\ task_tail' = t
    /\ order' = Append(order, t)
    /\ UNCHANGED <<current_task, dirty>>

(* task_new on a block the heap has free, at the tail of the list. *)
task_new(t) ==
    /\ t \in Task \ Live
    /\ LET nx == [next EXCEPT ![t] = NULL]
           pv == [prev EXCEPT ![t] = NULL]
       IN  IF task_head = NULL
           THEN /\ task_head' = t
                /\ next' = nx
                /\ prev' = pv
           ELSE /\ next' = Link(nx, task_tail, t)
                /\ prev' = [pv EXCEPT ![t] = task_tail]
                /\ UNCHANGED task_head
    /\ task_tail' = t
    /\ order' = Append(order, t)
    /\ UNCHANGED <<current_task, dirty>>

(* task_run_first_ever_task *)
task_run_first_ever_task ==
    /\ current_task = NULL
    /\ task_head # NULL
    /\ current_task' = task_head
    /\ UNCHANGED <<next, prev, task_head, task_tail, order, dirty>>

task_next ==
    /\ current_task # NULL
    /\ current_task' \in Candidates(next, task_head, current_task)
    /\ UNCHANGED <<next, prev, task_head, task_tail, order, dirty>>

(* The prev pointer of t is the task before it on the list. *)
PrevUpToDate(t) ==
    prev[t] = IF Pos(t) = 1 THEN NULL ELSE order[Pos(t) - 1]

(* Seeded bug: task_tail is not moved when the last task is removed.       *)
UnlinkKeepsTail(t) ==
    /\ next' = Link(next, prev[t], next[t])
    /\ task_head' = IF t = task_head THEN next[t] ELSE task_head
    /\ UNCHANGED task_tail

(* task_free, task_list_remove.  process_free lets no last task be freed.  *)
Unlink(t) ==
    /\ next' = Link(next, prev[t], next[t])
    /\ task_head' = IF t = task_head THEN next[t] ELSE task_head
    /\ task_tail' = IF t = task_tail THEN prev[t] ELSE task_tail

task_free(t) ==
    /\ t \in Live
    /\ Len(order) > 1
    /\ current_task # NULL
    /\ Unlink(t)
    /\ IF t = current_task
       THEN current_task' \in Candidates(next', task_head', t)
       ELSE UNCHANGED current_task
    /\ order' = Without(order, Pos(t))
    /\ dirty' = (dirty \/ ~PrevUpToDate(t))
    /\ UNCHANGED prev

Next == \/ \E t \in Task : task_new(t) \/ task_free(t)
        \/ task_run_first_ever_task
        \/ task_next

Spec == Init /\ [][Next]_vars

-----------------------------------------------------------------------------
(* The types of the variables. *)
TypeOK == /\ next \in [Task -> Pointer]
          /\ prev \in [Task -> Pointer]
          /\ task_head \in Pointer
          /\ task_tail \in Pointer
          /\ current_task \in Pointer
          /\ order \in Seq(Task)
          /\ dirty \in BOOLEAN

(* From task_head along next, the list is the tasks that exist, in the     *)
(* order of their creation, and task_tail is the last.                     *)
ListIsOrder ==
    IF order = <<>> THEN task_head = NULL
    ELSE /\ task_head = order[1]
         /\ task_tail = order[Len(order)]
         /\ next[task_tail] = NULL
         /\ \A i \in 1 .. Len(order) - 1 : next[order[i]] = order[i + 1]

(* Until a task is removed through an outdated prev pointer, the list is   *)
(* what the scheduler takes it for, and the running task is on it          *)
(* (task_new, task_list_remove).                                           *)
ListSound ==
    ~dirty => /\ ListIsOrder
              /\ current_task # NULL => current_task \in Live

(* Removing a task leaves the prev of its successor pointing at it; no     *)
(* other prev pointer goes out of date (task_list_remove).                 *)
OnlySuccessorGoesStale ==
    [][\A t \in Live \cap Live' :
          ~dirty /\ PrevUpToDate(t) =>
             \/ PrevUpToDate(t)'
             \/ Pos(t) > 1 /\ order[Pos(t) - 1] \notin Live']_vars

(* What task.c:529 says of task_list_remove: it removes the task from the  *)
(* list, so that the list no longer leads to it.                           *)
FreedTaskLeavesList ==
    [][\A t \in Live \ Live' :
          t # task_head' /\ t \notin Candidates(next', task_head', task_head')]_vars
=============================================================================
