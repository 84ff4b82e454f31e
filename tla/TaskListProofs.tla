--------------------------- MODULE TaskListProofs ---------------------------
(***************************************************************************)
(* For any set of blocks: until a task is removed through an outdated prev *)
(* pointer, the pointers of the task list spell out the queue of the tasks *)
(* that exist, and the running task is one of them.                        *)
(***************************************************************************)
EXTENDS TaskList, Lemmas

(* The list from hd along nx is the queue q, and tl is its last task. *)
IsList(nx, hd, tl, q) ==
    IF q = <<>> THEN hd = NULL
    ELSE /\ hd = q[1]
         /\ tl = q[Len(q)]
         /\ nx[tl] = NULL
         /\ \A i \in 1 .. Len(q) - 1 : nx[q[i]] = q[i + 1]

LInv == TypeOK /\ Distinct(order) /\ ListSound

(* A queue is empty or has a first and a last element. *)
LEMMA NonEmpty ==
  ASSUME NEW S, NEW q \in Seq(S)
  PROVE  /\ Len(q) \in Nat
         /\ q = <<>> <=> Len(q) = 0
         /\ q # <<>> => 1 \in 1 .. Len(q) /\ Len(q) \in 1 .. Len(q)
         /\ \A i \in 1 .. Len(q) : q[i] \in S /\ q[i] \in Members(q)
  BY EmptySeq, LenProperties, ElementOfSeq DEF Members

(* On a list that spells out q, task_get_next_to stays among its tasks. *)
LEMMA NextToOnList ==
  ASSUME NEW nx \in [Task -> Pointer], NEW hd, NEW tl, NEW q \in Seq(Task),
         IsList(nx, hd, tl, q), q # <<>>, NEW v \in Members(q)
  PROVE  NextTo(nx, hd, v) \in Members(q)
<1>1. PICK i \in 1 .. Len(q) : q[i] = v
  BY DEF Members
<1>2. Len(q) \in Nat /\ hd \in Members(q)
  BY NonEmpty DEF IsList
<1>3. CASE i < Len(q)
  <2>1. nx[v] = q[i + 1] /\ i + 1 \in 1 .. Len(q)
    BY <1>1, <1>2, <1>3 DEF IsList
  <2>2. q[i + 1] \in Task /\ q[i + 1] \in Members(q)
    BY <2>1, NonEmpty
  <2>3. QED
    BY <2>1, <2>2, TaskListAssumption DEF NextTo
<1>4. CASE ~(i < Len(q))
  <2>1. nx[v] = NULL
    BY <1>1, <1>2, <1>4 DEF IsList
  <2>2. QED
    BY <2>1, <1>2 DEF NextTo
<1>5. QED
  BY <1>3, <1>4

(* So whatever sleeps, task_get_next_active_task ends at a task of the list. *)
LEMMA CandidatesOnList ==
  ASSUME NEW nx \in [Task -> Pointer], NEW hd, NEW tl, NEW q \in Seq(Task),
         IsList(nx, hd, tl, q), q # <<>>, NEW t, NextTo(nx, hd, t) \in Members(q)
  PROVE  Candidates(nx, hd, t) \subseteq Members(q)
<1>1. Members(q) \in SUBSET Task
  BY NonEmpty DEF Members
<1>2. \A v \in Members(q) : NextTo(nx, hd, v) \in Members(q)
  BY NextToOnList
<1>3. QED
  BY <1>1, <1>2 DEF Candidates

-----------------------------------------------------------------------------
LEMMA InitLInv == Init => LInv
<1>1. SUFFICES ASSUME Init PROVE LInv
  OBVIOUS
<1>2. order \in Seq(Task) /\ Len(order) = 0
  BY <1>1, EmptySeq DEF Init
<1>3. TypeOK /\ Distinct(order)
  <2>1. [t \in Task |-> NULL] \in [Task -> Pointer] /\ NULL \in Pointer
    BY DEF Pointer
  <2>2. TypeOK
    BY <1>1, <1>2, <2>1 DEF Init, TypeOK
  <2>3. QED
    BY <1>2, <2>2 DEF Distinct
<1>4. ListSound
  BY <1>1 DEF Init, ListSound, ListIsOrder
<1>5. QED
  BY <1>3, <1>4 DEF LInv

LEMMA NewLInv == ASSUME LInv, NEW t \in Task, task_new(t) PROVE LInv'
<1> DEFINE n == Len(order)
<1>1. /\ n \in Nat /\ Len(order') = n + 1 /\ order'[n + 1] = t
      /\ \A i \in 1 .. n : order'[i] = order[i] /\ order[i] \in Task
      /\ order' \in Seq(Task) /\ order' # <<>>
  BY AppendProperties, NonEmpty DEF LInv, TypeOK, task_new
<1>2. t \notin Live /\ Live' = Live \cup {t} /\ Distinct(order')
  BY AppendMembers DEF LInv, TypeOK, task_new, Live
<1>3. TypeOK'
  BY <1>1 DEF LInv, TypeOK, task_new, Link, Pointer
<1>4. ASSUME ~dirty PROVE ListIsOrder' /\ (current_task' # NULL => current_task' \in Live')
  <2>1. ListIsOrder /\ (current_task # NULL => current_task \in Live)
    BY <1>4 DEF LInv, ListSound
  <2>2. current_task' # NULL => current_task' \in Live'
    BY <2>1, <1>2 DEF task_new
  <2>3. CASE order = <<>>
    <3>1. n = 0 /\ task_head' = t /\ task_tail' = t /\ next'[t] = NULL
      BY <2>1, <2>3, NonEmpty DEF LInv, TypeOK, ListIsOrder, task_new
    <3>2. QED
      BY <2>2, <3>1, <1>1 DEF ListIsOrder
  <2>4. CASE order # <<>>
    <3>1. /\ n >= 1 /\ task_head = order[1] /\ task_tail = order[n]
          /\ task_head \in Task /\ task_tail \in Task /\ task_tail \in Live
          /\ \A i \in 1 .. n - 1 : next[order[i]] = order[i + 1]
      BY <2>1, <2>4, NonEmpty DEF LInv, TypeOK, ListIsOrder, Live
    <3>2. task_head # NULL /\ task_tail # NULL /\ task_tail # t
      BY <3>1, <1>2, TaskListAssumption
    <3>3. /\ next' = [[next EXCEPT ![t] = NULL] EXCEPT ![task_tail] = t]
          /\ task_head' = task_head /\ task_tail' = t
      BY <3>2 DEF task_new, Link
    <3>4. next'[t] = NULL /\ next'[task_tail] = t
      BY <3>1, <3>2, <3>3 DEF LInv, TypeOK
    <3>5. ASSUME NEW i \in 1 .. n - 1 PROVE next'[order[i]] = order[i + 1]
      <4>1. order[i] \in Task /\ order[i] # t /\ order[i] # order[n]
        BY <1>1, <1>2, <3>1 DEF LInv, Distinct, Live, Members
      <4>2. QED
        BY <4>1, <3>1, <3>3 DEF LInv, TypeOK
    <3>6. \A i \in 1 .. n : next'[order'[i]] = order'[i + 1]
      BY <1>1, <3>1, <3>4, <3>5
    <3>7. /\ task_head' = order'[1] /\ task_tail' = order'[Len(order')]
          /\ next'[task_tail'] = NULL
      BY <1>1, <3>1, <3>3, <3>4
    <3>8. \A i \in 1 .. Len(order') - 1 : next'[order'[i]] = order'[i + 1]
      BY <1>1, <3>6
    <3>9. QED
      BY <2>2, <1>1, <3>7, <3>8 DEF ListIsOrder
  <2>5. QED
    BY <2>3, <2>4
<1>5. QED
  BY <1>2, <1>3, <1>4 DEF LInv, ListSound, task_new

LEMMA RunFirstLInv == ASSUME LInv, task_run_first_ever_task PROVE LInv'
<1>1. TypeOK' /\ Distinct(order')
  BY DEF LInv, TypeOK, task_run_first_ever_task
<1>2. ASSUME ~dirty PROVE task_head \in Live
  BY <1>2, NonEmpty DEF LInv, TypeOK, ListSound, ListIsOrder, task_run_first_ever_task, Live
<1>3. QED
  BY <1>1, <1>2 DEF LInv, ListSound, ListIsOrder, Live, task_run_first_ever_task

LEMMA NextLInv == ASSUME LInv, task_next PROVE LInv'
<1>1. TypeOK' /\ Distinct(order')
  BY DEF LInv, TypeOK, task_next, Candidates, Pointer
<1>2. ASSUME ~dirty PROVE Candidates(next, task_head, current_task) \subseteq Live
  <2>1. IsList(next, task_head, task_tail, order) /\ current_task \in Live
    BY <1>2 DEF LInv, ListSound, ListIsOrder, IsList, task_next
  <2>2. order # <<>>
    BY <2>1, NonEmpty DEF Live, Members, LInv, TypeOK
  <2>3. QED
    BY <2>1, <2>2, NextToOnList, CandidatesOnList DEF LInv, TypeOK, Live
<1>3. QED
  BY <1>1, <1>2 DEF LInv, ListSound, ListIsOrder, Live, task_next

(* task_list_remove of a task whose prev pointer is right. *)
LEMMA UnlinkKeepsList ==
  ASSUME LInv, ~dirty, NEW t \in Live, Len(order) > 1, PrevUpToDate(t), Unlink(t),
         order' = Without(order, Pos(t))
  PROVE  IsList(next', task_head', task_tail', order') /\ order' # <<>>
<1> DEFINE n == Len(order)
<1> DEFINE i == Pos(t)
<1>1. i \in 1 .. n /\ order[i] = t /\ n \in Nat /\ n > 1
  BY IndexOfMember, NonEmpty DEF LInv, TypeOK, Live, Pos
<1>2. /\ order' \in Seq(Task) /\ Len(order') = n - 1
      /\ \A j \in 1 .. n - 1 : order'[j] = IF j < i THEN order[j] ELSE order[j + 1]
  BY <1>1, WithoutProperties DEF LInv, TypeOK
<1>3. /\ task_head = order[1] /\ task_tail = order[n] /\ next[order[n]] = NULL
      /\ \A j \in 1 .. n - 1 : next[order[j]] = order[j + 1]
  BY <1>1, NonEmpty DEF LInv, TypeOK, ListSound, ListIsOrder
<1>4. \A j, k \in 1 .. n : order[j] = order[k] => j = k
  BY DEF LInv, Distinct
<1>5. \A j \in 1 .. n : order[j] \in Task /\ order[j] # NULL
  BY NonEmpty, TaskListAssumption DEF LInv, TypeOK
<1>6. prev[t] = IF i = 1 THEN NULL ELSE order[i - 1]
  BY DEF PrevUpToDate
<1>7. /\ next' = IF prev[t] = NULL THEN next ELSE [next EXCEPT ![prev[t]] = next[t]]
      /\ task_head' = IF t = task_head THEN next[t] ELSE task_head
      /\ task_tail' = IF t = task_tail THEN prev[t] ELSE task_tail
  BY DEF Unlink, Link
<1>8. next \in [Task -> Pointer]
  BY DEF LInv, TypeOK
<1> HIDE DEF n, i
<1>9. \A j \in 1 .. n : next'[order[j]] = IF j = i - 1 THEN next[t] ELSE next[order[j]]
  <2>1. CASE i = 1
    BY <2>1, <1>1, <1>6, <1>7
  <2>2. CASE i # 1
    <3>1. next' = [next EXCEPT ![order[i - 1]] = next[t]] /\ i - 1 \in 1 .. n
      BY <2>2, <1>1, <1>5, <1>6, <1>7
    <3>2. QED
      BY <3>1, <1>4, <1>5, <1>8
  <2>3. QED
    BY <2>1, <2>2
<1>10. task_head' = order'[1]
  <2>1. CASE i = 1
    BY <2>1, <1>1, <1>2, <1>3, <1>7
  <2>2. CASE i # 1
    <3>1. t # task_head
      BY <2>2, <1>1, <1>3, <1>4
    <3>2. QED
      BY <3>1, <2>2, <1>1, <1>2, <1>3, <1>7
  <2>3. QED
    BY <2>1, <2>2
<1>11. task_tail' = order'[n - 1] /\ next'[task_tail'] = NULL
  <2>1. CASE i = n
    <3>1. task_tail' = order[n - 1] /\ n - 1 \in 1 .. n
      BY <2>1, <1>1, <1>3, <1>6, <1>7
    <3>2. next'[order[n - 1]] = NULL
      BY <2>1, <3>1, <1>1, <1>3, <1>9
    <3>3. order'[n - 1] = order[n - 1]
      BY <2>1, <1>1, <1>2
    <3>4. QED
      BY <3>1, <3>2, <3>3
  <2>2. CASE i # n
    <3>1. t # task_tail /\ task_tail' = order[n]
      BY <2>2, <1>1, <1>3, <1>4, <1>7
    <3>2. order'[n - 1] = order[n]
      BY <2>2, <1>1, <1>2
    <3>3. next'[order[n]] = NULL
      BY <1>1, <1>3, <1>9
    <3>4. QED
      BY <3>1, <3>2, <3>3
  <2>3. QED
    BY <2>1, <2>2
<1>12. ASSUME NEW j \in 1 .. n - 2 PROVE next'[order'[j]] = order'[j + 1]
  <2>1. j \in 1 .. n - 1 /\ j + 1 \in 1 .. n - 1 /\ j + 1 \in 1 .. n /\ j \in 1 .. n
    BY <1>1
  <2>2. CASE j + 1 < i
    <3>1. order'[j] = order[j] /\ order'[j + 1] = order[j + 1]
      BY <2>1, <2>2, <1>1, <1>2
    <3>2. QED
      BY <3>1, <2>1, <2>2, <1>1, <1>3, <1>9
  <2>3. CASE j + 1 = i
    <3>1. order'[j] = order[j] /\ order'[j + 1] = order[i + 1] /\ i \in 1 .. n - 1
      BY <2>1, <2>3, <1>1, <1>2
    <3>2. j = i - 1
      BY <2>1, <2>3, <1>1
    <3>3. next'[order[j]] = next[t]
      BY <2>1, <3>2, <1>9
    <3>4. next[t] = order[i + 1]
      BY <3>1, <1>1, <1>3
    <3>5. QED
      BY <3>1, <3>3, <3>4
  <2>4. CASE j >= i
    <3>1. order'[j] = order[j + 1] /\ order'[j + 1] = order[j + 2]
      BY <2>1, <2>4, <1>1, <1>2
    <3>2. next'[order[j + 1]] = next[order[j + 1]]
      BY <2>1, <2>4, <1>1, <1>9
    <3>3. next[order[j + 1]] = order[(j + 1) + 1]
      BY <2>1, <1>3
    <3>4. QED
      BY <3>1, <3>2, <3>3, <2>1
  <2>5. QED
    BY <2>1, <2>2, <2>3, <2>4, <1>1
<1>13. order' # <<>>
  BY <1>1, <1>2, NonEmpty
<1>14. QED
  BY <1>1, <1>2, <1>10, <1>11, <1>12, <1>13 DEF IsList

LEMMA FreeLInv == ASSUME LInv, NEW t \in Task, task_free(t) PROVE LInv'
<1>1. Pos(t) \in 1 .. Len(order) /\ order[Pos(t)] = t /\ t \in Live
  BY IndexOfMember DEF LInv, TypeOK, Live, Pos, task_free
<1>2. order' \in Seq(Task) /\ Distinct(order') /\ Live' = Live \ {t}
  BY <1>1, WithoutProperties, WithoutMembers DEF LInv, TypeOK, Live, task_free
<1>3. TypeOK'
  <2>1. next' \in [Task -> Pointer] /\ task_head' \in Pointer /\ task_tail' \in Pointer
    BY DEF LInv, TypeOK, task_free, Unlink, Link
  <2>2. current_task' \in Pointer
    BY DEF LInv, TypeOK, task_free, Candidates, Pointer
  <2>3. dirty' \in BOOLEAN /\ prev' = prev
    BY DEF LInv, TypeOK, task_free
  <2>4. QED
    BY <1>2, <2>1, <2>2, <2>3 DEF LInv, TypeOK
<1>4. ASSUME ~dirty' PROVE ListIsOrder' /\ current_task' \in Live'
  <2>1. ~dirty /\ PrevUpToDate(t) /\ current_task \in Live
    BY <1>4 DEF task_free, LInv, ListSound
  <2>2. IsList(next', task_head', task_tail', order') /\ order' # <<>>
    BY <1>1, <2>1, UnlinkKeepsList DEF task_free
  <2>3. CASE t # current_task
    BY <1>2, <2>1, <2>2, <2>3 DEF IsList, ListIsOrder, task_free
  <2>4. CASE t = current_task
    <3>1. next'[t] = next[t]
      <4>1. prev[t] # t
        <5>1. prev[t] = NULL \/ (Pos(t) - 1 \in 1 .. Len(order)
                                 /\ prev[t] = order[Pos(t) - 1])
          BY <1>1, <2>1 DEF PrevUpToDate
        <5>2. QED
          BY <1>1, <5>1, TaskListAssumption DEF LInv, Distinct
      <4>2. QED
        BY <4>1 DEF LInv, TypeOK, task_free, Unlink, Link
    <3>2. next[t] = NULL \/ next[t] \in Live'
      <4>1. NextTo(next, task_head, t) \in Live
        BY <1>1, <2>1, NextToOnList, NonEmpty
           DEF LInv, TypeOK, ListSound, ListIsOrder, IsList, Live, task_free
      <4>2. next[t] # t
        <5>1. \A i \in 1 .. Len(order) - 1 : next[order[i]] = order[i + 1]
          BY <1>1, <2>1, NonEmpty DEF LInv, TypeOK, ListSound, ListIsOrder, Live, Members
        <5>2. CASE Pos(t) < Len(order)
          <6>1. next[t] = order[Pos(t) + 1] /\ Pos(t) + 1 \in 1 .. Len(order)
            BY <1>1, <5>1, <5>2, NonEmpty DEF LInv, TypeOK
          <6>2. QED
            BY <1>1, <6>1 DEF LInv, Distinct
        <5>3. CASE ~(Pos(t) < Len(order))
          <6>1. Pos(t) = Len(order)
            BY <1>1, <5>3, NonEmpty DEF LInv, TypeOK
          <6>2. next[t] = NULL
            BY <1>1, <6>1, <2>1, NonEmpty
               DEF LInv, TypeOK, ListSound, ListIsOrder, task_free
          <6>3. QED
            BY <6>2, TaskListAssumption
        <5>4. QED
          BY <5>2, <5>3
      <4>3. QED
        BY <4>1, <4>2, <1>2 DEF NextTo
    <3>3. task_head' \in Live'
      BY <2>2, <1>2, NonEmpty DEF IsList, Live
    <3>4. NextTo(next', task_head', t) \in Live'
      BY <3>1, <3>2, <3>3 DEF NextTo
    <3>5. Candidates(next', task_head', t) \subseteq Live'
      BY <1>2, <1>3, <2>2, <3>4, CandidatesOnList DEF TypeOK, Live
    <3>6. QED
      BY <2>2, <2>4, <3>5 DEF IsList, ListIsOrder, task_free
  <2>5. QED
    BY <2>3, <2>4
<1>5. QED
  BY <1>2, <1>3, <1>4 DEF LInv, ListSound

LEMMA ListInvHolds == Spec => []LInv
<1>1. LInv /\ [Next]_vars => LInv'
  <2>1. SUFFICES ASSUME LInv, [Next]_vars PROVE LInv'
    OBVIOUS
  <2>2. CASE UNCHANGED vars
    BY <2>1, <2>2
       DEF LInv, TypeOK, ListSound, ListIsOrder, Live, vars
  <2>3. QED
    BY <2>1, <2>2, NewLInv, FreeLInv, RunFirstLInv, NextLInv DEF Next
<1>2. QED
  BY <1>1, InitLInv, PTL DEF Spec

(* The pointers of task.c spell out the queue the scheduler runs, and the  *)
(* running task is on it, until a task is removed through an outdated prev *)
(* pointer (task_new, task_list_remove, task_next).                        *)
THEOREM TaskListSound == Spec => []ListSound
<1>1. LInv => ListSound
  BY DEF LInv
<1>2. QED
  BY <1>1, ListInvHolds, PTL

-----------------------------------------------------------------------------
(* On a queue without repetition, a task is where it is found. *)
LEMMA IndexIs ==
  ASSUME NEW q \in Seq(Task), Distinct(q), NEW j \in 1 .. Len(q)
  PROVE  IndexOf(q, q[j]) = j
<1>1. q[j] \in Members(q)
  BY NonEmpty
<1>2. IndexOf(q, q[j]) \in 1 .. Len(q) /\ q[IndexOf(q, q[j])] = q[j]
  BY <1>1, IndexOfMember
<1>3. QED
  BY <1>2 DEF Distinct

(* A task that is added has the task before it, and moves no other. *)
LEMMA NewKeepsPrev ==
  ASSUME LInv, NEW x \in Task, task_new(x), NEW t \in Live, PrevUpToDate(t)
  PROVE  PrevUpToDate(t)'
<1> DEFINE n == Len(order)
           k == Pos(t)
<1>1. k \in 1 .. n /\ order[k] = t /\ n \in Nat /\ t \in Task
  BY IndexOfMember, NonEmpty DEF LInv, TypeOK, Live, Pos
<1>2. /\ Len(order') = n + 1 /\ order' \in Seq(Task)
      /\ \A i \in 1 .. n : order'[i] = order[i]
  BY AppendProperties DEF LInv, TypeOK, task_new
<1>3. x \notin Live /\ Distinct(order')
  BY AppendMembers DEF LInv, TypeOK, task_new, Live
<1>4. prev'[t] = prev[t]
  BY <1>1, <1>3 DEF LInv, TypeOK, task_new
<1> HIDE DEF n, k
<1>5. Pos(t)' = k
  <2>1. k \in 1 .. Len(order') /\ order'[k] = t
    BY <1>1, <1>2
  <2>2. IndexOf(order', order'[k]) = k
    BY <1>2, <1>3, <2>1, IndexIs
  <2>3. QED
    BY <2>1, <2>2 DEF Pos
<1>6. prev[t] = IF k = 1 THEN NULL ELSE order[k - 1]
  BY DEF PrevUpToDate, k
<1>7. k # 1 => order'[k - 1] = order[k - 1]
  BY <1>1, <1>2
<1>8. QED
  BY <1>4, <1>5, <1>6, <1>7 DEF PrevUpToDate

(* A task that is removed is the only one whose successor has to be told. *)
LEMMA FreeKeepsPrev ==
  ASSUME LInv, NEW x \in Task, task_free(x), NEW t \in Live, t # x, PrevUpToDate(t)
  PROVE  PrevUpToDate(t)' \/ (Pos(t) > 1 /\ order[Pos(t) - 1] \notin Live')
<1> DEFINE n == Len(order)
           k == Pos(t)
           i == Pos(x)
<1>1. /\ k \in 1 .. n /\ order[k] = t /\ n \in Nat /\ t \in Task
      /\ i \in 1 .. n /\ order[i] = x
  BY IndexOfMember, NonEmpty DEF LInv, TypeOK, Live, Pos, task_free
<1>2. /\ order' \in Seq(Task) /\ Len(order') = n - 1
      /\ \A j \in 1 .. n - 1 : order'[j] = IF j < i THEN order[j] ELSE order[j + 1]
  BY <1>1, WithoutProperties DEF LInv, TypeOK, task_free
<1>3. Distinct(order') /\ Live' = Live \ {x}
  BY <1>1, WithoutProperties, WithoutMembers DEF LInv, TypeOK, Live, task_free
<1>4. prev'[t] = prev[t]
  BY DEF task_free
<1>5. prev[t] = IF k = 1 THEN NULL ELSE order[k - 1]
  BY DEF PrevUpToDate
<1>6. \A j \in 1 .. n - 1 : order'[j] = t => Pos(t)' = j
  <2> SUFFICES ASSUME NEW j \in 1 .. n - 1, order'[j] = t PROVE Pos(t)' = j
    OBVIOUS
  <2>1. j \in 1 .. Len(order')
    BY <1>2
  <2>2. IndexOf(order', order'[j]) = j
    BY <1>2, <1>3, <2>1, IndexIs
  <2>3. QED
    BY <2>2 DEF Pos
<1> HIDE DEF n, k, i
<1>7. CASE k < i
  <2>1. k \in 1 .. n - 1 /\ order'[k] = t
    BY <1>1, <1>2, <1>7
  <2>2. Pos(t)' = k
    BY <1>6, <2>1
  <2>3. k # 1 => order'[k - 1] = order[k - 1]
    BY <1>1, <1>2, <1>7
  <2>4. PrevUpToDate(t)'
    BY <1>4, <1>5, <2>2, <2>3 DEF PrevUpToDate
  <2>5. QED
    BY <2>4
<1>8. CASE k = i + 1
  <2>1. k > 1 /\ order[k - 1] = x
    BY <1>1, <1>8
  <2>2. QED
    BY <1>3, <2>1 DEF k
<1>9. CASE k > i + 1
  <2>1. k - 1 \in 1 .. n - 1 /\ order'[k - 1] = t
    BY <1>1, <1>2, <1>9
  <2>2. Pos(t)' = k - 1
    BY <1>6, <2>1
  <2>3. k - 1 # 1 /\ k # 1 /\ order'[(k - 1) - 1] = order[k - 1]
    BY <1>1, <1>2, <1>9
  <2>4. PrevUpToDate(t)'
    BY <1>4, <1>5, <2>2, <2>3 DEF PrevUpToDate
  <2>5. QED
    BY <2>4
<1>10. k # i
  BY <1>1
<1>11. QED
  BY <1>1, <1>7, <1>8, <1>9, <1>10

(* The prev pointer of the successor of a removed task is the only one     *)
(* that goes out of date: task_list_remove would have to set no other.     *)
THEOREM OnlySuccessorStale == Spec => OnlySuccessorGoesStale
<1>1. ASSUME LInv, [Next]_vars, NEW t \in Live \cap Live', PrevUpToDate(t)
      PROVE  PrevUpToDate(t)' \/ (Pos(t) > 1 /\ order[Pos(t) - 1] \notin Live')
  <2>1. ASSUME NEW x \in Task, task_new(x) PROVE PrevUpToDate(t)'
    BY <1>1, <2>1, NewKeepsPrev
  <2>2. ASSUME NEW x \in Task, task_free(x)
        PROVE  PrevUpToDate(t)' \/ (Pos(t) > 1 /\ order[Pos(t) - 1] \notin Live')
    <3>1. Pos(x) \in 1 .. Len(order) /\ order[Pos(x)] = x
      BY <1>1, <2>2, IndexOfMember DEF LInv, TypeOK, Live, Pos, task_free
    <3>2. Live' = Live \ {x}
      BY <1>1, <2>2, <3>1, WithoutMembers DEF LInv, TypeOK, Live, task_free
    <3>3. QED
      BY <1>1, <2>2, <3>2, FreeKeepsPrev
  <2>3. CASE UNCHANGED <<prev, order>>
    BY <1>1, <2>3 DEF PrevUpToDate, Pos
  <2>4. QED
    BY <1>1, <2>1, <2>2, <2>3 DEF Next, task_next, task_run_first_ever_task, vars
<1>2. LInv /\ [Next]_vars =>
        [\A t \in Live \cap Live' :
          ~dirty /\ PrevUpToDate(t) =>
             \/ PrevUpToDate(t)'
             \/ Pos(t) > 1 /\ order[Pos(t) - 1] \notin Live']_vars
  BY <1>1
<1>3. QED
  BY <1>2, ListInvHolds, PTL DEF Spec, OnlySuccessorGoesStale
=============================================================================
