-------------------------- MODULE SlackServerProofs --------------------------
(***************************************************************************)
(* The server's promises for every set of commands, every configured       *)
(* number of permits and any number of resends and crashes: permits are    *)
(* conserved and none lies idle while a task is queued, a process starts   *)
(* the work of a trigger_id once, and a deferred command that would be      *)
(* answered "(already processing)" has a task.                             *)
(***************************************************************************)
EXTENDS SlackServer, FiniteSetTheorems, TLAPS

\* Every task of a command with a trigger_id is remembered.
Remembered ==
  \A i \in DOMAIN tasks :
    tasks[i].trigger \notin NoId => tasks[i].trigger \in seen_triggers

\* So a process has one task for a trigger_id at most.
OneTask ==
  \A i, j \in DOMAIN tasks :
    tasks[i].trigger = tasks[j].trigger /\ tasks[i].trigger \notin NoId => i = j

NotStarted == {"created", "queued"}

\* Who is on the queue of the semaphore is queued, once.
OnQueue ==
  /\ \A k \in DOMAIN waiters : tasks[waiters[k]].state = "queued"
  /\ \A k, l \in DOMAIN waiters : waiters[k] = waiters[l] => k = l

\* The start of this process, if it used it, shows in its task.
StartShows ==
  \A t \in Trigger \ NoId :
    starts[t] > crashes =>
      \E i \in DOMAIN tasks : tasks[i].trigger = t /\ tasks[i].state \notin NotStarted

\* The inductive invariant.
IInv ==
  /\ TypeOK
  /\ \A t \in Trigger : wire[t] <= sends[t]
  /\ PermitsConserved
  /\ OnQueue
  /\ DeferredHasTask
  /\ Remembered
  /\ OneTask
  /\ OneStartPerProcess
  /\ StartShows

-----------------------------------------------------------------------------
LEMMA Constants ==
  /\ Permits \in Nat /\ Permits >= 1
  /\ MaxSends \in Nat /\ MaxCrashes \in Nat /\ MaxConcurrent \in Nat
BY ServerAssumption DEF ServerAssumption, Permits

\* The tasks that hold a permit are finitely many.
LEMMA WorkingFinite ==
  ASSUME NEW q \in Seq(Task)
  PROVE  LET W == {i \in DOMAIN q : q[i].state \in {"working", "responding"}}
         IN  IsFiniteSet(W) /\ Cardinality(W) \in Nat
<1> DEFINE W == {i \in DOMAIN q : q[i].state \in {"working", "responding"}}
<1>1. IsFiniteSet(1..Len(q))
  BY FS_Interval
<1>2. W \in SUBSET (1..Len(q))
  OBVIOUS
<1>3. IsFiniteSet(W)
  BY <1>1, <1>2, FS_Subset
<1>4. Cardinality(W) \in Nat
  BY <1>3, FS_CardinalityType
<1> QED
  BY <1>3, <1>4

LEMMA InitIInv == Init => IInv
<1> SUFFICES ASSUME Init PROVE IInv
  OBVIOUS
<1>1. TypeOK
  BY Constants DEF Init, TypeOK
<1>2. Working = {}
  BY DEF Init, Working
<1>3. PermitsConserved
  BY <1>2, FS_EmptySet, Constants DEF Init, PermitsConserved
<1> QED
  BY <1>1, <1>3
  DEF Init, IInv, OnQueue, DeferredHasTask, Remembered, OneTask,
      OneStartPerProcess, StartShows

-----------------------------------------------------------------------------
\* A post on its way, delivered or lost, leaves what Slack keeps as it was.
LEMMA SlackKeeps ==
  ASSUME IInv, NEW t \in Trigger,
         Receive(t) \/ SlackPosts(t) \/ PostLost(t)
  PROVE  /\ sends' \in [Trigger -> 0..MaxSends]
         /\ wire' \in [Trigger -> 0..MaxSends]
         /\ replied' \subseteq Trigger
         /\ \A u \in Trigger : wire'[u] <= sends'[u]
<1> USE Constants DEF IInv, TypeOK
<1>1. CASE Receive(t) \/ PostLost(t)
  <2>1. /\ UNCHANGED sends /\ replied' \subseteq Trigger
        /\ wire' = [wire EXCEPT ![t] = @ - 1] /\ wire[t] > 0
    BY <1>1 DEF Receive, PostLost
  <2>2. \A u \in Trigger : sends[u] \in 0..MaxSends /\ wire[u] \in 0..MaxSends
    OBVIOUS
  <2> QED
    BY <2>1, <2>2
<1>2. CASE SlackPosts(t)
  <2>1. sends[t] \in 0..MaxSends /\ wire[t] \in 0..MaxSends /\ wire[t] <= sends[t]
    OBVIOUS
  <2> QED
    BY <1>2, <2>1 DEF SlackPosts
<1> QED
  BY <1>1, <1>2

\* A step that leaves the process as it is only has Slack's part to show.
LEMMA OnlySlack ==
  ASSUME IInv, NEW t \in Trigger,
         Receive(t) \/ SlackPosts(t) \/ PostLost(t),
         UNCHANGED <<process, server, starts>>
  PROVE  IInv'
<1>1. /\ UNCHANGED <<crashes, up, seen_triggers, free, waiters, tasks, starts>>
      /\ Working' = Working
  BY DEF process, server, Working
<1> QED
  BY <1>1, SlackKeeps
  DEF IInv, TypeOK, PermitsConserved, OnQueue, DeferredHasTask, Remembered,
      OneTask, OneStartPerProcess, StartShows

LEMMA HandleKeeps == ASSUME NEW t \in Trigger PROVE IInv /\ Handle(t) => IInv'
<1> SUFFICES ASSUME IInv, Handle(t) PROVE IInv'
  OBVIOUS
<1> DEFINE new == [trigger |-> t, state |-> "created"]
           deferred == Dispatch(t) # "inline" /\ t \in HasUrl
<1>1. /\ UNCHANGED <<crashes, up, free, waiters, starts>>
      /\ seen_triggers' = seen_triggers \cup ({t} \ NoId)
      /\ t \in NoId \/ t \notin seen_triggers
      /\ seen_triggers' \subseteq Trigger \ NoId
  BY DEF Handle, process, IInv, TypeOK
<1>2. /\ deferred => tasks' = Append(tasks, new)
      /\ ~deferred => tasks' = tasks
  BY DEF Handle
<1>3. /\ new \in Task /\ new.trigger = t /\ new.state = "created"
      /\ tasks \in Seq(Task)
  BY DEF Task, IInv, TypeOK
<1>4. TypeOK'
  <2>1. tasks' \in Seq(Task)
    BY <1>2, <1>3
  <2>2. waiters' \in Seq(DOMAIN tasks')
    <3>1. DOMAIN tasks \subseteq DOMAIN tasks'
      BY <1>2, <1>3
    <3> QED
      BY <1>1, <3>1 DEF IInv, TypeOK
  <2> QED
    BY <1>1, <2>1, <2>2, SlackKeeps DEF Handle, IInv, TypeOK
<1>5. Working' = Working
  <2>1. CASE deferred
    <3>1. /\ DOMAIN tasks' = DOMAIN tasks \cup {Len(tasks) + 1}
          /\ \A i \in DOMAIN tasks : tasks'[i] = tasks[i]
          /\ tasks'[Len(tasks) + 1] = new
      BY <1>2, <1>3, <2>1
    <3> QED
      BY <1>3, <3>1 DEF Working
  <2> QED
    BY <1>2, <2>1 DEF Working
<1>6. \A i \in DOMAIN tasks : i \in DOMAIN tasks' /\ tasks'[i] = tasks[i]
  BY <1>2, <1>3
<1>7. \A i \in DOMAIN tasks' :
        i \in DOMAIN tasks \/ (deferred /\ i = Len(tasks) + 1 /\ tasks'[i] = new)
  BY <1>2, <1>3
<1>8. deferred => Len(tasks) + 1 \in DOMAIN tasks' /\ tasks'[Len(tasks) + 1] = new
  BY <1>2, <1>3
<1>9. DOMAIN tasks = 1..Len(tasks) /\ Len(tasks) \in Nat
  BY <1>3
<1> HIDE DEF new, deferred
<1>10. OnQueue'
  <2>1. \A k \in DOMAIN waiters : waiters[k] \in DOMAIN tasks
    BY DEF IInv, TypeOK
  <2> QED
    BY <1>1, <1>6, <2>1 DEF IInv, OnQueue
<1>11. Remembered'
  BY <1>1, <1>3, <1>6, <1>7 DEF IInv, Remembered
<1>12. OneTask'
  <2>1. t \notin NoId => \A i \in DOMAIN tasks : tasks[i].trigger # t
    BY <1>1 DEF IInv, Remembered
  <2> QED
    BY <1>3, <1>6, <1>7, <2>1 DEF IInv, OneTask
<1>13. DeferredHasTask'
  <2> SUFFICES ASSUME NEW u \in seen_triggers', Dispatch(u) # "inline", u \in HasUrl
               PROVE  \E i \in DOMAIN tasks' : tasks'[i].trigger = u
    BY DEF DeferredHasTask, Dispatch
  <2>1. CASE u \in seen_triggers
    BY <1>6, <2>1 DEF IInv, DeferredHasTask
  <2>2. CASE u = t
    BY <1>3, <1>8, <2>2 DEF deferred
  <2> QED
    BY <1>1, <2>1, <2>2
<1>14. OneStartPerProcess' /\ StartShows'
  BY <1>1, <1>6 DEF IInv, OneStartPerProcess, StartShows
<1>15. PermitsConserved'
  BY <1>1, <1>5 DEF IInv, PermitsConserved
<1>16. \A u \in Trigger : wire'[u] <= sends'[u]
  BY SlackKeeps DEF Handle
<1> QED
  BY <1>4, <1>10, <1>11, <1>12, <1>13, <1>14, <1>15, <1>16 DEF IInv

-----------------------------------------------------------------------------
\* The tasks of the next state, when the task i moves to the state s.
LEMMA OneTaskMoves ==
  ASSUME NEW q \in Seq(Task), NEW i \in DOMAIN q,
         NEW s \in {"queued", "working", "responding", "over"}
  PROVE  LET r == [q EXCEPT ![i].state = s]
         IN  /\ r \in Seq(Task)
             /\ DOMAIN r = DOMAIN q
             /\ \A j \in DOMAIN q : r[j].trigger = q[j].trigger
             /\ \A j \in DOMAIN q : j # i => r[j] = q[j]
             /\ r[i].state = s
<1> DEFINE new == [q[i] EXCEPT !.state = s]
           r == [q EXCEPT ![i].state = s]
<1>1. q[i] \in Task
  OBVIOUS
<1>2. new \in Task /\ new.trigger = q[i].trigger /\ new.state = s
  BY <1>1 DEF Task
<1>3. r = [q EXCEPT ![i] = new]
  OBVIOUS
<1> HIDE DEF new
<1> QED
  BY <1>1, <1>2, <1>3

\* What a step of a task has to show: its permits, the queue, and its count of
\* starts.  No task changes its command and none that has started goes back.
LEMMA TasksMove ==
  ASSUME IInv, tasks' \in Seq(Task), DOMAIN tasks' = DOMAIN tasks,
         \A j \in DOMAIN tasks :
           /\ tasks'[j].trigger = tasks[j].trigger
           /\ tasks[j].state \notin NotStarted => tasks'[j].state \notin NotStarted,
         UNCHANGED <<slack, process, seen_triggers>>,
         free' \in Nat, waiters' \in Seq(DOMAIN tasks'),
         PermitsConserved', OnQueue',
         starts' \in [Trigger -> Nat],
         \A t \in Trigger \ NoId :
           \/ starts'[t] = starts[t]
           \/ /\ starts'[t] <= crashes + 1
              /\ \E j \in DOMAIN tasks :
                   tasks[j].trigger = t /\ tasks'[j].state \notin NotStarted
  PROVE  IInv'
<1>1. /\ UNCHANGED <<sends, wire, replied, crashes, up, seen_triggers>>
  BY DEF slack, process
<1>2. free' \in 0..Permits
  <2>1. Cardinality(Working') \in Nat
    BY WorkingFinite DEF Working
  <2> QED
    BY <2>1, Constants DEF PermitsConserved
<1>3. TypeOK'
  BY <1>1, <1>2 DEF IInv, TypeOK
<1>4. DeferredHasTask'
  BY <1>1 DEF IInv, DeferredHasTask, Dispatch
<1>5. Remembered' /\ OneTask'
  BY <1>1 DEF IInv, Remembered, OneTask
<1>6. OneStartPerProcess'
  BY <1>1 DEF IInv, OneStartPerProcess
<1>7. StartShows'
  BY <1>1 DEF IInv, StartShows
<1> QED
  BY <1>1, <1>3, <1>4, <1>5, <1>6, <1>7 DEF IInv

\* A task that has not started leaves its command a start in this process.
LEMMA MayBegin ==
  ASSUME IInv, NEW i \in DOMAIN tasks, tasks[i].state \in NotStarted, Begin(i)
  PROVE  /\ tasks[i].trigger \in Trigger
         /\ starts' \in [Trigger -> Nat]
         /\ \A t \in Trigger \ NoId :
              \/ starts'[t] = starts[t]
              \/ t = tasks[i].trigger /\ starts'[t] <= crashes + 1
<1> DEFINE u == tasks[i].trigger
<1>1. u \in Trigger
  <2>1. tasks[i] \in Task
    BY DEF IInv, TypeOK
  <2> QED
    BY <2>1 DEF Task
<1>2. /\ starts' = [starts EXCEPT ![u] = @ + 1]
      /\ starts \in [Trigger -> Nat] /\ crashes \in Nat
  BY Constants DEF Begin, IInv, TypeOK
<1>3. u \notin NoId => starts[u] <= crashes
  <2> SUFFICES ASSUME u \notin NoId PROVE starts[u] <= crashes
    OBVIOUS
  <2>1. \A j \in DOMAIN tasks : tasks[j].trigger = u => tasks[j].state \in NotStarted
    BY DEF IInv, OneTask
  <2> QED
    BY <1>1, <1>2, <2>1 DEF IInv, StartShows
<1> QED
  BY <1>1, <1>2, <1>3

\* The permits in use, counted, when one task more or less works.
LEMMA OneMore ==
  ASSUME NEW W, NEW i, IsFiniteSet(W)
  PROVE  /\ i \notin W => Cardinality(W \cup {i}) = Cardinality(W) + 1
         /\ i \in W => Cardinality(W \ {i}) = Cardinality(W) - 1
         /\ IsFiniteSet(W \ {i}) /\ Cardinality(W) \in Nat
BY FS_AddElement, FS_RemoveElement, FS_CardinalityType

LEMMA TypedTasks ==
  ASSUME IInv
  PROVE  /\ tasks \in Seq(Task) /\ waiters \in Seq(DOMAIN tasks) /\ free \in Nat
         /\ starts \in [Trigger -> Nat]
         /\ IsFiniteSet(Working) /\ Cardinality(Working) \in Nat
<1>1. /\ tasks \in Seq(Task) /\ waiters \in Seq(DOMAIN tasks) /\ free \in Nat
      /\ starts \in [Trigger -> Nat]
  BY Constants DEF IInv, TypeOK
<1> QED
  BY <1>1, WorkingFinite DEF Working

LEMMA AcquireKeeps ==
  ASSUME NEW i \in DOMAIN tasks PROVE IInv /\ Acquire(i) => IInv'
<1> SUFFICES ASSUME IInv, Acquire(i) PROVE IInv'
  OBVIOUS
<1>1. /\ tasks' = [tasks EXCEPT ![i].state = "working"]
      /\ tasks[i].state = "created"
      /\ UNCHANGED <<slack, process, seen_triggers, waiters>>
      /\ free' = free - 1 /\ free > 0 /\ waiters = <<>>
      /\ Begin(i)
  BY DEF Acquire
<1>2. /\ tasks' \in Seq(Task) /\ DOMAIN tasks' = DOMAIN tasks
      /\ \A j \in DOMAIN tasks : tasks'[j].trigger = tasks[j].trigger
      /\ \A j \in DOMAIN tasks : j # i => tasks'[j] = tasks[j]
      /\ tasks'[i].state = "working"
  BY <1>1, OneTaskMoves, TypedTasks
<1>3. Working' = Working \cup {i} /\ i \notin Working
  BY <1>1, <1>2 DEF Working
<1>4. PermitsConserved'
  BY <1>1, <1>3, OneMore, TypedTasks DEF IInv, PermitsConserved
<1>5. OnQueue' /\ waiters' \in Seq(DOMAIN tasks') /\ free' \in Nat
  BY <1>1, <1>2, TypedTasks DEF OnQueue
<1>6. /\ starts' \in [Trigger -> Nat]
      /\ \A t \in Trigger \ NoId :
           \/ starts'[t] = starts[t]
           \/ t = tasks[i].trigger /\ starts'[t] <= crashes + 1
  BY <1>1, MayBegin DEF NotStarted
<1> QED
  BY <1>1, <1>2, <1>4, <1>5, <1>6, TasksMove DEF NotStarted

LEMMA QueueKeeps ==
  ASSUME NEW i \in DOMAIN tasks PROVE IInv /\ Queue(i) => IInv'
<1> SUFFICES ASSUME IInv, Queue(i) PROVE IInv'
  OBVIOUS
<1>1. /\ tasks' = [tasks EXCEPT ![i].state = "queued"]
      /\ tasks[i].state = "created"
      /\ UNCHANGED <<slack, process, seen_triggers, free, starts>>
      /\ waiters' = Append(waiters, i)
      /\ free = 0 \/ waiters # <<>>
  BY DEF Queue
<1>2. /\ tasks' \in Seq(Task) /\ DOMAIN tasks' = DOMAIN tasks
      /\ \A j \in DOMAIN tasks : tasks'[j].trigger = tasks[j].trigger
      /\ \A j \in DOMAIN tasks : j # i => tasks'[j] = tasks[j]
      /\ tasks'[i].state = "queued"
  BY <1>1, OneTaskMoves, TypedTasks
<1>3. Working' = Working
  BY <1>1, <1>2 DEF Working
<1>4. PermitsConserved'
  BY <1>1, <1>3 DEF IInv, PermitsConserved
<1>5. waiters' \in Seq(DOMAIN tasks') /\ free' \in Nat
  BY <1>1, <1>2, TypedTasks
<1>6. OnQueue'
  <2>1. \A k \in DOMAIN waiters :
          waiters[k] \in DOMAIN tasks /\ tasks[waiters[k]].state = "queued"
    BY TypedTasks DEF IInv, OnQueue
  <2>2. \A k \in DOMAIN waiters : waiters[k] # i
    BY <1>1, <2>1
  <2>3. /\ \A k \in DOMAIN waiters' : k \in DOMAIN waiters \/ k = Len(waiters) + 1
        /\ \A k \in DOMAIN waiters : waiters'[k] = waiters[k]
        /\ waiters'[Len(waiters) + 1] = i
    BY <1>1, TypedTasks
  <2> QED
    BY <1>2, <2>1, <2>2, <2>3 DEF IInv, OnQueue
<1>7. starts' \in [Trigger -> Nat] /\ \A t \in Trigger \ NoId : starts'[t] = starts[t]
  BY <1>1, TypedTasks
<1>8. \A j \in DOMAIN tasks :
        tasks[j].state \notin NotStarted => tasks'[j].state \notin NotStarted
  BY <1>1, <1>2 DEF NotStarted
<1> QED
  BY <1>1, <1>2, <1>4, <1>5, <1>6, <1>7, <1>8, TasksMove

LEMMA WorkKeeps ==
  ASSUME NEW i \in DOMAIN tasks PROVE IInv /\ Work(i) => IInv'
<1> SUFFICES ASSUME IInv, Work(i) PROVE IInv'
  OBVIOUS
<1>1. /\ tasks' = [tasks EXCEPT ![i].state = "responding"]
      /\ tasks[i].state = "working"
      /\ UNCHANGED <<slack, process, seen_triggers, free, waiters, starts>>
  BY DEF Work
<1>2. /\ tasks' \in Seq(Task) /\ DOMAIN tasks' = DOMAIN tasks
      /\ \A j \in DOMAIN tasks : tasks'[j].trigger = tasks[j].trigger
      /\ \A j \in DOMAIN tasks : j # i => tasks'[j] = tasks[j]
      /\ tasks'[i].state = "responding"
  BY <1>1, OneTaskMoves, TypedTasks
<1>3. Working' = Working
  BY <1>1, <1>2 DEF Working
<1>4. PermitsConserved'
  BY <1>1, <1>3 DEF IInv, PermitsConserved
<1>5. waiters' \in Seq(DOMAIN tasks') /\ free' \in Nat
  BY <1>1, <1>2, TypedTasks
<1>6. OnQueue'
  <2>1. \A k \in DOMAIN waiters :
          waiters[k] \in DOMAIN tasks /\ tasks[waiters[k]].state = "queued"
    BY TypedTasks DEF IInv, OnQueue
  <2> QED
    BY <1>1, <1>2, <2>1 DEF IInv, OnQueue
<1>7. starts' \in [Trigger -> Nat] /\ \A t \in Trigger \ NoId : starts'[t] = starts[t]
  BY <1>1, TypedTasks
<1> QED
  BY <1>1, <1>2, <1>4, <1>5, <1>6, <1>7, TasksMove DEF NotStarted

\* Nobody is queued: the permit is free again.
LEMMA FreeKeeps ==
  ASSUME NEW i \in DOMAIN tasks, IInv, Ended(i), FreePermit(i) PROVE IInv'
<1>1. /\ tasks' = [tasks EXCEPT ![i].state = "over"]
      /\ tasks[i].state = "responding"
      /\ UNCHANGED <<slack, process, seen_triggers, starts, waiters>>
      /\ free' = free + 1 /\ waiters = <<>>
  BY DEF Ended, FreePermit
<1>2. /\ tasks' \in Seq(Task) /\ DOMAIN tasks' = DOMAIN tasks
      /\ \A j \in DOMAIN tasks : tasks'[j].trigger = tasks[j].trigger
      /\ \A j \in DOMAIN tasks : j # i => tasks'[j] = tasks[j]
      /\ tasks'[i].state = "over"
  BY <1>1, OneTaskMoves, TypedTasks
<1>3. Working' = Working \ {i} /\ i \in Working
  BY <1>1, <1>2 DEF Working
<1>4. PermitsConserved'
  <2>1. Cardinality(Working') = Cardinality(Working) - 1 /\ Cardinality(Working) \in Nat
    BY <1>3, OneMore, TypedTasks
  <2>2. free + Cardinality(Working) = Permits /\ free \in Nat
    BY TypedTasks DEF IInv, PermitsConserved
  <2> QED
    BY <1>1, <2>1, <2>2, Constants DEF PermitsConserved
<1>5. OnQueue' /\ waiters' \in Seq(DOMAIN tasks') /\ free' \in Nat
  BY <1>1, <1>2, TypedTasks DEF OnQueue
<1>6. starts' \in [Trigger -> Nat] /\ \A t \in Trigger \ NoId : starts'[t] = starts[t]
  BY <1>1, TypedTasks
<1> QED
  BY <1>1, <1>2, <1>4, <1>5, <1>6, TasksMove DEF NotStarted

\* Or it goes to the first in the queue, which starts.
LEMMA HandOverKeeps ==
  ASSUME NEW i \in DOMAIN tasks, IInv, Ended(i), HandOver(i) PROVE IInv'
<1> DEFINE h == Head(waiters)
           mid == [tasks EXCEPT ![i].state = "over"]
<1>1. /\ tasks' = [mid EXCEPT ![h].state = "working"]
      /\ tasks[i].state = "responding"
      /\ UNCHANGED <<slack, process, seen_triggers, free>>
      /\ waiters # <<>> /\ waiters' = Tail(waiters)
      /\ Begin(h)
  BY DEF Ended, HandOver
<1>2. /\ h \in DOMAIN tasks /\ h = waiters[1] /\ 1 \in DOMAIN waiters
      /\ Tail(waiters) \in Seq(DOMAIN tasks)
      /\ \A k \in DOMAIN Tail(waiters) :
           k + 1 \in DOMAIN waiters /\ k + 1 # 1 /\ Tail(waiters)[k] = waiters[k + 1]
      /\ \A k, l \in DOMAIN Tail(waiters) : k + 1 = l + 1 => k = l
  BY <1>1, TypedTasks
<1>3. tasks[h].state = "queued" /\ h # i
  BY <1>1, <1>2 DEF IInv, OnQueue
<1>4. /\ mid \in Seq(Task) /\ DOMAIN mid = DOMAIN tasks
      /\ \A j \in DOMAIN tasks : mid[j].trigger = tasks[j].trigger
      /\ \A j \in DOMAIN tasks : j # i => mid[j] = tasks[j]
      /\ mid[i].state = "over"
  BY OneTaskMoves, TypedTasks
<1> HIDE DEF mid, h
<1>5. /\ tasks' \in Seq(Task) /\ DOMAIN tasks' = DOMAIN tasks
      /\ \A j \in DOMAIN tasks : tasks'[j].trigger = mid[j].trigger
      /\ \A j \in DOMAIN tasks : j # h => tasks'[j] = mid[j]
      /\ tasks'[h].state = "working"
  <2>1. h \in DOMAIN mid /\ mid \in Seq(Task)
    BY <1>2, <1>4
  <2> DEFINE r == [mid EXCEPT ![h].state = "working"]
  <2>2. /\ r \in Seq(Task)
        /\ DOMAIN r = DOMAIN mid
        /\ \A j \in DOMAIN mid : r[j].trigger = mid[j].trigger
        /\ \A j \in DOMAIN mid : j # h => r[j] = mid[j]
        /\ r[h].state = "working"
    BY <2>1, OneTaskMoves
  <2>3. tasks' = r
    BY <1>1
  <2> HIDE DEF r
  <2> QED
    BY <1>4, <2>2, <2>3
<1>6. /\ tasks' \in Seq(Task) /\ DOMAIN tasks' = DOMAIN tasks
      /\ \A j \in DOMAIN tasks : tasks'[j].trigger = tasks[j].trigger
      /\ \A j \in DOMAIN tasks : j \notin {i, h} => tasks'[j] = tasks[j]
      /\ tasks'[i].state = "over" /\ tasks'[h].state = "working"
  BY <1>3, <1>4, <1>5
<1>7. /\ Working' = (Working \ {i}) \cup {h}
      /\ i \in Working /\ h \notin Working
  BY <1>1, <1>2, <1>3, <1>6 DEF Working
<1>8. PermitsConserved'
  <2>1. Cardinality(Working') = Cardinality(Working)
    <3>1. IsFiniteSet(Working \ {i}) /\ h \notin Working \ {i}
      BY <1>7, OneMore, TypedTasks
    <3>2. Cardinality(Working') = Cardinality(Working \ {i}) + 1
      BY <1>7, <3>1, OneMore
    <3>3. Cardinality(Working \ {i}) = Cardinality(Working) - 1
      BY <1>7, OneMore, TypedTasks
    <3> QED
      BY <3>2, <3>3, TypedTasks
  <2> QED
    BY <1>1, <2>1 DEF IInv, PermitsConserved
<1>9. waiters' \in Seq(DOMAIN tasks') /\ free' \in Nat
  BY <1>1, <1>2, <1>6, TypedTasks
<1>10. OnQueue'
  <2>1. \A k \in DOMAIN waiters :
          waiters[k] \in DOMAIN tasks /\ tasks[waiters[k]].state = "queued"
    BY TypedTasks DEF IInv, OnQueue
  <2>2. \A k, l \in DOMAIN waiters : waiters[k] = waiters[l] => k = l
    BY DEF IInv, OnQueue
  <2>3. ASSUME NEW k \in DOMAIN waiters' PROVE tasks'[waiters'[k]].state = "queued"
    <3>1. waiters'[k] = waiters[k + 1] /\ k + 1 \in DOMAIN waiters /\ k + 1 # 1
      BY <1>1, <1>2
    <3>2. waiters'[k] # h /\ waiters'[k] # i /\ waiters'[k] \in DOMAIN tasks
      BY <1>1, <1>2, <2>1, <2>2, <3>1
    <3> QED
      BY <1>6, <2>1, <3>1, <3>2
  <2>4. \A k, l \in DOMAIN waiters' : waiters'[k] = waiters'[l] => k = l
    BY <1>1, <1>2, <2>2
  <2> QED
    BY <2>3, <2>4 DEF OnQueue
<1>11. /\ starts' \in [Trigger -> Nat]
       /\ \A t \in Trigger \ NoId :
            \/ starts'[t] = starts[t]
            \/ t = tasks[h].trigger /\ starts'[t] <= crashes + 1
  BY <1>1, <1>2, <1>3, MayBegin DEF NotStarted
<1>12. \A j \in DOMAIN tasks :
        tasks[j].state \notin NotStarted => tasks'[j].state \notin NotStarted
  BY <1>6 DEF NotStarted
<1>13. tasks'[h].state \notin NotStarted
  BY <1>6 DEF NotStarted
<1> QED
  BY <1>1, <1>2, <1>6, <1>8, <1>9, <1>10, <1>11, <1>12, <1>13, TasksMove

\* A new process knows nothing, and everyone may start once more.
LEMMA CrashKeeps == IInv /\ Crash => IInv'
<1> SUFFICES ASSUME IInv, Crash PROVE IInv'
  OBVIOUS
<1>1. /\ UNCHANGED <<sends, wire, replied, starts>>
      /\ tasks' = <<>> /\ seen_triggers' = {} /\ free' = Permits /\ waiters' = <<>>
      /\ crashes' = crashes + 1 /\ up' = FALSE
  BY DEF Crash, slack
<1>2. TypeOK'
  <2>1. tasks' \in Seq(Task) /\ waiters' \in Seq(DOMAIN tasks')
    BY <1>1
  <2>2. crashes' \in 0..MaxCrashes /\ free' \in 0..Permits
    BY <1>1, Constants DEF Crash, IInv, TypeOK
  <2> QED
    BY <1>1, <2>1, <2>2 DEF IInv, TypeOK
<1>3. Working' = {}
  BY <1>1 DEF Working
<1>4. PermitsConserved'
  BY <1>1, <1>3, FS_EmptySet, Constants DEF PermitsConserved, Permits
<1>5. OneStartPerProcess' /\ StartShows'
  BY <1>1 DEF IInv, TypeOK, OneStartPerProcess, StartShows
<1> QED
  BY <1>1, <1>2, <1>4, <1>5
  DEF IInv, OnQueue, DeferredHasTask, Remembered, OneTask

LEMMA NextKeeps == IInv /\ [Next]_vars => IInv'
<1> SUFFICES ASSUME IInv, [Next]_vars PROVE IInv'
  OBVIOUS
<1>1. CASE UNCHANGED vars \/ Restart
  <2>1. /\ UNCHANGED <<sends, wire, replied, crashes, seen_triggers, free, waiters,
                       tasks, starts>>
        /\ up' \in BOOLEAN
    BY <1>1 DEF vars, Restart, slack, server, IInv, TypeOK
  <2>2. Working' = Working
    BY <2>1 DEF Working
  <2> QED
    BY <2>1, <2>2
    DEF IInv, TypeOK, PermitsConserved, OnQueue, DeferredHasTask, Remembered,
        OneTask, OneStartPerProcess, StartShows
<1>2. ASSUME NEW t \in Trigger,
             SlackPosts(t) \/ PostLost(t) \/ Reject(t) \/ Duplicate(t) PROVE IInv'
  BY <1>2, OnlySlack DEF SlackPosts, PostLost, Reject, Duplicate
<1>3. ASSUME NEW i \in DOMAIN tasks, TaskStep(i) PROVE IInv'
  BY <1>3, AcquireKeeps, QueueKeeps, WorkKeeps, FreeKeeps, HandOverKeeps
  DEF TaskStep, RespondReturns, RespondRaises
<1> QED
  BY <1>1, <1>2, <1>3, HandleKeeps, CrashKeeps DEF Next

-----------------------------------------------------------------------------
\* What the server holds in memory, and what Slack has seen of it, stays
\* together as IInv says.
THEOREM Invariant == Spec => []IInv
BY InitIInv, NextKeeps, PTL DEF Spec

\* The variables of Slack and of the server keep their types: in particular
\* seen_triggers holds ids only, and the semaphore stays within its permits.
THEOREM TypeCorrect == Spec => []TypeOK
<1>1. IInv => TypeOK
  BY DEF IInv
<1> QED
  BY <1>1, Invariant, PTL

\* Every permit is free or held by exactly one running task, however a task
\* ends (`async with app.state.semaphore`), and none is free while one queues.
THEOREM NoPermitLeaks == Spec => []PermitsConserved
<1>1. IInv => PermitsConserved
  BY DEF IInv
<1> QED
  BY <1>1, Invariant, PTL

\* However often Slack resends, a process starts the work of a trigger_id once
\* (seen_triggers, and one task for each new id).
THEOREM OncePerProcess == Spec => []OneStartPerProcess
<1>1. IInv => OneStartPerProcess
  BY DEF IInv
<1> QED
  BY <1>1, Invariant, PTL

\* Of the deferred commands with a response_url, those that a resend would be
\* told "(already processing)" of have a task in this process.
THEOREM DeferredIsProcessed == Spec => []DeferredHasTask
<1>1. IInv => DeferredHasTask
  BY DEF IInv
<1> QED
  BY <1>1, Invariant, PTL
=============================================================================
