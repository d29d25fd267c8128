----------------------------- MODULE SlackServer -----------------------------
(***************************************************************************)
(* The slash-command server (slack/server.py), the dispatch of a command   *)
(* (slack/commands.py) and the deferred work behind it (slack/runner.py):  *)
(* Slack posts a command, and posts it again with the same trigger_id when *)
(* no reply came in time; the handler runs on the event loop, answers fast *)
(* commands inline and starts a task for heavy ones; a task takes a permit  *)
(* of the semaphore or queues for one, works in a thread and posts to the   *)
(* response_url; the process may die with everything it holds in memory.   *)
(*                                                                         *)
(* Slack itself is outside the repository: how often it resends and what a *)
(* response_url does with a post are choices of the environment.  So is    *)
(* asyncio.Semaphore, modelled by what it does: a release hands the permit  *)
(* to the task that has queued longest, if there is one.                   *)
(***************************************************************************)
EXTENDS Integers, Sequences, FiniteSets

CONSTANTS
  Trigger,        \* the commands users type, one trigger_id each
  CommandOf,      \* the command of each
  HasText,        \* those with a text after the command
  HasUrl,         \* those that carry a response_url
  NoId,           \* those that carry no trigger_id
  MaxConcurrent,  \* settings.slack_max_concurrent_runs
  MaxSends,       \* bound: times Slack posts one command
  MaxCrashes      \* bound: times the process dies

Commands == {"help", "status", "recommend", "screen", "briefing", "ask", "other"}

ASSUME ServerAssumption ==
  /\ CommandOf \in [Trigger -> Commands]
  /\ HasText \subseteq Trigger
  /\ HasUrl \subseteq Trigger
  /\ NoId \subseteq Trigger
  /\ MaxConcurrent \in Nat
  /\ MaxSends \in Nat
  /\ MaxCrashes \in Nat

VARIABLES
  sends,          \* times Slack has posted each command
  wire,           \* posts on their way, per command
  replied,        \* commands Slack has seen a reply for in time
  crashes,        \* times the process has died
  up,
  seen_triggers,  \* app.state.seen_triggers
  free,           \* permits of app.state.semaphore that nobody holds
  waiters,        \* tasks queued on the semaphore, the longest first
  tasks,          \* the deferred tasks of this process, in creation order
  starts          \* history: times the work of each command was started

vars == <<sends, wire, replied, crashes, up, seen_triggers, free, waiters,
          tasks, starts>>
slack == <<sends, wire, replied>>
process == <<crashes, up>>
server == <<seen_triggers, free, waiters, tasks>>

Task == [trigger : Trigger,
         state : {"created", "queued", "working", "responding", "over"}]

\* dispatch_command: "inline" when the reply carries the answer, else the
\* kind of the deferred work.
Dispatch(t) ==
  CASE CommandOf[t] \in {"recommend", "screen", "briefing"} -> CommandOf[t]
    [] CommandOf[t] = "ask" /\ t \in HasText -> "advisor"
    [] OTHER -> "inline"

\* max(1, settings.slack_max_concurrent_runs)
Permits == IF MaxConcurrent > 1 THEN MaxConcurrent ELSE 1

\* The tasks inside `async with app.state.semaphore`.
Working == {i \in DOMAIN tasks : tasks[i].state \in {"working", "responding"}}

-----------------------------------------------------------------------------
Init ==
  /\ sends = [t \in Trigger |-> 0]
  /\ wire = [t \in Trigger |-> 0]
  /\ replied = {}
  /\ crashes = 0
  /\ up = TRUE
  /\ seen_triggers = {}
  /\ free = Permits
  /\ waiters = <<>>
  /\ tasks = <<>>
  /\ starts = [t \in Trigger |-> 0]

\* Slack posts a command, the first time or because no reply came in time.
SlackPosts(t) ==
  /\ sends[t] < MaxSends
  /\ t \notin replied
  /\ sends' = [sends EXCEPT ![t] = @ + 1]
  /\ wire' = [wire EXCEPT ![t] = @ + 1]
  /\ UNCHANGED <<replied, process, server, starts>>

\* The connection is refused or breaks.
PostLost(t) ==
  /\ wire[t] > 0
  /\ wire' = [wire EXCEPT ![t] = @ - 1]
  /\ UNCHANGED <<sends, replied, process, server, starts>>

\* The post reaches the handler; its reply may or may not be in time.
Receive(t) ==
  /\ up
  /\ wire[t] > 0
  /\ wire' = [wire EXCEPT ![t] = @ - 1]
  /\ UNCHANGED sends
  /\ replied' \in {replied, replied \cup {t}}

MutantReject(t) ==                      \* mutant: remembered before it is verified
  /\ Receive(t)
  /\ seen_triggers' = seen_triggers \cup ({t} \ NoId)
  /\ UNCHANGED <<process, free, waiters, tasks, starts>>

\* A signature that is wrong, or older than 300 s when the body is in: 401.
Reject(t) ==
  /\ Receive(t)
  /\ UNCHANGED <<process, server, starts>>

\* A trigger_id seen before: "(already processing)".
Duplicate(t) ==
  /\ Receive(t)
  /\ t \notin NoId /\ t \in seen_triggers
  /\ UNCHANGED <<process, server, starts>>

\* From the test of seen_triggers to the return there is no await, so the rest
\* of the handler is one step of the event loop.
MutantHandle(t) ==                      \* mutant: the trigger_id is not remembered
  /\ Receive(t)
  /\ t \in NoId \/ t \notin seen_triggers
  /\ UNCHANGED seen_triggers
  /\ tasks' = IF Dispatch(t) # "inline" /\ t \in HasUrl
              THEN Append(tasks, [trigger |-> t, state |-> "created"])
              ELSE tasks
  /\ UNCHANGED <<process, free, waiters, starts>>

Handle(t) ==
  /\ Receive(t)
  /\ t \in NoId \/ t \notin seen_triggers
  /\ seen_triggers' = seen_triggers \cup ({t} \ NoId)
  /\ tasks' = IF Dispatch(t) # "inline" /\ t \in HasUrl
              THEN Append(tasks, [trigger |-> t, state |-> "created"])
              ELSE tasks
  /\ UNCHANGED <<process, free, waiters, starts>>

Begin(i) == starts' = [starts EXCEPT ![tasks[i].trigger] = @ + 1]

MutantAcquire(i) ==                     \* mutant: no semaphore
  /\ tasks[i].state = "created"
  /\ tasks' = [tasks EXCEPT ![i].state = "working"]
  /\ Begin(i)
  /\ UNCHANGED <<slack, process, seen_triggers, free, waiters>>

\* A new task reaches the semaphore and takes a permit: one is free and
\* nobody is queued for it.
Acquire(i) ==
  /\ tasks[i].state = "created"
  /\ free > 0 /\ waiters = <<>>
  /\ free' = free - 1
  /\ tasks' = [tasks EXCEPT ![i].state = "working"]
  /\ Begin(i)
  /\ UNCHANGED <<slack, process, seen_triggers, waiters>>

\* Or it queues.
Queue(i) ==
  /\ tasks[i].state = "created"
  /\ free = 0 \/ waiters # <<>>
  /\ waiters' = Append(waiters, i)
  /\ tasks' = [tasks EXCEPT ![i].state = "queued"]
  /\ UNCHANGED <<slack, process, seen_triggers, free, starts>>

\* execute_kind returns blocks, or raises and its exception becomes blocks.
Work(i) ==
  /\ tasks[i].state = "working"
  /\ tasks' = [tasks EXCEPT ![i].state = "responding"]
  /\ UNCHANGED <<slack, process, seen_triggers, free, waiters, starts>>

\* asyncio.Semaphore.release: nobody is queued, or the first in the queue is
\* woken and has the permit.
FreePermit(i) ==
  /\ waiters = <<>>
  /\ free' = free + 1
  /\ tasks' = [tasks EXCEPT ![i].state = "over"]
  /\ UNCHANGED <<waiters, starts>>

HandOver(i) ==
  /\ waiters # <<>>
  /\ tasks' = [tasks EXCEPT ![i].state = "over", ![Head(waiters)].state = "working"]
  /\ Begin(Head(waiters))
  /\ waiters' = Tail(waiters)
  /\ UNCHANGED free

Ended(i) ==
  /\ tasks[i].state = "responding"
  /\ UNCHANGED <<slack, process, seen_triggers>>

MutantRespondReturns(i) ==              \* mutant: the permit is released twice
  /\ Ended(i)
  /\ \/ HandOver(i)
     \/ /\ waiters = <<>>
        /\ free' = free + 2
        /\ tasks' = [tasks EXCEPT ![i].state = "over"]
        /\ UNCHANGED <<waiters, starts>>

\* The post to response_url is accepted, or its httpx error is logged: the
\* task ends and the semaphore is released.
RespondReturns(i) ==
  /\ Ended(i)
  /\ FreePermit(i) \/ HandOver(i)

MutantRespondRaises(i) ==               \* mutant: release only after a clean return
  /\ Ended(i)
  /\ tasks' = [tasks EXCEPT ![i].state = "over"]
  /\ UNCHANGED <<free, waiters, starts>>

\* Any other exception ends the task through `async with`.
RespondRaises(i) ==
  /\ Ended(i)
  /\ FreePermit(i) \/ HandOver(i)

Crash ==
  /\ up
  /\ crashes < MaxCrashes
  /\ crashes' = crashes + 1
  /\ up' = FALSE
  /\ seen_triggers' = {}
  /\ free' = Permits
  /\ waiters' = <<>>
  /\ tasks' = <<>>
  /\ UNCHANGED <<slack, starts>>

Restart ==
  /\ ~up
  /\ up' = TRUE
  /\ UNCHANGED <<slack, crashes, server, starts>>

TaskStep(i) ==
  \/ Acquire(i)
  \/ Queue(i)
  \/ Work(i)
  \/ RespondReturns(i)
  \/ RespondRaises(i)

Next ==
  \/ \E t \in Trigger :
       \/ SlackPosts(t)
       \/ PostLost(t)
       \/ Reject(t)
       \/ Duplicate(t)
       \/ Handle(t)
  \/ \E i \in DOMAIN tasks : TaskStep(i)
  \/ Crash
  \/ Restart

Spec == Init /\ [][Next]_vars

\* The tasks one process can have: one for each trigger_id, and one for each
\* post without one.
MaxTasks == Cardinality(Trigger \ NoId) + MaxSends * Cardinality(NoId)

\* The event loop runs a task that is ready and the thread of a task gets on:
\* its HTTP calls are given timeouts.  A screening of Korean symbols may also
\* sit in pykrx, which is given none (fundamentals/pykrx_provider.py): that it
\* returns is assumed.  systemd starts the process again.
Fairness ==
  /\ \A i \in 1..MaxTasks : WF_vars(i \in DOMAIN tasks /\ TaskStep(i))
  /\ WF_vars(Restart)

FairSpec == Spec /\ Fairness

-----------------------------------------------------------------------------
(* Properties.                                                             *)

\* Type invariant of the environment's and the server's state.
TypeOK ==
  /\ sends \in [Trigger -> 0..MaxSends]
  /\ wire \in [Trigger -> 0..MaxSends]
  /\ replied \subseteq Trigger
  /\ crashes \in 0..MaxCrashes
  /\ up \in BOOLEAN
  /\ seen_triggers \subseteq Trigger \ NoId
  /\ free \in 0..Permits
  /\ waiters \in Seq(DOMAIN tasks)
  /\ tasks \in Seq(Task)
  /\ starts \in [Trigger -> Nat]

\* A permit is either free or held by a task inside `async with
\* app.state.semaphore`, through every way a task can end: the heavy runs never
\* exceed the configured number and no permit is ever leaked.  And no permit
\* lies idle while a task is queued for one.
PermitsConserved ==
  /\ free + Cardinality(Working) = Permits
  /\ waiters # <<>> => free = 0

\* The work of a command with a trigger_id is started at most once by each
\* process: a second start needs a restart, which empties seen_triggers.
OneStartPerProcess ==
  \A t \in Trigger \ NoId : starts[t] <= crashes + 1

\* A deferred command with a response_url gets "(already processing)" only
\* while this very process has a task for it, new, queued, at work or over: the
\* answer will come, or has.  Nothing is said here of the commands answered
\* inline and of those without response_url: they never have a task, but their
\* resend gets the same reply (Duplicate), which is then false.
DeferredHasTask ==
  \A t \in seen_triggers :
    Dispatch(t) # "inline" /\ t \in HasUrl
      => \E i \in DOMAIN tasks : tasks[i].trigger = t

\* A command that was accepted is carried to its end, or the process dies:
\* no number of later commands keeps it waiting (runner.py: failures are
\* reported, the semaphore is always released).
AcceptedIsFinished ==
  \A i \in 1..MaxTasks :
    (i \in DOMAIN tasks) ~> (i \notin DOMAIN tasks \/ tasks[i].state = "over")
=============================================================================
