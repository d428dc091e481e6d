--------------------------- MODULE SubagentManager ---------------------------
(***************************************************************************)
(* The subagents of one HuiCode process (huicode/subagents/manager.py) and *)
(* the worker pool that runs them (workers.py), as the main agent's thread *)
(* (agent.py, subagents/tool.py), the worker threads and the asynchronous  *)
(* hooks use them.  Every section under the manager's lock is one step;    *)
(* what a thread has read before it stays true only if nobody else steps   *)
(* in between.                                                             *)
(***************************************************************************)
EXTENDS Naturals, Sequences, FiniteSets

CONSTANTS
  Task,        \* tasks, each submitted at most once
  HookTask,    \* the tasks that asynchronous hooks submit
  MaxWorkers,  \* max_background_tasks
  NoParent,    \* "no snapshot of the main agent"
  MaxClears    \* bound: uses of /clear

ASSUME HookTaskAssumption == HookTask \subseteq Task
ASSUME BoundsAssumption == MaxWorkers \in Nat \ {0} /\ MaxClears \in Nat
ASSUME NoParentAssumption == NoParent \notin Nat

VARIABLES
  known,       \* the tasks in _tasks
  status,      \* their status ("none" before they are submitted)
  background,  \* their background flag
  cancelled,   \* their cancel_event
  done,        \* their done_event
  queue,       \* the pool's queue
  running,     \* the tasks a worker is executing
  pending,     \* _pending_results, by task
  leased,      \* _leased_task_ids
  notes,       \* the notifications nobody has shown yet
  parent,      \* _parent: the conversation it is a snapshot of
  closed,      \* _closed
  main,        \* the main thread: where it is, and with what
  hook,        \* per hook task: the snapshot the hook's thread has read
  told,        \* history: what the Agent tool answered about a task
  injected,    \* history: how often its result was in a request answered
  shown,       \* history: the tasks whose notification was shown
  conversation \* history: how often /clear was used

table == <<known, status, background, cancelled, done>>
history == <<told, injected, shown, conversation>>
vars == <<table, queue, running, pending, leased, notes, parent, closed, main,
          hook, history>>

Unfinished == {"queued", "running_foreground", "running_background"}
Final == {"completed", "failed", "cancelled"}
Parent == 0..MaxClears \cup {NoParent}
MainAt == {"idle", "wait", "switch", "request", "clear_notes",
           "close_wait", "close_end", "shutdown", "over", "killed"}

TypeOK ==
  /\ known \subseteq Task /\ running \subseteq Task
  /\ status \in [Task -> {"none"} \cup Unfinished \cup Final]
  /\ background \in [Task -> BOOLEAN] /\ cancelled \in [Task -> BOOLEAN]
  /\ done \in [Task -> BOOLEAN]
  /\ queue \in Seq(Task)
  /\ pending \subseteq Task /\ leased \subseteq Task /\ notes \subseteq Task
  /\ parent \in Parent /\ closed \in BOOLEAN
  /\ main \in [at : MainAt, tasks : SUBSET Task]
  /\ hook \in [HookTask -> Parent]
  /\ told \in [Task -> {"nothing", "id", "result", "interrupted"}]
  /\ injected \in [Task -> Nat] /\ shown \subseteq Task
  /\ conversation \in 0..MaxClears

-----------------------------------------------------------------------------
Init ==
  /\ known = {} /\ running = {} /\ pending = {} /\ leased = {} /\ notes = {}
  /\ status = [t \in Task |-> "none"]
  /\ background = [t \in Task |-> FALSE]
  /\ cancelled = [t \in Task |-> FALSE]
  /\ done = [t \in Task |-> FALSE]
  /\ queue = <<>>
  /\ parent = NoParent /\ closed = FALSE
  /\ main = [at |-> "idle", tasks |-> {}]
  /\ hook = [t \in HookTask |-> NoParent]
  /\ told = [t \in Task |-> "nothing"]
  /\ injected = [t \in Task |-> 0]
  /\ shown = {} /\ conversation = 0

MainGoes(at, tasks) == main' = [at |-> at, tasks |-> tasks]

\* submit(): the task is entered and queued.
Submit(t, inBackground) ==
  /\ ~ closed /\ status[t] = "none"
  /\ known' = known \cup {t}
  /\ status' = [status EXCEPT ![t] = "queued"]
  /\ background' = [background EXCEPT ![t] = inBackground]
  /\ queue' = Append(queue, t)
  /\ UNCHANGED <<cancelled, done>>

-----------------------------------------------------------------------------
(* The main thread: the Agent tool *)

CallAgentInBackground(t) ==
  /\ main.at = "idle" /\ t \notin HookTask /\ parent # NoParent
  /\ Submit(t, TRUE)
  /\ told' = [told EXCEPT ![t] = "id"]
  /\ UNCHANGED <<running, pending, leased, notes, parent, closed, main, hook,
                 injected, shown, conversation>>

CallAgent(t) ==
  /\ main.at = "idle" /\ t \notin HookTask /\ parent # NoParent
  /\ Submit(t, FALSE)
  /\ MainGoes("wait", {t})
  /\ UNCHANGED <<running, pending, leased, notes, parent, closed, hook, history>>

\* wait_foreground: the task is done before the time is up, ...
WaitCompleted(t) ==
  /\ main = [at |-> "wait", tasks |-> {t}] /\ done[t]
  /\ told' = [told EXCEPT ![t] = "result"]
  /\ MainGoes("idle", {})
  /\ UNCHANGED <<table, queue, running, pending, leased, notes, parent, closed,
                 hook, injected, shown, conversation>>

\* ... or not, or Ctrl+B is pressed: move_to_background comes next.
WaitOver(t) ==
  /\ main = [at |-> "wait", tasks |-> {t}] /\ ~ done[t]
  /\ MainGoes("switch", {t})
  /\ UNCHANGED <<table, queue, running, pending, leased, notes, parent, closed,
                 hook, history>>

MoveToBackground(t) ==
  /\ main = [at |-> "switch", tasks |-> {t}]
  /\ background' = [background EXCEPT
       ![t] = @ \/ status[t] \in {"queued", "running_foreground"}]
  /\ status' = [status EXCEPT
       ![t] = IF @ = "running_foreground" THEN "running_background" ELSE @]
  /\ told' = [told EXCEPT ![t] = "id"]
  /\ MainGoes("idle", {})
  /\ UNCHANGED <<known, cancelled, done, queue, running, pending, leased, notes,
                 parent, closed, hook, injected, shown, conversation>>

\* Ctrl+C during the wait: cancel(), and the interrupt goes up and ends the
\* process without close().  Its threads are daemons: they go on until the
\* interpreter is gone, which may be at any of their steps.
Interrupt(t) ==
  /\ main = [at |-> "wait", tasks |-> {t}]
  /\ cancelled' = [cancelled EXCEPT ![t] = @ \/ status[t] \in Unfinished]
  /\ status' = [status EXCEPT ![t] = IF @ \in Unfinished THEN "cancelled" ELSE @]
  /\ told' = [told EXCEPT ![t] = "interrupted"]
  /\ MainGoes("killed", {})
  /\ UNCHANGED <<known, background, done, queue, running, pending, leased, notes,
                 parent, closed, hook, injected, shown, conversation>>

-----------------------------------------------------------------------------
(* The main thread: requests to the model *)

\* acquire_result_lease, the prompt with the results, capture_parent.
Request ==
  /\ main.at = "idle"
  /\ MainGoes("request", pending \ leased)
  /\ leased' = leased \cup pending
  /\ parent' = conversation
  /\ UNCHANGED <<table, queue, running, pending, notes, closed, hook, history>>

\* Mutant: the acknowledgement empties the queue.
RespondTakesAll ==
  /\ main.at = "request"
  /\ leased' = {} /\ pending' = {}
  /\ injected' = [t \in Task |-> IF t \in main.tasks THEN injected[t] + 1
                                                     ELSE injected[t]]
  /\ MainGoes("idle", {})
  /\ UNCHANGED <<table, queue, running, notes, parent, closed, hook, told, shown,
                 conversation>>

\* The response is complete: ack_result_lease.
Respond ==
  /\ main.at = "request"
  /\ leased' = leased \ main.tasks
  /\ pending' = pending \ main.tasks
  /\ injected' = [t \in Task |-> IF t \in main.tasks THEN injected[t] + 1
                                                     ELSE injected[t]]
  /\ MainGoes("idle", {})
  /\ UNCHANGED <<table, queue, running, notes, parent, closed, hook, told, shown,
                 conversation>>

\* Mutant: one of the error paths does not give the lease back.
FailKeepsLease ==
  /\ main.at = "request"
  /\ MainGoes("idle", {})
  /\ UNCHANGED <<table, queue, running, pending, leased, notes, parent, closed,
                 hook, history>>

\* An error or Ctrl+C: release_result_lease.
Fail ==
  /\ main.at = "request"
  /\ leased' = leased \ main.tasks
  /\ MainGoes("idle", {})
  /\ UNCHANGED <<table, queue, running, pending, notes, parent, closed, hook,
                 history>>

-----------------------------------------------------------------------------
(* The main thread: /clear and the end of the program *)

Stopped == {t \in known : status[t] \in Unfinished}

\* clear(): the tables at once, the notifications after the lock is free.
Clear ==
  /\ main.at = "idle" /\ conversation < MaxClears
  /\ cancelled' = [t \in Task |-> cancelled[t] \/ t \in Stopped]
  /\ status' = [t \in Task |-> IF t \in Stopped THEN "cancelled" ELSE status[t]]
  /\ done' = [t \in Task |-> done[t] \/ t \in Stopped]
  /\ known' = {} /\ pending' = {} /\ leased' = {}
  /\ parent' = NoParent
  /\ conversation' = conversation + 1
  /\ MainGoes("clear_notes", {})
  /\ UNCHANGED <<background, queue, running, notes, closed, hook, told, injected,
                 shown>>

ClearNotes ==
  /\ main.at = "clear_notes"
  /\ notes' = {}
  /\ MainGoes("idle", {})
  /\ UNCHANGED <<table, queue, running, pending, leased, parent, closed, hook,
                 history>>

\* close(): no new tasks, and every unfinished one is asked to stop.
Close ==
  /\ main.at = "idle"
  /\ closed' = TRUE
  /\ cancelled' = [t \in Task |-> cancelled[t] \/ t \in Stopped]
  /\ MainGoes("close_wait", {})
  /\ UNCHANGED <<known, status, background, done, queue, running, pending, leased,
                 notes, parent, hook, history>>

\* The tasks are done, or the time is up.
CloseWait ==
  /\ main.at = "close_wait"
  /\ MainGoes("close_end", {})
  /\ UNCHANGED <<table, queue, running, pending, leased, notes, parent, closed,
                 hook, history>>

\* Mutant: only the tasks a worker is executing are given up.
CloseEndRunning ==
  /\ main.at = "close_end"
  /\ status' = [t \in Task |-> IF t \in Stopped \cap running THEN "cancelled"
                                                             ELSE status[t]]
  /\ done' = [t \in Task |-> done[t] \/ t \in Stopped]
  /\ MainGoes("shutdown", {})
  /\ UNCHANGED <<known, background, cancelled, queue, running, pending, leased,
                 notes, parent, closed, hook, history>>

\* Whatever still runs is given up.
CloseEnd ==
  /\ main.at = "close_end"
  /\ status' = [t \in Task |-> IF t \in Stopped THEN "cancelled" ELSE status[t]]
  /\ done' = [t \in Task |-> done[t] \/ t \in Stopped]
  /\ MainGoes("shutdown", {})
  /\ UNCHANGED <<known, background, cancelled, queue, running, pending, leased,
                 notes, parent, closed, hook, history>>

Shutdown ==
  /\ main.at = "shutdown"
  /\ queue' = <<>>
  /\ MainGoes("over", {})
  /\ UNCHANGED <<table, running, pending, leased, notes, parent, closed, hook,
                 history>>

-----------------------------------------------------------------------------
(* The worker threads: _run_task *)

\* Mutant: a cancelled task is not taken out of the queue.
StartSkipsCancelled(t) ==
  /\ queue # <<>> /\ t = Head(queue) /\ Cardinality(running) < MaxWorkers
  /\ ~ cancelled[t]
  /\ queue' = Tail(queue)
  /\ running' = running \cup {t}
  /\ status' = [status EXCEPT ![t] = IF background[t] THEN "running_background"
                                                      ELSE "running_foreground"]
  /\ UNCHANGED <<known, background, cancelled, done, pending, leased, notes, parent,
                 closed, main, hook, history>>

\* A free worker takes the oldest task; a cancelled one is not run.
Start(t) ==
  /\ queue # <<>> /\ t = Head(queue) /\ Cardinality(running) < MaxWorkers
  /\ queue' = Tail(queue)
  /\ \/ /\ cancelled[t]
        /\ status' = [status EXCEPT ![t] = "cancelled"]
        /\ done' = [done EXCEPT ![t] = TRUE]
        /\ UNCHANGED running
     \/ /\ ~ cancelled[t]
        /\ status' = [status EXCEPT ![t] = IF background[t] THEN "running_background"
                                                            ELSE "running_foreground"]
        /\ running' = running \cup {t}
        /\ UNCHANGED done
  /\ UNCHANGED <<known, background, cancelled, pending, leased, notes, parent,
                 closed, main, hook, history>>

\* Mutant: the cancellation is not looked at.
FinishAnyway(t, result) ==
  /\ t \in running
  /\ running' = running \ {t}
  /\ done' = [done EXCEPT ![t] = TRUE]
  /\ IF t \in known
     THEN /\ status' = [status EXCEPT ![t] = result]
          /\ pending' = IF background[t] THEN pending \cup {t} ELSE pending
          /\ notes' = IF background[t] THEN notes \cup {t} ELSE notes
     ELSE UNCHANGED <<status, pending, notes>>
  /\ UNCHANGED <<known, background, cancelled, queue, leased, parent, closed, main,
                 hook, history>>

\* Mutant: foreground results are queued too.
FinishQueuesAll(t, result) ==
  /\ t \in running
  /\ running' = running \ {t}
  /\ done' = [done EXCEPT ![t] = TRUE]
  /\ IF t \in known
     THEN /\ status' = [status EXCEPT ![t] = IF cancelled[t] THEN "cancelled" ELSE result]
          /\ pending' = pending \cup {t}
          /\ notes' = IF background[t] THEN notes \cup {t} ELSE notes
     ELSE UNCHANGED <<status, pending, notes>>
  /\ UNCHANGED <<known, background, cancelled, queue, leased, parent, closed, main,
                 hook, history>>

\* Mutant: only tasks that ended by themselves are announced.
FinishQuietly(t, result) ==
  /\ t \in running
  /\ running' = running \ {t}
  /\ done' = [done EXCEPT ![t] = TRUE]
  /\ IF t \in known
     THEN /\ status' = [status EXCEPT ![t] = IF cancelled[t] THEN "cancelled" ELSE result]
          /\ pending' = IF background[t] THEN pending \cup {t} ELSE pending
          /\ notes' = IF background[t] /\ ~ cancelled[t] THEN notes \cup {t} ELSE notes
     ELSE UNCHANGED <<status, pending, notes>>
  /\ UNCHANGED <<known, background, cancelled, queue, leased, parent, closed, main,
                 hook, history>>

\* The runner returned a result: a task that is not in the table any more is
\* forgotten; a background task's result is queued and announced.
Finish(t, result) ==
  /\ t \in running
  /\ result = "cancelled" => cancelled[t]
  /\ running' = running \ {t}
  /\ done' = [done EXCEPT ![t] = TRUE]
  /\ IF t \in known
     THEN /\ status' = [status EXCEPT ![t] = IF cancelled[t] THEN "cancelled" ELSE result]
          /\ pending' = IF background[t] THEN pending \cup {t} ELSE pending
          /\ notes' = IF background[t] THEN notes \cup {t} ELSE notes
     ELSE UNCHANGED <<status, pending, notes>>
  /\ UNCHANGED <<known, background, cancelled, queue, leased, parent, closed, main,
                 hook, history>>

-----------------------------------------------------------------------------
(* The other threads *)

\* The notification pump: drain_notifications.
Show ==
  /\ notes # {}
  /\ shown' = shown \cup notes
  /\ notes' = {}
  /\ UNCHANGED <<table, queue, running, pending, leased, parent, closed, main, hook,
                 told, injected, conversation>>

\* submit_defined_background: read the snapshot, then submit.
HookReads(t) ==
  /\ hook[t] = NoParent /\ status[t] = "none" /\ parent # NoParent
  /\ hook' = [hook EXCEPT ![t] = parent]
  /\ UNCHANGED <<table, queue, running, pending, leased, notes, parent, closed, main,
                 history>>

HookSubmits(t) ==
  /\ hook[t] # NoParent
  /\ Submit(t, TRUE)
  /\ UNCHANGED <<running, pending, leased, notes, parent, closed, main, hook, history>>

Waiting == \E t \in Task : WaitCompleted(t) \/ WaitOver(t) \/ MoveToBackground(t)

Main ==
  \/ Waiting \/ Request \/ Respond \/ Fail
  \/ Clear \/ ClearNotes \/ Close \/ CloseWait \/ CloseEnd \/ Shutdown
  \/ \E t \in Task : CallAgentInBackground(t) \/ CallAgent(t) \/ Interrupt(t)

Worker == \E t \in Task : Start(t) \/ \E r \in Final : Finish(t, r)

Next == Main \/ Worker \/ Show \/ \E t \in HookTask : HookReads(t) \/ HookSubmits(t)

\* Workers are scheduled and a runner ends (its iterations and its tools are
\* bounded); a wait ends after foreground_timeout_seconds.
Fairness ==
  /\ WF_vars(Waiting)
  /\ \A t \in Task : WF_vars(Start(t)) /\ WF_vars(\E r \in Final : Finish(t, r))

Spec == Init /\ [][Next]_vars /\ Fairness

-----------------------------------------------------------------------------
(* Properties *)

\* The result of a task that ran in the background stays queued until a
\* response acknowledged it: failed requests, waits that end while the task
\* finishes and other tasks' results take nothing away.
KeptUntilInjected ==
  ~ closed => \A t \in known :
    background[t] /\ done[t] => t \in pending \/ injected[t] > 0

\* A lease is held only while a request is under way, and covers results that
\* are still queued: an error on the way never locks a result away.
LeaseOnlyInRequest ==
  /\ leased \subseteq pending
  /\ leased # {} => main.at = "request" /\ leased = main.tasks

\* The main agent gets each result once, and nothing of cleared tasks.
Delivery == INSTANCE ResultDelivery WITH
  ready <- pending,
  copies <- [t \in Task |-> injected[t] + IF told[t] = "result" THEN 1 ELSE 0],
  gone <- {t \in Task : status[t] # "none"} \ known
DeliversOnce == Delivery!Spec

\* A task that has ended keeps its status, whoever comes late: a runner that
\* ignored the cancellation, /clear, close().
FinalIsFinal ==
  [][\A t \in Task : status[t] \in Final => status'[t] = status[t]]_vars

\* When close() returns no task of the table is left without a final status.
ClosedIsFinal ==
  main.at \in {"shutdown", "over"} => \A t \in known : status[t] \in Final

\* Every task that was queued ends, with fewer workers than tasks, with
\* cancellations, and with /clear in between, while the process goes on.
EveryTaskEnds ==
  \A t \in Task : status[t] = "queued" ~> done[t] \/ closed \/ main.at = "killed"

\* Every queued result was announced, /clear, which empties the announcements
\* in a second step, included; except those of OnlyThisConversation's hooks.
Announced ==
  \A t \in pending : (t \in HookTask => hook[t] = conversation) => t \in notes \cup shown

\* specs/014-subagent-system/spec.md:193 (a background result goes into the main
\* agent's queue): refuted, a task that finishes between the end of the wait
\* and move_to_background is reported as moved, and its result is nowhere.
MovedIsKept ==
  ~ closed => \A t \in known :
    told[t] = "id" /\ done[t] => t \in pending \/ injected[t] > 0

\* specs/014-subagent-system/spec.md:200 (/clear keeps old tasks out of the new
\* context): refuted, a hook that read the snapshot before /clear submits its
\* task after it.
OnlyThisConversation ==
  \A t \in HookTask \cap known : hook[t] = conversation
=============================================================================
