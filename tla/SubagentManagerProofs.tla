------------------------ MODULE SubagentManagerProofs ------------------------
(***************************************************************************)
(* The safety properties of SubagentManager, and that it keeps the promise *)
(* of ResultDelivery, for any number of tasks, hooks, workers and /clears; *)
(* and what the agents started by others may do, in any registry.          *)
(***************************************************************************)
EXTENDS SubagentManager, TLAPS

USE HookTaskAssumption, BoundsAssumption, NoParentAssumption

Queued(t) == \E i \in 1..Len(queue) : queue[i] = t
AtWork(t) == t \in running \/ Queued(t)
Closing == {"close_wait", "close_end", "shutdown", "over"}

\* A task is in the queue once, and a worker's task is not in it.
QueueInv ==
  /\ \A i, j \in 1..Len(queue) : queue[i] = queue[j] => i = j
  /\ \A t \in running : ~ Queued(t)

\* Nothing happened yet to a task that was not submitted.
NewInv ==
  \A t \in Task : status[t] = "none" =>
    /\ t \notin known \cup pending /\ ~ AtWork(t)
    /\ ~ done[t] /\ ~ cancelled[t] /\ told[t] = "nothing" /\ injected[t] = 0

\* What status, flags and results say about each other.  A task that a worker
\* still has, or will get, can only have been ended by a cancellation.
TaskInv(t) ==
  /\ AtWork(t) /\ status[t] \in Final => status[t] = "cancelled" /\ cancelled[t]
  /\ t \in pending => t \in known /\ background[t]
  /\ t \in known => /\ done[t] => status[t] \in Final
                    /\ ~ closed /\ cancelled[t] => ~ background[t]
                    /\ closed /\ status[t] \in Unfinished => cancelled[t]
  /\ t \in known /\ AtWork(t) => /\ t \notin pending
                                 /\ injected[t] = 0 /\ told[t] # "result"
                                 /\ done[t] => main.at \in {"shutdown", "over"}

TableInv == \A t \in Task : TaskInv(t)

\* Where the main thread is, and what it can rely on there.
MainInv ==
  /\ closed <=> main.at \in Closing
  /\ main.at \in {"wait", "switch"} =>
       \E t \in known : /\ main.tasks = {t}
                        /\ ~ background[t] /\ ~ cancelled[t]
                        /\ told[t] = "nothing" /\ injected[t] = 0

LeaseInv ==
  /\ leased \subseteq pending
  /\ IF main.at = "request" THEN leased = main.tasks ELSE leased = {}

\* Snapshots are of this or an earlier conversation; while /clear is half
\* done, the table holds only hooks' tasks of an earlier one.
HookInv ==
  /\ parent \in {conversation, NoParent}
  /\ \A t \in HookTask : hook[t] \in 0..conversation \cup {NoParent}
  /\ main.at = "clear_notes" =>
       /\ parent = NoParent /\ known \subseteq HookTask
       /\ \A t \in HookTask : hook[t] # conversation

IInv ==
  /\ TypeOK /\ QueueInv /\ NewInv /\ TableInv /\ MainInv /\ LeaseInv /\ HookInv
  /\ KeptUntilInjected /\ ClosedIsFinal /\ Announced

-----------------------------------------------------------------------------
(* The invariant is inductive: one lemma for each action, one step for     *)
(* each part of the invariant the action could disturb.                    *)

\* What is known of the task the main thread waits for.
LEMMA Foreground ==
  ASSUME IInv, NEW t \in Task, main.at \in {"wait", "switch"}, main.tasks = {t}
  PROVE  /\ t \in known /\ t \notin pending /\ ~ closed
         /\ ~ background[t] /\ ~ cancelled[t]
         /\ told[t] = "nothing" /\ injected[t] = 0 /\ status[t] # "none"
BY DEF IInv, MainInv, NewInv, TableInv, TaskInv, Closing

\* What move_to_background changes: the flag and the status of one task.
LEMMA MoveEffect ==
  ASSUME IInv, NEW t \in Task, MoveToBackground(t)
  PROVE  /\ main.at = "switch" /\ main.tasks = {t} /\ main'.at = "idle"
         /\ UNCHANGED <<known, cancelled, done, running, pending, closed, injected>>
         /\ \A u \in Task : Queued(u)' = Queued(u)
         /\ \A u \in Task \ {t} : /\ background'[u] = background[u]
                                  /\ status'[u] = status[u] /\ told'[u] = told[u]
         /\ background'[t] => background[t] \/ status[t] \notin Final
         /\ status'[t] # status[t] => status[t] \in Unfinished /\ status'[t] \in Unfinished
         /\ told'[t] = "id"
BY DEF MoveToBackground, IInv, TypeOK, MainGoes, Queued, Final, Unfinished

\* What cancel() changes: the flag and the status of one task.
LEMMA InterruptEffect ==
  ASSUME IInv, NEW t \in Task, Interrupt(t)
  PROVE  /\ main.at = "wait" /\ main.tasks = {t} /\ main'.at = "killed"
         /\ UNCHANGED <<known, background, done, running, pending, closed, injected>>
         /\ \A u \in Task : Queued(u)' = Queued(u)
         /\ \A u \in Task \ {t} : /\ cancelled'[u] = cancelled[u]
                                  /\ status'[u] = status[u] /\ told'[u] = told[u]
         /\ IF status[t] \in Unfinished THEN status'[t] = "cancelled" /\ cancelled'[t]
                                       ELSE status'[t] = status[t]
         /\ told'[t] = "interrupted"
BY DEF Interrupt, IInv, TypeOK, MainGoes, Queued, Unfinished

\* A new background task: nothing happened to it before.
LEMMA CallAgentInBackgroundStep ==
  ASSUME IInv, NEW t \in Task, CallAgentInBackground(t)
  PROVE  IInv'
<1>1. TypeOK'
  BY DEF CallAgentInBackground, Submit, IInv, TypeOK, Unfinished
<1>2. QueueInv'
  BY DEF CallAgentInBackground, Submit, IInv, TypeOK, QueueInv, Queued, NewInv,
         AtWork
<1>3. NewInv'
  BY DEF CallAgentInBackground, Submit, IInv, TypeOK, NewInv, AtWork, Queued
<1>4. TableInv'
  BY DEF CallAgentInBackground, Submit, IInv, TypeOK, TableInv, TaskInv, AtWork, Queued,
         Final, Unfinished, NewInv, MainInv, Closing
<1>5. MainInv'
  BY DEF CallAgentInBackground, Submit, IInv, TypeOK, MainInv, Closing, NewInv
<1>6. HookInv'
  BY DEF CallAgentInBackground, Submit, IInv, TypeOK, HookInv
<1>7. KeptUntilInjected'
  BY DEF CallAgentInBackground, Submit, IInv, TypeOK, KeptUntilInjected, NewInv
<1>8. ClosedIsFinal'
  BY DEF CallAgentInBackground, Submit, IInv, TypeOK, ClosedIsFinal, Final,
         MainInv, Closing
<1>9. LeaseInv' /\ Announced'
  BY DEF CallAgentInBackground, Submit, IInv, LeaseInv, Announced
<1> QED BY <1>1, <1>2, <1>3, <1>4, <1>5, <1>6, <1>7, <1>8, <1>9 DEF IInv

\* A new foreground task becomes the one the main thread waits for.
LEMMA CallAgentStep ==
  ASSUME IInv, NEW t \in Task, CallAgent(t)
  PROVE  IInv'
<1>1. TypeOK'
  BY DEF CallAgent, history, Submit, MainGoes, IInv, TypeOK, Unfinished, MainAt
<1>2. QueueInv'
  BY DEF CallAgent, history, Submit, MainGoes, IInv, TypeOK, QueueInv, Queued,
         NewInv, AtWork
<1>3. NewInv'
  BY DEF CallAgent, history, Submit, MainGoes, IInv, TypeOK, NewInv, AtWork,
         Queued
<1>4. TableInv'
  BY DEF CallAgent, history, Submit, MainGoes, IInv, TypeOK, TableInv, TaskInv, AtWork,
         Queued, Final, Unfinished, NewInv, MainInv, Closing
<1>5. MainInv'
  BY DEF CallAgent, history, Submit, MainGoes, IInv, TypeOK, MainInv, Closing,
         NewInv
<1>6. LeaseInv'
  BY DEF CallAgent, history, Submit, MainGoes, IInv, TypeOK, LeaseInv
<1>7. HookInv'
  BY DEF CallAgent, history, Submit, MainGoes, IInv, TypeOK, HookInv
<1>8. KeptUntilInjected'
  BY DEF CallAgent, history, Submit, MainGoes, IInv, TypeOK, KeptUntilInjected,
         NewInv
<1>9. ClosedIsFinal'
  BY DEF CallAgent, history, Submit, MainGoes, IInv, TypeOK, ClosedIsFinal,
         Final
<1>10. Announced'
  BY DEF CallAgent, history, Submit, MainGoes, IInv, Announced
<1> QED BY <1>1, <1>2, <1>3, <1>4, <1>5, <1>6, <1>7, <1>8, <1>9, <1>10 DEF IInv

\* The result is handed over; a foreground task's is not queued as well.
LEMMA WaitCompletedStep ==
  ASSUME IInv, NEW t \in Task, WaitCompleted(t)
  PROVE  IInv'
<1>1. TypeOK'
  BY DEF WaitCompleted, table, MainGoes, IInv, TypeOK, MainAt
<1>2. NewInv'
  BY DEF WaitCompleted, table, MainGoes, IInv, TypeOK, NewInv, AtWork, Queued,
         MainInv
<1>3. TableInv'
  BY DEF WaitCompleted, table, MainGoes, IInv, TypeOK, TableInv, TaskInv, AtWork, Queued,
         Final, Unfinished
<1>4. MainInv'
  BY DEF WaitCompleted, table, MainGoes, IInv, TypeOK, MainInv, Closing
<1>5. LeaseInv'
  BY DEF WaitCompleted, table, MainGoes, IInv, TypeOK, LeaseInv
<1>6. HookInv'
  BY DEF WaitCompleted, table, MainGoes, IInv, TypeOK, HookInv
<1>7. ClosedIsFinal'
  BY DEF WaitCompleted, table, MainGoes, IInv, TypeOK, ClosedIsFinal, Final
<1>8. QueueInv' /\ KeptUntilInjected' /\ Announced'
  BY DEF WaitCompleted, table, MainGoes, IInv, QueueInv, KeptUntilInjected,
         Announced, Queued
<1> QED BY <1>1, <1>2, <1>3, <1>4, <1>5, <1>6, <1>7, <1>8 DEF IInv

\* Between the wait and the move nothing is decided yet.
LEMMA WaitOverStep ==
  ASSUME IInv, NEW t \in Task, WaitOver(t)
  PROVE  IInv'
<1>1. TypeOK'
  BY DEF WaitOver, table, history, MainGoes, IInv, TypeOK, MainAt
<1>2. TableInv'
  BY DEF WaitOver, table, history, MainGoes, IInv, TypeOK, TableInv, TaskInv, AtWork,
         Queued, Final, Unfinished
<1>3. MainInv'
  BY DEF WaitOver, table, history, MainGoes, IInv, TypeOK, MainInv, Closing
<1>4. LeaseInv'
  BY DEF WaitOver, table, history, MainGoes, IInv, TypeOK, LeaseInv
<1>5. HookInv'
  BY DEF WaitOver, table, history, MainGoes, IInv, TypeOK, HookInv
<1>6. ClosedIsFinal'
  BY DEF WaitOver, table, history, MainGoes, IInv, TypeOK, ClosedIsFinal, Final
<1>7. QueueInv' /\ NewInv' /\ KeptUntilInjected' /\ Announced'
  BY DEF WaitOver, table, history, MainGoes, IInv, QueueInv, NewInv,
         KeptUntilInjected, Announced, Queued, AtWork
<1> QED BY <1>1, <1>2, <1>3, <1>4, <1>5, <1>6, <1>7 DEF IInv

\* The flag is set only on a task that has not ended.
LEMMA MoveToBackgroundStep ==
  ASSUME IInv, NEW t \in Task, MoveToBackground(t)
  PROVE  IInv'
<1>1. TypeOK'
  BY DEF MoveToBackground, MainGoes, IInv, TypeOK, Final, Unfinished, MainAt
<1>2. NewInv'
  <2>1. main.at = "switch" /\ main.tasks = {t}
    BY MoveEffect
  <2> QED BY <2>1, MoveEffect, Foreground DEF IInv, NewInv, AtWork, Unfinished
<1>3. TableInv'
  <2>1. main.at = "switch" /\ main.tasks = {t}
    BY MoveEffect
  <2> QED BY <2>1, MoveEffect, Foreground DEF IInv, TableInv, TaskInv, AtWork, Unfinished, Final
<1>4. MainInv'
  BY DEF MoveToBackground, MainGoes, IInv, TypeOK, MainInv, Closing
<1>5. LeaseInv'
  BY DEF MoveToBackground, MainGoes, IInv, TypeOK, LeaseInv
<1>6. HookInv'
  BY DEF MoveToBackground, MainGoes, IInv, TypeOK, HookInv
<1>7. KeptUntilInjected'
  <2>1. main.at = "switch" /\ main.tasks = {t}
    BY MoveEffect
  <2>2. t \in known /\ ~ background[t]
    BY <2>1, Foreground
  <2>3. done[t] => status[t] \in Final
    BY <2>2 DEF IInv, TableInv, TaskInv
  <2>4. background'[t] => ~ done[t]
    BY <2>2, <2>3, MoveEffect
  <2>5. UNCHANGED <<known, done, pending, closed, injected>>
    BY MoveEffect
  <2>6. \A u \in known : background'[u] /\ done'[u] => background[u] /\ done[u]
    BY <2>4, <2>5, MoveEffect DEF IInv, TypeOK
  <2> QED BY <2>5, <2>6 DEF IInv, KeptUntilInjected
<1>8. ClosedIsFinal'
  BY DEF MoveToBackground, MainGoes, IInv, TypeOK, ClosedIsFinal, Final
<1>9. QueueInv' /\ Announced'
  BY DEF MoveToBackground, MainGoes, IInv, QueueInv, Announced, Queued
<1> QED BY <1>1, <1>2, <1>3, <1>4, <1>5, <1>6, <1>7, <1>8, <1>9 DEF IInv

\* A cancelled foreground task stays a foreground task.
LEMMA InterruptStep ==
  ASSUME IInv, NEW t \in Task, Interrupt(t)
  PROVE  IInv'
<1>1. TypeOK'
  BY DEF Interrupt, MainGoes, IInv, TypeOK, Final, MainAt
<1>2. NewInv'
  <2>1. main.at = "wait" /\ main.tasks = {t}
    BY InterruptEffect
  <2> QED BY <2>1, InterruptEffect, Foreground DEF IInv, NewInv, AtWork, Unfinished
<1>3. TableInv'
  <2>1. main.at = "wait" /\ main.tasks = {t}
    BY InterruptEffect
  <2> QED BY <2>1, InterruptEffect, Foreground DEF IInv, TableInv, TaskInv, AtWork, Unfinished, Final
<1>4. MainInv'
  BY DEF Interrupt, MainGoes, IInv, TypeOK, MainInv, Closing
<1>5. LeaseInv'
  BY DEF Interrupt, MainGoes, IInv, TypeOK, LeaseInv
<1>6. HookInv'
  BY DEF Interrupt, MainGoes, IInv, TypeOK, HookInv
<1>7. ClosedIsFinal'
  BY DEF Interrupt, MainGoes, IInv, TypeOK, ClosedIsFinal, Final
<1>8. QueueInv' /\ KeptUntilInjected' /\ Announced'
  BY DEF Interrupt, MainGoes, IInv, QueueInv, KeptUntilInjected, Announced,
         Queued
<1> QED BY <1>1, <1>2, <1>3, <1>4, <1>5, <1>6, <1>7, <1>8 DEF IInv

\* The lease covers what is pending, and nothing was leased before.
LEMMA RequestStep ==
  ASSUME IInv, Request
  PROVE  IInv'
<1>1. TypeOK'
  BY DEF Request, table, history, MainGoes, IInv, TypeOK, Parent, MainAt
<1>2. TableInv'
  BY DEF Request, table, history, MainGoes, IInv, TypeOK, TableInv, TaskInv, AtWork,
         Queued, Final, Unfinished
<1>3. MainInv'
  BY DEF Request, table, history, MainGoes, IInv, TypeOK, MainInv, Closing
<1>4. LeaseInv'
  BY DEF Request, table, history, MainGoes, IInv, TypeOK, LeaseInv
<1>5. HookInv'
  BY DEF Request, table, history, MainGoes, IInv, TypeOK, HookInv
<1>6. ClosedIsFinal'
  BY DEF Request, table, history, MainGoes, IInv, TypeOK, ClosedIsFinal, Final
<1>7. QueueInv' /\ NewInv' /\ KeptUntilInjected' /\ Announced'
  BY DEF Request, table, history, MainGoes, IInv, QueueInv, NewInv,
         KeptUntilInjected, Announced, Queued, AtWork
<1> QED BY <1>1, <1>2, <1>3, <1>4, <1>5, <1>6, <1>7 DEF IInv

\* What leaves the queue is counted as injected.
LEMMA RespondStep ==
  ASSUME IInv, Respond
  PROVE  IInv'
<1>1. TypeOK'
  BY DEF Respond, table, MainGoes, IInv, TypeOK, MainAt
<1>2. NewInv'
  BY DEF Respond, table, MainGoes, IInv, TypeOK, NewInv, AtWork, Queued,
         LeaseInv
<1>3. TableInv'
  BY DEF Respond, table, MainGoes, IInv, TypeOK, TableInv, TaskInv, AtWork, Queued,
         Final, Unfinished, LeaseInv
<1>4. MainInv'
  BY DEF Respond, table, MainGoes, IInv, TypeOK, MainInv, Closing
<1>5. LeaseInv'
  BY DEF Respond, table, MainGoes, IInv, TypeOK, LeaseInv
<1>6. HookInv'
  BY DEF Respond, table, MainGoes, IInv, TypeOK, HookInv
<1>7. KeptUntilInjected'
  BY DEF Respond, table, MainGoes, IInv, TypeOK, KeptUntilInjected, LeaseInv
<1>8. ClosedIsFinal'
  BY DEF Respond, table, MainGoes, IInv, TypeOK, ClosedIsFinal, Final
<1>9. Announced'
  BY DEF Respond, table, MainGoes, IInv, TypeOK, Announced
<1>10. QueueInv'
  BY DEF Respond, table, MainGoes, IInv, QueueInv, Queued
<1> QED BY <1>1, <1>2, <1>3, <1>4, <1>5, <1>6, <1>7, <1>8, <1>9, <1>10 DEF IInv

\* The lease is given back whole.
LEMMA FailStep ==
  ASSUME IInv, Fail
  PROVE  IInv'
<1>1. TypeOK'
  BY DEF Fail, table, history, MainGoes, IInv, TypeOK, MainAt
<1>2. TableInv'
  BY DEF Fail, table, history, MainGoes, IInv, TypeOK, TableInv, TaskInv, AtWork, Queued,
         Final, Unfinished
<1>3. MainInv'
  BY DEF Fail, table, history, MainGoes, IInv, TypeOK, MainInv, Closing
<1>4. LeaseInv'
  BY DEF Fail, table, history, MainGoes, IInv, TypeOK, LeaseInv
<1>5. HookInv'
  BY DEF Fail, table, history, MainGoes, IInv, TypeOK, HookInv
<1>6. ClosedIsFinal'
  BY DEF Fail, table, history, MainGoes, IInv, TypeOK, ClosedIsFinal, Final
<1>7. QueueInv' /\ NewInv' /\ KeptUntilInjected' /\ Announced'
  BY DEF Fail, table, history, MainGoes, IInv, QueueInv, NewInv,
         KeptUntilInjected, Announced, Queued, AtWork
<1> QED BY <1>1, <1>2, <1>3, <1>4, <1>5, <1>6, <1>7 DEF IInv

\* The table is empty, and everything that was unfinished is cancelled.
LEMMA ClearStep ==
  ASSUME IInv, Clear
  PROVE  IInv'
<1>1. TypeOK'
  BY DEF Clear, Stopped, MainGoes, IInv, TypeOK, Parent, MainAt, Unfinished,
         Final
<1>2. NewInv'
  BY DEF Clear, Stopped, MainGoes, IInv, TypeOK, NewInv, AtWork, Queued
<1>3. TableInv'
  BY DEF Clear, Stopped, MainGoes, IInv, TypeOK, TableInv, TaskInv, AtWork, Queued,
         Final, Unfinished
<1>4. MainInv'
  BY DEF Clear, Stopped, MainGoes, IInv, TypeOK, MainInv, Closing
<1>5. LeaseInv'
  BY DEF Clear, Stopped, MainGoes, IInv, TypeOK, LeaseInv
<1>6. HookInv'
  <2>1. /\ known' = {} /\ parent' = NoParent /\ hook' = hook
        /\ conversation' = conversation + 1 /\ conversation \in Nat
    BY DEF Clear, IInv, TypeOK
  <2>2. \A t \in HookTask : hook[t] \in 0..conversation \cup {NoParent}
    BY DEF IInv, HookInv
  <2>3. \A t \in HookTask : /\ hook'[t] \in 0..conversation' \cup {NoParent}
                            /\ hook'[t] # conversation'
    BY <2>1, <2>2
  <2> QED BY <2>1, <2>3 DEF HookInv
<1>7. KeptUntilInjected'
  BY DEF Clear, Stopped, MainGoes, IInv, TypeOK, KeptUntilInjected
<1>8. ClosedIsFinal'
  BY DEF Clear, Stopped, MainGoes, IInv, TypeOK, ClosedIsFinal, Final
<1>9. Announced'
  BY DEF Clear, Stopped, MainGoes, IInv, TypeOK, Announced
<1>10. QueueInv'
  BY DEF Clear, Stopped, MainGoes, IInv, QueueInv, Queued
<1> QED BY <1>1, <1>2, <1>3, <1>4, <1>5, <1>6, <1>7, <1>8, <1>9, <1>10 DEF IInv

\* The table then holds hooks' tasks of earlier conversations only.
LEMMA ClearNotesStep ==
  ASSUME IInv, ClearNotes
  PROVE  IInv'
<1>1. TypeOK'
  BY DEF ClearNotes, table, history, MainGoes, IInv, TypeOK, MainAt
<1>2. TableInv'
  BY DEF ClearNotes, table, history, MainGoes, IInv, TypeOK, TableInv, TaskInv, AtWork,
         Queued, Final, Unfinished
<1>3. MainInv'
  BY DEF ClearNotes, table, history, MainGoes, IInv, TypeOK, MainInv, Closing
<1>4. LeaseInv'
  BY DEF ClearNotes, table, history, MainGoes, IInv, TypeOK, LeaseInv
<1>5. HookInv'
  BY DEF ClearNotes, table, history, MainGoes, IInv, TypeOK, HookInv
<1>6. ClosedIsFinal'
  BY DEF ClearNotes, table, history, MainGoes, IInv, TypeOK, ClosedIsFinal,
         Final
<1>7. Announced'
  BY DEF ClearNotes, table, history, MainGoes, IInv, TypeOK, Announced, HookInv,
         TableInv, TaskInv
<1>8. QueueInv' /\ NewInv' /\ KeptUntilInjected'
  BY DEF ClearNotes, table, history, MainGoes, IInv, QueueInv, NewInv,
         KeptUntilInjected, Queued, AtWork
<1> QED BY <1>1, <1>2, <1>3, <1>4, <1>5, <1>6, <1>7, <1>8 DEF IInv

\* Every unfinished task is cancelled from here on.
LEMMA CloseStep ==
  ASSUME IInv, Close
  PROVE  IInv'
<1>1. TypeOK'
  BY DEF Close, history, Stopped, MainGoes, IInv, TypeOK, MainAt
<1>2. NewInv'
  BY DEF Close, history, Stopped, MainGoes, IInv, TypeOK, NewInv, AtWork, Queued
<1>3. TableInv'
  BY DEF Close, history, Stopped, MainGoes, IInv, TypeOK, TableInv, TaskInv, AtWork,
         Queued, Final, Unfinished
<1>4. MainInv'
  BY DEF Close, history, Stopped, MainGoes, IInv, TypeOK, MainInv, Closing
<1>5. LeaseInv'
  BY DEF Close, history, Stopped, MainGoes, IInv, TypeOK, LeaseInv
<1>6. HookInv'
  BY DEF Close, history, Stopped, MainGoes, IInv, TypeOK, HookInv
<1>7. KeptUntilInjected'
  BY DEF Close, history, Stopped, MainGoes, IInv, TypeOK, KeptUntilInjected
<1>8. ClosedIsFinal'
  BY DEF Close, history, Stopped, MainGoes, IInv, TypeOK, ClosedIsFinal, Final
<1>9. QueueInv' /\ Announced'
  BY DEF Close, history, Stopped, MainGoes, IInv, QueueInv, Announced, Queued
<1> QED BY <1>1, <1>2, <1>3, <1>4, <1>5, <1>6, <1>7, <1>8, <1>9 DEF IInv

\* Only the main thread moves.
LEMMA CloseWaitStep ==
  ASSUME IInv, CloseWait
  PROVE  IInv'
<1>1. TypeOK'
  BY DEF CloseWait, table, history, MainGoes, IInv, TypeOK, MainAt
<1>2. TableInv'
  BY DEF CloseWait, table, history, MainGoes, IInv, TypeOK, TableInv, TaskInv, AtWork,
         Queued, Final, Unfinished
<1>3. MainInv'
  BY DEF CloseWait, table, history, MainGoes, IInv, TypeOK, MainInv, Closing
<1>4. LeaseInv'
  BY DEF CloseWait, table, history, MainGoes, IInv, TypeOK, LeaseInv
<1>5. HookInv'
  BY DEF CloseWait, table, history, MainGoes, IInv, TypeOK, HookInv
<1>6. ClosedIsFinal'
  BY DEF CloseWait, table, history, MainGoes, IInv, TypeOK, ClosedIsFinal, Final
<1>7. QueueInv' /\ NewInv' /\ KeptUntilInjected' /\ Announced'
  BY DEF CloseWait, table, history, MainGoes, IInv, QueueInv, NewInv,
         KeptUntilInjected, Announced, Queued, AtWork
<1> QED BY <1>1, <1>2, <1>3, <1>4, <1>5, <1>6, <1>7 DEF IInv

\* What is still unfinished gets its final status.
LEMMA CloseEndStep ==
  ASSUME IInv, CloseEnd
  PROVE  IInv'
<1>1. TypeOK'
  BY DEF CloseEnd, history, Stopped, MainGoes, IInv, TypeOK, Final, MainAt
<1>2. NewInv'
  BY DEF CloseEnd, history, Stopped, MainGoes, IInv, TypeOK, NewInv, AtWork,
         Queued
<1>3. TableInv'
  BY DEF CloseEnd, history, Stopped, MainGoes, IInv, TypeOK, TableInv, TaskInv, AtWork,
         Queued, Final, Unfinished, MainInv, Closing
<1>4. MainInv'
  BY DEF CloseEnd, history, Stopped, MainGoes, IInv, TypeOK, MainInv, Closing
<1>5. LeaseInv'
  BY DEF CloseEnd, history, Stopped, MainGoes, IInv, TypeOK, LeaseInv
<1>6. HookInv'
  BY DEF CloseEnd, history, Stopped, MainGoes, IInv, TypeOK, HookInv
<1>7. KeptUntilInjected'
  BY DEF CloseEnd, IInv, MainInv, Closing, KeptUntilInjected
<1>8. ClosedIsFinal'
  BY DEF CloseEnd, history, Stopped, MainGoes, IInv, TypeOK, ClosedIsFinal,
         Final, Unfinished, NewInv
<1>9. QueueInv' /\ Announced'
  BY DEF CloseEnd, history, Stopped, MainGoes, IInv, QueueInv, Announced, Queued
<1> QED BY <1>1, <1>2, <1>3, <1>4, <1>5, <1>6, <1>7, <1>8, <1>9 DEF IInv

\* Tasks leave the pool's queue; the table does not change.
LEMMA ShutdownStep ==
  ASSUME IInv, Shutdown
  PROVE  IInv'
<1>1. TypeOK'
  BY DEF Shutdown, table, history, MainGoes, IInv, TypeOK, MainAt
<1>2. QueueInv'
  BY DEF Shutdown, table, history, MainGoes, IInv, TypeOK, QueueInv, Queued
<1>3. NewInv'
  BY DEF Shutdown, table, history, MainGoes, IInv, TypeOK, NewInv, AtWork,
         Queued
<1>4. TableInv'
  BY DEF Shutdown, table, history, MainGoes, IInv, TypeOK, TableInv, TaskInv, AtWork,
         Queued, Final, Unfinished
<1>5. MainInv'
  BY DEF Shutdown, table, history, MainGoes, IInv, TypeOK, MainInv, Closing
<1>6. LeaseInv'
  BY DEF Shutdown, table, history, MainGoes, IInv, TypeOK, LeaseInv
<1>7. HookInv'
  BY DEF Shutdown, table, history, MainGoes, IInv, TypeOK, HookInv
<1>8. ClosedIsFinal'
  BY DEF Shutdown, table, history, MainGoes, IInv, TypeOK, ClosedIsFinal, Final
<1>9. KeptUntilInjected' /\ Announced'
  BY DEF Shutdown, table, history, MainGoes, IInv, KeptUntilInjected, Announced
<1> QED BY <1>1, <1>2, <1>3, <1>4, <1>5, <1>6, <1>7, <1>8, <1>9 DEF IInv

\* The oldest task leaves the queue for a worker, or is ended if cancelled.
LEMMA StartStep ==
  ASSUME IInv, NEW t \in Task, Start(t)
  PROVE  IInv'
<1>1. TypeOK'
  <2>1. queue' \in Seq(Task)
    BY DEF Start, IInv, TypeOK
  <2>2. /\ status' \in [Task -> {"none"} \cup Unfinished \cup Final]
        /\ done' \in [Task -> BOOLEAN] /\ running' \subseteq Task
    BY DEF Start, IInv, TypeOK, Unfinished, Final
  <2> QED BY <2>1, <2>2 DEF Start, IInv, TypeOK, history
<1>2. QueueInv'
  BY DEF Start, history, IInv, TypeOK, QueueInv, Queued
<1>3. NewInv'
  BY DEF Start, history, IInv, TypeOK, NewInv, AtWork, Queued
<1>4. TableInv'
  <2>1. /\ t \in Task /\ AtWork(t)
        /\ UNCHANGED <<known, background, cancelled, pending, closed, main, injected, told>>
    BY DEF Start, IInv, TypeOK, AtWork, Queued, history
  <2>2. \A u \in Task : AtWork(u)' => AtWork(u)
    BY DEF Start, IInv, TypeOK, AtWork, Queued
  <2>3. \A u \in Task \ {t} : done'[u] = done[u] /\ status'[u] = status[u]
    BY DEF Start, IInv, TypeOK
  <2>4. IF cancelled[t] THEN status'[t] = "cancelled" /\ done'[t] /\ ~ AtWork(t)'
                       ELSE status'[t] \in Unfinished /\ done'[t] = done[t]
    BY DEF Start, IInv, TypeOK, Unfinished, AtWork, Queued, QueueInv
  <2>5. TaskInv(t)'
    <3>1. status[t] \in Unfinished \cup Final
      BY <2>1 DEF IInv, TypeOK, NewInv
    <3> QED BY <2>1, <2>4, <3>1 DEF IInv, TableInv, TaskInv, Final, Unfinished
  <2>6. \A u \in Task \ {t} : TaskInv(u)'
    BY <2>1, <2>2, <2>3 DEF IInv, TableInv, TaskInv
  <2> QED BY <2>5, <2>6 DEF TableInv
<1>5. KeptUntilInjected'
  <2>1. UNCHANGED <<known, background, pending, closed, injected>>
    BY DEF Start, history
  <2>2. \A u \in Task : u # t => done'[u] = done[u]
    BY DEF Start, IInv, TypeOK
  <2>3. t \in known /\ ~ closed /\ background[t] /\ done'[t] => done[t]
    BY DEF Start, IInv, TypeOK, TableInv, TaskInv
  <2> QED BY <2>1, <2>2, <2>3 DEF IInv, TypeOK, KeptUntilInjected
<1>6. ClosedIsFinal'
  BY DEF Start, history, IInv, TypeOK, ClosedIsFinal, Final, TableInv, TaskInv, MainInv,
         Closing, AtWork, Queued
<1>7. MainInv' /\ LeaseInv' /\ HookInv' /\ Announced'
  BY DEF Start, history, IInv, MainInv, LeaseInv, HookInv, Announced, Closing
<1> QED BY <1>1, <1>2, <1>3, <1>4, <1>5, <1>6, <1>7 DEF IInv

\* The worker gives its task up, and the result is queued and announced together.
LEMMA FinishStep ==
  ASSUME IInv, NEW t \in Task, NEW r \in Final, Finish(t, r)
  PROVE  IInv'
<1>1. TypeOK'
  <2>1. status' \in [Task -> {"none"} \cup Unfinished \cup Final]
    <3>1. CASE t \in known
      BY <3>1 DEF Finish, IInv, TypeOK, Final
    <3>2. CASE t \notin known
      BY <3>2 DEF Finish, IInv, TypeOK
    <3> QED BY <3>1, <3>2
  <2>2. /\ done' \in [Task -> BOOLEAN] /\ running' \subseteq Task
        /\ pending' \subseteq Task /\ notes' \subseteq Task
    BY DEF Finish, IInv, TypeOK
  <2> QED BY <2>1, <2>2 DEF Finish, IInv, TypeOK, history
<1>2. QueueInv'
  BY DEF Finish, history, IInv, TypeOK, QueueInv, Queued
<1>3. NewInv'
  <2>1. /\ status[t] # "none" /\ t \in Task
        /\ UNCHANGED <<known, cancelled, told, injected, queue>>
    BY DEF Finish, IInv, NewInv, AtWork, history
  <2>2. \A u \in Task \ {t} : /\ status'[u] = status[u] /\ done'[u] = done[u]
                              /\ (u \in running') <=> (u \in running)
    BY DEF Finish, IInv, TypeOK
  <2>3. \A u \in Task \ {t} : (u \in pending') <=> (u \in pending)
    BY DEF Finish
  <2>4. status'[t] # "none"
    <3>1. CASE t \in known
      BY <2>1, <3>1 DEF Finish, IInv, TypeOK, Final
    <3>2. CASE t \notin known
      BY <2>1, <3>2 DEF Finish
    <3> QED BY <3>1, <3>2
  <2>5. \A u \in Task : Queued(u)' <=> Queued(u)
    BY <2>1 DEF Queued
  <2>6. \A u \in Task : status'[u] = "none" => u # t /\ status[u] = "none"
    BY <2>2, <2>4
  <2>7. \A u \in Task \ {t} : AtWork(u)' <=> AtWork(u)
    BY <2>2, <2>5 DEF AtWork
  <2> QED BY <2>1, <2>2, <2>3, <2>6, <2>7 DEF IInv, NewInv
<1>4. TableInv'
  BY DEF Finish, history, IInv, TypeOK, TableInv, TaskInv, AtWork, Queued, Final,
         Unfinished, QueueInv
<1>5. LeaseInv'
  BY DEF Finish, history, IInv, TypeOK, LeaseInv
<1>6. KeptUntilInjected'
  BY DEF Finish, history, IInv, TypeOK, KeptUntilInjected
<1>7. ClosedIsFinal'
  BY DEF Finish, history, IInv, TypeOK, ClosedIsFinal, Final
<1>8. Announced'
  BY DEF Finish, history, IInv, TypeOK, Announced
<1>9. MainInv' /\ HookInv'
  BY DEF Finish, history, IInv, MainInv, HookInv, Closing
<1> QED BY <1>1, <1>2, <1>3, <1>4, <1>5, <1>6, <1>7, <1>8, <1>9 DEF IInv

\* Announcements are shown, none is lost.
LEMMA ShowStep ==
  ASSUME IInv, Show
  PROVE  IInv'
<1>1. TypeOK'
  BY DEF Show, table, IInv, TypeOK
<1>2. Announced'
  BY DEF Show, table, IInv, TypeOK, Announced
<1>3. QueueInv' /\ NewInv' /\ TableInv' /\ MainInv' /\ LeaseInv' /\ HookInv' /\
     KeptUntilInjected' /\ ClosedIsFinal'
  BY DEF Show, table, IInv, QueueInv, NewInv, TableInv, TaskInv, MainInv, LeaseInv,
         HookInv, KeptUntilInjected, ClosedIsFinal, Queued, AtWork, Final,
         Unfinished, Closing
<1> QED BY <1>1, <1>2, <1>3 DEF IInv

\* A hook reads the snapshot while its task is still new.
LEMMA HookReadsStep ==
  ASSUME IInv, NEW t \in HookTask, HookReads(t)
  PROVE  IInv'
<1>1. TypeOK'
  BY DEF HookReads, table, history, IInv, TypeOK, Parent
<1>2. HookInv'
  BY DEF HookReads, table, history, IInv, TypeOK, HookInv
<1>3. Announced'
  BY DEF HookReads, table, history, IInv, TypeOK, Announced, NewInv, TableInv, TaskInv,
         HookInv
<1>4. QueueInv' /\ NewInv' /\ TableInv' /\ MainInv' /\ LeaseInv' /\
     KeptUntilInjected' /\ ClosedIsFinal'
  BY DEF HookReads, table, history, IInv, QueueInv, NewInv, TableInv, TaskInv, MainInv,
         LeaseInv, KeptUntilInjected, ClosedIsFinal, Queued, AtWork, Final,
         Unfinished, Closing
<1> QED BY <1>1, <1>2, <1>3, <1>4 DEF IInv

\* As CallAgentInBackground, perhaps for an earlier conversation.
LEMMA HookSubmitsStep ==
  ASSUME IInv, NEW t \in HookTask, HookSubmits(t)
  PROVE  IInv'
<1>1. TypeOK'
  BY DEF HookSubmits, history, Submit, IInv, TypeOK, Unfinished
<1>2. QueueInv'
  BY DEF HookSubmits, history, Submit, IInv, TypeOK, QueueInv, Queued, NewInv,
         AtWork
<1>3. NewInv'
  BY DEF HookSubmits, history, Submit, IInv, TypeOK, NewInv, AtWork, Queued
<1>4. TableInv'
  BY DEF HookSubmits, history, Submit, IInv, TypeOK, TableInv, TaskInv, AtWork, Queued,
         Final, Unfinished, NewInv, MainInv, Closing
<1>5. MainInv'
  BY DEF HookSubmits, history, Submit, IInv, TypeOK, MainInv, Closing, NewInv
<1>6. HookInv'
  BY DEF HookSubmits, history, Submit, IInv, TypeOK, HookInv, MainInv
<1>7. KeptUntilInjected'
  BY DEF HookSubmits, history, Submit, IInv, TypeOK, KeptUntilInjected, NewInv
<1>8. ClosedIsFinal'
  BY DEF HookSubmits, history, Submit, IInv, TypeOK, ClosedIsFinal, Final,
         MainInv, Closing
<1>9. LeaseInv' /\ Announced'
  BY DEF HookSubmits, history, Submit, IInv, LeaseInv, Announced
<1> QED BY <1>1, <1>2, <1>3, <1>4, <1>5, <1>6, <1>7, <1>8, <1>9 DEF IInv

-----------------------------------------------------------------------------
(* The theorems *)

\* Nothing has happened yet.
LEMMA InitIInv == Init => IInv
<1> SUFFICES ASSUME Init PROVE IInv
  OBVIOUS
<1>1. TypeOK
  <2>1. queue \in Seq(Task) /\ hook \in [HookTask -> Parent] /\ conversation \in 0..MaxClears
    BY DEF Init, Parent
  <2>2. /\ status \in [Task -> {"none"} \cup Unfinished \cup Final]
        /\ told \in [Task -> {"nothing", "id", "result", "interrupted"}]
        /\ injected \in [Task -> Nat]
        /\ background \in [Task -> BOOLEAN] /\ cancelled \in [Task -> BOOLEAN]
        /\ done \in [Task -> BOOLEAN]
    BY DEF Init
  <2>3. main \in [at : MainAt, tasks : SUBSET Task] /\ parent \in Parent /\ closed \in BOOLEAN
    BY DEF Init, MainAt, Parent
  <2> QED BY <2>1, <2>2, <2>3 DEF Init, TypeOK
<1>2. QueueInv /\ NewInv /\ TableInv
  BY DEF Init, QueueInv, NewInv, TableInv, TaskInv, AtWork, Queued, Final
<1>3. MainInv /\ LeaseInv /\ HookInv
  BY DEF Init, MainInv, LeaseInv, HookInv, Closing
<1>4. KeptUntilInjected /\ ClosedIsFinal /\ Announced
  BY DEF Init, KeptUntilInjected, ClosedIsFinal, Announced
<1> QED BY <1>1, <1>2, <1>3, <1>4 DEF IInv

\* No part of the invariant looks beyond the variables.
LEMMA StutterIInv == ASSUME IInv, UNCHANGED vars PROVE IInv'
<1>1. TypeOK' /\ LeaseInv' /\ HookInv'
  BY DEF vars, table, history, IInv, TypeOK, LeaseInv, HookInv
<1>2. QueueInv' /\ NewInv'
  BY DEF vars, table, history, IInv, QueueInv, NewInv, AtWork, Queued
<1>3. TableInv'
  BY DEF vars, table, history, IInv, TableInv, TaskInv, AtWork, Queued
<1>4. MainInv' /\ KeptUntilInjected' /\ ClosedIsFinal' /\ Announced'
  BY DEF vars, table, history, IInv, MainInv, Closing, KeptUntilInjected, ClosedIsFinal,
         Announced
<1> QED BY <1>1, <1>2, <1>3, <1>4 DEF IInv

\* Every step of the system is one of the above.
LEMMA NextIInv == ASSUME IInv, Next PROVE IInv'
<1>1. CASE Main
  <2>1. CASE Waiting
    BY <2>1, WaitCompletedStep, WaitOverStep, MoveToBackgroundStep DEF Waiting
  <2>2. CASE Request \/ Respond \/ Fail
    BY <2>2, RequestStep, RespondStep, FailStep
  <2>3. CASE Clear \/ ClearNotes
    BY <2>3, ClearStep, ClearNotesStep
  <2>4. CASE Close \/ CloseWait \/ CloseEnd \/ Shutdown
    BY <2>4, CloseStep, CloseWaitStep, CloseEndStep, ShutdownStep
  <2>5. CASE \E t \in Task : CallAgentInBackground(t) \/ CallAgent(t) \/ Interrupt(t)
    BY <2>5, CallAgentInBackgroundStep, CallAgentStep, InterruptStep
  <2> QED BY <1>1, <2>1, <2>2, <2>3, <2>4, <2>5 DEF Main
<1>2. CASE Worker
  BY <1>2, StartStep, FinishStep DEF Worker
<1>3. CASE Show
  BY <1>3, ShowStep
<1>4. CASE \E t \in HookTask : HookReads(t) \/ HookSubmits(t)
  BY <1>4, HookReadsStep, HookSubmitsStep
<1> QED BY <1>1, <1>2, <1>3, <1>4 DEF Next

\* The inductive invariant holds in every behaviour, fair or not.
THEOREM Inductive == Spec => []IInv
<1>1. Init => IInv
  BY InitIInv
<1>2. IInv /\ [Next]_vars => IInv'
  BY NextIInv, StutterIInv
<1> QED BY <1>1, <1>2, PTL DEF Spec

\* Every variable keeps its type.
THEOREM TypeCorrect == Spec => []TypeOK
<1>1. IInv => TypeOK
  BY DEF IInv
<1> QED BY <1>1, Inductive, PTL

\* The result of a background task is queued, or was in a request that got its
\* response, until close(): no interleaving of the worker's end of a task with
\* waits, requests, failures and /clear takes it away.
THEOREM ResultsAreKept == Spec => []KeptUntilInjected
<1>1. IInv => KeptUntilInjected
  BY DEF IInv
<1> QED BY <1>1, Inductive, PTL

\* A lease is held by the request under way only, on results still queued.
THEOREM LeasesEnd == Spec => []LeaseOnlyInRequest
<1>1. IInv => LeaseOnlyInRequest
  BY DEF IInv, LeaseInv, LeaseOnlyInRequest
<1> QED BY <1>1, Inductive, PTL

\* After close() every task of the table has a final status.
THEOREM CloseIsFinal == Spec => []ClosedIsFinal
<1>1. IInv => ClosedIsFinal
  BY DEF IInv
<1> QED BY <1>1, Inductive, PTL

\* A result queued for the main agent was announced to the user or is about to
\* be, whatever /clear does in its two steps; hooks' tasks of an earlier
\* conversation excepted.
THEOREM ResultsAreAnnounced == Spec => []Announced
<1>1. IInv => Announced
  BY DEF IInv
<1> QED BY <1>1, Inductive, PTL

-----------------------------------------------------------------------------
(* A status is final.  The worker that still has a task somebody cancelled *)
(* is the only one that could change it, and finds the cancellation.       *)

StatusKept == \A t \in Task : status[t] \in Final => status'[t] = status[t]

\* No step changes a final status.
LEMMA StatusStep == ASSUME IInv, [Next]_vars PROVE StatusKept
<1>1. CASE UNCHANGED vars
  BY <1>1 DEF vars, table, StatusKept
<1>2. CASE UNCHANGED status
  BY <1>2 DEF StatusKept
<1>3. ASSUME NEW t \in Task, Submit(t, TRUE) \/ Submit(t, FALSE) PROVE StatusKept
  BY <1>3 DEF Submit, IInv, TypeOK, StatusKept, Final
<1>4. ASSUME NEW t \in Task, MoveToBackground(t) PROVE StatusKept
  BY <1>4 DEF MoveToBackground, IInv, TypeOK, StatusKept, Final
<1>5. ASSUME NEW t \in Task, Interrupt(t) PROVE StatusKept
  BY <1>5 DEF Interrupt, IInv, TypeOK, StatusKept, Final, Unfinished
<1>6. CASE Clear \/ CloseEnd
  BY <1>6 DEF Clear, CloseEnd, Stopped, IInv, TypeOK, StatusKept, Final, Unfinished
<1>7. ASSUME NEW t \in Task, Start(t) PROVE StatusKept
  <2>1. t \in Task /\ AtWork(t)
    BY <1>7 DEF Start, IInv, TypeOK, AtWork, Queued
  <2>2. status[t] \in Final => status[t] = "cancelled" /\ cancelled[t]
    BY <2>1 DEF IInv, TableInv, TaskInv
  <2> QED BY <1>7, <2>2 DEF Start, IInv, TypeOK, StatusKept
<1>8. ASSUME NEW t \in Task, NEW r \in Final, Finish(t, r) PROVE StatusKept
  <2>1. AtWork(t)
    BY <1>8 DEF Finish, AtWork
  <2>2. status[t] \in Final => status[t] = "cancelled" /\ cancelled[t]
    BY <2>1 DEF IInv, TableInv, TaskInv
  <2>3. CASE t \in known
    BY <1>8, <2>2, <2>3 DEF Finish, IInv, TypeOK, StatusKept
  <2>4. CASE t \notin known
    BY <1>8, <2>4 DEF Finish, StatusKept
  <2> QED BY <2>3, <2>4
<1>9. CASE Main
  <2>1. CASE \E t \in Task : WaitCompleted(t) \/ WaitOver(t)
    BY <2>1, <1>2 DEF WaitCompleted, WaitOver, table
  <2>2. CASE Request \/ Respond \/ Fail \/ ClearNotes \/ Close \/ CloseWait \/ Shutdown
    BY <2>2, <1>2 DEF Request, Respond, Fail, ClearNotes, Close, CloseWait, Shutdown, table
  <2>3. CASE \E t \in Task : CallAgentInBackground(t) \/ CallAgent(t)
    BY <2>3, <1>3 DEF CallAgentInBackground, CallAgent
  <2> QED BY <1>4, <1>5, <1>6, <1>9, <2>1, <2>2, <2>3 DEF Main, Waiting
<1>10. CASE Worker
  BY <1>7, <1>8, <1>10 DEF Worker
<1>11. CASE Show
  BY <1>2, <1>11 DEF Show, table
<1>12. CASE \E t \in HookTask : HookReads(t) \/ HookSubmits(t)
  BY <1>2, <1>3, <1>12, HookTaskAssumption DEF HookReads, HookSubmits, table
<1> QED BY <1>1, <1>9, <1>10, <1>11, <1>12 DEF Next

\* Who comes late, a runner, /clear or close(), does not change how a task ended.
THEOREM StatusIsFinal == Spec => FinalIsFinal
<1>1. IInv /\ [Next]_vars => [StatusKept]_vars
  BY StatusStep
<1> QED BY <1>1, Inductive, PTL DEF Spec, FinalIsFinal, StatusKept

-----------------------------------------------------------------------------
(* SubagentManager keeps the promise of ResultDelivery. *)

Copies == [t \in Task |-> injected[t] + IF told[t] = "result" THEN 1 ELSE 0]
Gone == {t \in Task : status[t] # "none"} \ known
Same == UNCHANGED <<pending, Copies, Gone>>

\* The promise's steps, in terms of this module's variables.
LEMMA Promise ==
  /\ Delivery!Init <=> pending = {} /\ Copies = [t \in Task |-> 0] /\ Gone = {}
  /\ (\E t \in Task : /\ t \notin pending \cup Gone /\ Copies[t] = 0
                      /\ \/ pending' = pending \cup {t} /\ UNCHANGED <<Copies, Gone>>
                         \/ /\ Copies' = [Copies EXCEPT ![t] = 1]
                            /\ UNCHANGED <<pending, Gone>>)
       => Delivery!Next
  /\ (\E S \in SUBSET Task :
        \/ /\ S # {} /\ S \subseteq pending /\ pending' = pending \ S
           /\ Copies' = [t \in Task |-> IF t \in S THEN Copies[t] + 1 ELSE Copies[t]]
           /\ UNCHANGED Gone
        \/ Gone' = Gone \cup S /\ pending' = pending \ S /\ UNCHANGED Copies)
       => Delivery!Next
BY DEF Delivery!Init, Delivery!Next, Delivery!Finish, Delivery!Answer, Delivery!Inject,
       Delivery!Drop, Delivery!Fresh, Copies, Gone

\* Nobody but /clear takes a task from the table, and no submitted task is
\* ever taken for a new one.
LEMMA GoneStays ==
  ASSUME IInv, known' = known,
         \A t \in Task : (status'[t] = "none") <=> (status[t] = "none")
  PROVE  Gone' = Gone
BY DEF Gone

\* A submitted task is not a cleared one, and is answered for the first time.
LEMMA SubmitStays ==
  ASSUME IInv, NEW t \in Task, Submit(t, TRUE) \/ Submit(t, FALSE)
  PROVE  Gone' = Gone /\ told[t] = "nothing"
<1>1. \A u \in Task : u # t => status'[u] = status[u]
  BY DEF Submit, IInv, TypeOK
<1>2. status'[t] = "queued" /\ t \notin Gone /\ told[t] = "nothing"
  BY DEF Submit, IInv, TypeOK, NewInv, Gone
<1>3. known' = known \cup {t}
  BY DEF Submit
<1> QED BY <1>1, <1>2, <1>3 DEF Gone

\* Only answers and acknowledged requests hand a result over.
LEMMA CopiesStay ==
  ASSUME IInv, injected' = injected,
         \A t \in Task : (told'[t] = "result") <=> (told[t] = "result")
  PROVE  Copies' = Copies
BY DEF Copies

\* Every step is a step of the promise, or changes nothing it speaks of.
LEMMA PromiseStep ==
  ASSUME IInv, [Next]_vars
  PROVE  Delivery!Next \/ Same
<1>1. CASE UNCHANGED <<known, status, pending, told, injected>>
  BY <1>1 DEF Same, Copies, Gone
<1>2. ASSUME NEW t \in Task, CallAgentInBackground(t) PROVE Same
  <2>1. Gone' = Gone /\ told[t] = "nothing" /\ told' = [told EXCEPT ![t] = "id"]
        /\ injected' = injected /\ pending' = pending
    BY <1>2, SubmitStays DEF CallAgentInBackground
  <2>2. \A u \in Task : (told'[u] = "result") <=> (told[u] = "result")
    BY <2>1 DEF IInv, TypeOK
  <2> QED BY <2>1, <2>2, CopiesStay DEF Same
<1>3. ASSUME NEW t \in Task, CallAgent(t) PROVE Same
  BY <1>3, SubmitStays, CopiesStay DEF CallAgent, history, Same
<1>4. ASSUME NEW t \in Task, WaitCompleted(t) PROVE Delivery!Next
  <2>1. main.at = "wait" /\ main.tasks = {t}
    BY <1>4 DEF WaitCompleted
  <2>2. t \notin pending \cup Gone /\ told[t] = "nothing" /\ injected[t] = 0
    BY <2>1, Foreground DEF Gone
  <2>3. Copies[t] = 0
    BY <2>2 DEF Copies
  <2>4. Copies' = [Copies EXCEPT ![t] = 1]
    <3>1. told' = [told EXCEPT ![t] = "result"] /\ injected' = injected
      BY <1>4 DEF WaitCompleted
    <3>2. \A u \in Task : Copies'[u] = IF u = t THEN 1 ELSE Copies[u]
      BY <2>2, <3>1 DEF Copies, IInv, TypeOK
    <3> QED BY <3>2 DEF Copies
  <2>5. pending' = pending /\ Gone' = Gone
    BY <1>4 DEF WaitCompleted, table, Gone
  <2> QED BY <2>2, <2>3, <2>4, <2>5, Promise
<1>5. ASSUME NEW t \in Task, MoveToBackground(t) PROVE Same
  <2>1. main.at = "switch" /\ main.tasks = {t}
    BY <1>5, MoveEffect
  <2>2. told[t] = "nothing" /\ status[t] # "none"
    BY <2>1, Foreground
  <2>3. pending' = pending /\ known' = known /\ injected' = injected
    BY <1>5, MoveEffect
  <2>4. \A u \in Task : /\ (told'[u] = "result") <=> (told[u] = "result")
                        /\ (status'[u] = "none") <=> (status[u] = "none")
    BY <1>5, <2>2, MoveEffect DEF Unfinished
  <2> QED BY <2>3, <2>4, CopiesStay, GoneStays DEF Same
<1>6. ASSUME NEW t \in Task, Interrupt(t) PROVE Same
  <2>1. main.at = "wait" /\ main.tasks = {t}
    BY <1>6, InterruptEffect
  <2>2. told[t] = "nothing" /\ status[t] # "none"
    BY <2>1, Foreground
  <2>3. pending' = pending /\ known' = known /\ injected' = injected
    BY <1>6, InterruptEffect
  <2>4. \A u \in Task : /\ (told'[u] = "result") <=> (told[u] = "result")
                        /\ (status'[u] = "none") <=> (status[u] = "none")
    BY <1>6, <2>2, InterruptEffect DEF Unfinished
  <2> QED BY <2>3, <2>4, CopiesStay, GoneStays DEF Same
<1>7. ASSUME Respond PROVE Delivery!Next \/ Same
  <2>1. main.tasks \subseteq pending /\ pending' = pending \ main.tasks
    BY <1>7 DEF Respond, IInv, LeaseInv
  <2>2. Gone' = Gone /\ told' = told
    BY <1>7 DEF Respond, table, Gone
  <2>3. Copies' = [t \in Task |-> IF t \in main.tasks THEN Copies[t] + 1 ELSE Copies[t]]
    <3>1. \A t \in Task : injected'[t] = IF t \in main.tasks THEN injected[t] + 1
                                                             ELSE injected[t]
      BY <1>7 DEF Respond
    <3> QED BY <2>2, <3>1 DEF Copies, IInv, TypeOK
  <2>4. main.tasks \in SUBSET Task
    BY <2>1 DEF IInv, TypeOK
  <2>5. CASE main.tasks = {}
    BY <2>1, <2>2, <2>3, <2>5 DEF Same, Copies
  <2>6. CASE main.tasks # {}
    BY <2>1, <2>2, <2>3, <2>4, <2>6, Promise
  <2> QED BY <2>5, <2>6
<1>8. ASSUME Clear PROVE Delivery!Next
  <2>1. known \in SUBSET Task /\ pending \subseteq known
    BY DEF IInv, TypeOK, TableInv, TaskInv
  <2>2. pending' = {} /\ known' = {} /\ Copies' = Copies
    BY <1>8 DEF Clear, Copies
  <2>3. \A t \in Task : (status'[t] = "none") <=> (status[t] = "none")
    BY <1>8 DEF Clear, Stopped, Unfinished, IInv, TypeOK
  <2>4. \A t \in known : status[t] # "none"
    BY <2>1 DEF IInv, NewInv
  <2>5. Gone' = Gone \cup known
    BY <2>1, <2>2, <2>3, <2>4 DEF Gone
  <2> QED BY <2>1, <2>2, <2>5, Promise
<1>9. ASSUME CloseEnd PROVE Same
  <2>1. \A t \in Task : (status'[t] = "none") <=> (status[t] = "none")
    BY <1>9 DEF CloseEnd, Stopped, Unfinished, IInv, TypeOK
  <2>2. known' = known /\ pending' = pending /\ told' = told /\ injected' = injected
    BY <1>9 DEF CloseEnd, history
  <2> QED BY <2>1, <2>2, GoneStays, CopiesStay DEF Same
<1>10. ASSUME NEW t \in Task, Start(t) PROVE Same
  <2>1. AtWork(t)
    BY <1>10 DEF Start, IInv, TypeOK, AtWork, Queued
  <2>2. status[t] # "none"
    BY <2>1 DEF IInv, NewInv
  <2>3. \A u \in Task : (status'[u] = "none") <=> (status[u] = "none")
    BY <1>10, <2>2 DEF Start, IInv, TypeOK
  <2>4. known' = known /\ pending' = pending /\ told' = told /\ injected' = injected
    BY <1>10 DEF Start, history
  <2> QED BY <2>3, <2>4, GoneStays, CopiesStay DEF Same
<1>11. ASSUME NEW t \in Task, NEW r \in Final, Finish(t, r) PROVE Delivery!Next \/ Same
  <2>1. AtWork(t) /\ status[t] # "none"
    BY <1>11 DEF Finish, IInv, NewInv, AtWork
  <2>2. \A u \in Task : (status'[u] = "none") <=> (status[u] = "none")
    <3>1. CASE t \in known
      BY <1>11, <2>1, <3>1 DEF Finish, IInv, TypeOK, Final
    <3>2. CASE t \notin known
      BY <1>11, <3>2 DEF Finish
    <3> QED BY <3>1, <3>2
  <2>3. known' = known /\ told' = told /\ injected' = injected
    BY <1>11 DEF Finish, history
  <2>4. Gone' = Gone /\ Copies' = Copies
    BY <2>2, <2>3, GoneStays, CopiesStay
  <2>5. CASE t \in known /\ background[t]
    <3>1. t \notin pending /\ injected[t] = 0 /\ told[t] # "result"
      BY <2>1, <2>5 DEF IInv, TableInv, TaskInv
    <3>2. t \notin Gone /\ Copies[t] = 0
      BY <2>5, <3>1 DEF Gone, Copies
    <3>3. pending' = pending \cup {t}
      BY <1>11, <2>5 DEF Finish
    <3> QED BY <2>4, <3>1, <3>2, <3>3, Promise
  <2>6. CASE ~ (t \in known /\ background[t])
    BY <1>11, <2>4, <2>6 DEF Finish, Same
  <2> QED BY <2>5, <2>6
<1>12. ASSUME NEW t \in HookTask, HookSubmits(t) PROVE Same
  BY <1>12, HookTaskAssumption, SubmitStays, CopiesStay DEF HookSubmits, history, Same
<1>13. CASE Main
  <2>1. CASE \E t \in Task : WaitOver(t)
    BY <2>1, <1>1 DEF WaitOver, table, history
  <2>2. CASE Request \/ Fail \/ ClearNotes \/ Close \/ CloseWait \/ Shutdown
    BY <2>2, <1>1 DEF Request, Fail, ClearNotes, Close, CloseWait, Shutdown, table, history
  <2> QED BY <1>2, <1>3, <1>4, <1>5, <1>6, <1>7, <1>8, <1>9, <1>13, <2>1, <2>2
          DEF Main, Waiting
<1>14. CASE Worker
  BY <1>10, <1>11, <1>14 DEF Worker
<1>15. CASE Show
  BY <1>1, <1>15 DEF Show, table
<1>16. CASE \E t \in HookTask : HookReads(t) \/ HookSubmits(t)
  BY <1>1, <1>12, <1>16 DEF HookReads, table, history
<1>17. CASE UNCHANGED vars
  BY <1>1, <1>17 DEF vars, table, history
<1> QED BY <1>13, <1>14, <1>15, <1>16, <1>17 DEF Next

\* The main agent gets the result of a task at most once, as the Agent tool's
\* answer or with a later request, and nothing of a task that /clear removed.
THEOREM Refinement == Spec => DeliversOnce
<1>1. Init => Delivery!Init
  <2> SUFFICES ASSUME Init PROVE pending = {} /\ Copies = [t \in Task |-> 0] /\ Gone = {}
    BY Promise
  <2> QED BY DEF Init, Copies, Gone
<1>2. IInv /\ [Next]_vars => [Delivery!Next]_<<pending, Copies, Gone>>
  BY PromiseStep DEF Same
<1> QED BY <1>1, <1>2, Inductive, PTL DEF Spec, DeliversOnce, Delivery!Spec, Copies, Gone

=============================================================================
