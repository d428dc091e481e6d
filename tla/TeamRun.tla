------------------------------ MODULE TeamRun ------------------------------
(***************************************************************************)
(* The lead and the members of a team at work: TeamManager.assign and      *)
(* stop_member (huicode/teams/manager.py), the member's mailbox loop       *)
(* (member_runner.py), the plan approvals (approval.py) and the task list, *)
(* whose calls are single steps here as in TeamTasks.                      *)
(*                                                                         *)
(* Every member thread reads its mailbox, then the task list, then acts:   *)
(* between any two of its store calls the lead and the other members act   *)
(* too.  An error out of a store call ends the member's thread.            *)
(***************************************************************************)
EXTENDS Naturals, FiniteSets

CONSTANTS
  Task, Member, None,
  Deps,          \* the dependencies of every task
  Approval,      \* the members that need their plans approved
  MaxAssigns,    \* bound: calls of assign by the lead
  MaxUpdates,    \* bound: TeamTask updates and claims by the models
  MaxTimeouts,   \* bound: lock_timeout errors
  MaxSpent       \* bound: all of these together

ASSUME DepsAssumption == Deps \in [Task -> SUBSET Task]
ASSUME NamesAssumption == None \notin Task \cup Member /\ Approval \subseteq Member
ASSUME BoundsAssumption == {MaxAssigns, MaxUpdates, MaxTimeouts, MaxSpent} \subseteq Nat

VARIABLES
  tasks,     \* the task list: status, assignee, version
  mail,      \* per member: its unread assignments and stop messages
  plan,      \* per member and task: the status of its last plan request
  thread,    \* per member: where its loop is and what it holds
  roster,    \* per member: the status the roster shows
  stopping,  \* per member: the handle's stop_event
  lead,      \* what the lead's current call does next
  spent      \* how much of each bound is used up

vars == <<tasks, mail, plan, thread, roster, stopping, lead, spent>>

\* An assignment is the task and which assign call sent it.  All unread stop
\* messages are handled at once, so they are one.
StopMessage == <<None, 0>>
Message == {StopMessage} \cup (Task \X (1..MaxAssigns))

TaskRecord == [status : {"pending", "blocked", "in_progress", "completed", "failed"},
               assignee : Member \cup {None}, version : Nat]
At == {"poll", "list", "self", "next", "get", "claim", "work", "effect",
       "reread", "finish", "exited", "died"}
\* batch: the assignments of the last look at the mailbox (or, from "self",
\* the tasks of the last look at the list) that are still to be handled.
Thread == [at : At, from : {"self", "next"}, batch : SUBSET (Task \X (0..MaxAssigns)),
           task : Task \cup {None}, version : Nat, ok : BOOLEAN]

TypeOK ==
  /\ tasks \in [Task -> TaskRecord]
  /\ mail \in [Member -> SUBSET Message]
  /\ plan \in [Member -> [Task -> {"none", "pending", "allowed", "denied"}]]
  /\ thread \in [Member -> Thread]
  /\ roster \in [Member -> {"idle", "working", "waiting_approval", "failed", "stopped"}]
  /\ stopping \in [Member -> BOOLEAN]
  /\ lead \in {[call |-> "none"]} \cup [call : {"send"}, task : Task, member : Member]
              \cup [call : {"stop", "event", "join"}, member : Member]
  /\ spent \in [{"assigns", "updates", "timeouts"} -> Nat]

-----------------------------------------------------------------------------
Ready(store, t) == \A d \in Deps[t] : store[d].status = "completed"

\* update(): one task gets new fields and a new version, then the waiting
\* tasks are recomputed (TeamTasks!RefreshBlocked).
RefreshBlocked(store) ==
  [t \in Task |->
     LET ready == IF Ready(store, t) THEN "pending" ELSE "blocked"
     IN  IF store[t].status \in {"pending", "blocked"} /\ store[t].status # ready
         THEN [store[t] EXCEPT !.status = ready, !.version = @ + 1]
         ELSE store[t]]

Saved(t, assignee, status) ==
  RefreshBlocked([tasks EXCEPT ![t] = [status |-> status, assignee |-> assignee,
                                       version |-> @.version + 1]])

Alive(m) == thread[m].at \notin {"exited", "died"}
Go(m, at) == thread' = [thread EXCEPT ![m].at = at]
Die(m) == Go(m, "died")
Spend(what) ==
  /\ spent["assigns"] + spent["updates"] + spent["timeouts"] < MaxSpent
  /\ spent' = [spent EXCEPT ![what] = @ + 1]

Init ==
  /\ tasks = [t \in Task |-> [status |-> IF Deps[t] = {} THEN "pending" ELSE "blocked",
                              assignee |-> None, version |-> 1]]
  /\ mail = [m \in Member |-> {}]
  /\ plan = [m \in Member |-> [t \in Task |-> "none"]]
  /\ thread = [m \in Member |-> [at |-> "poll", from |-> "next", batch |-> {},
                                 task |-> None, version |-> 0, ok |-> FALSE]]
  /\ roster = [m \in Member |-> "idle"]
  /\ stopping = [m \in Member |-> FALSE]
  /\ lead = [call |-> "none"]
  /\ spent = [w \in {"assigns", "updates", "timeouts"} |-> 0]

-----------------------------------------------------------------------------
(* The lead *)

\* TeamManager.assign up to tasks.assign; the assignment message follows.
Assign(t, m) ==
  /\ lead.call = "none" /\ spent["assigns"] < MaxAssigns
  /\ tasks[t].status \in {"pending", "blocked"}
  /\ tasks' = Saved(t, m, tasks[t].status)
  /\ lead' = [call |-> "send", task |-> t, member |-> m]
  /\ Spend("assigns")
  /\ UNCHANGED <<mail, plan, thread, roster, stopping>>

SendAssignment ==
  /\ lead.call = "send"
  /\ mail' = [mail EXCEPT ![lead.member] = @ \cup {<<lead.task, spent["assigns"]>>}]
  /\ lead' = [call |-> "none"]
  /\ UNCHANGED <<tasks, plan, thread, roster, stopping, spent>>

\* The TeamTask tool: the lead's model, or a member's while it works, sets the
\* status of a task, say to have it retried, or claims one for a member.
\* (A word that is no status is refused, which changes nothing.)
SetStatus(t, s) ==
  /\ spent["updates"] < MaxUpdates
  /\ s = "in_progress" => Ready(tasks, t)
  /\ tasks' = Saved(t, tasks[t].assignee, s)
  /\ Spend("updates")
  /\ UNCHANGED <<mail, plan, thread, roster, stopping, lead>>

ModelClaim(t, m) ==
  /\ spent["updates"] < MaxUpdates
  /\ Ready(tasks, t)
  /\ tasks' = Saved(t, m, "in_progress")
  /\ Spend("updates")
  /\ UNCHANGED <<mail, plan, thread, roster, stopping, lead>>

\* ApprovalGate.decide: only a pending request can be decided.
Decide(m, t, decision) ==
  /\ lead.call = "none" /\ plan[m][t] = "pending"
  /\ plan' = [plan EXCEPT ![m][t] = decision]
  /\ UNCHANGED <<tasks, mail, thread, roster, stopping, lead, spent>>

\* The message of an assign or a stop cannot be sent in time.  The task stays
\* assigned; the member is not stopped and shown as failed.
SendTimeout ==
  /\ lead.call \in {"send", "stop"} /\ spent["timeouts"] < MaxTimeouts
  /\ lead' = [call |-> "none"]
  /\ roster' = IF lead.call = "stop"
                THEN [roster EXCEPT ![lead.member] = "failed"] ELSE roster
  /\ Spend("timeouts")
  /\ UNCHANGED <<tasks, mail, plan, thread, stopping>>

\* stop_member: the stop message, then the backend's stop event, then the
\* wait for the thread and the new roster status.
Stop(m) ==
  /\ lead.call = "none"
  /\ lead' = [call |-> "stop", member |-> m]
  /\ UNCHANGED <<tasks, mail, plan, thread, roster, stopping, spent>>

SendStop ==
  /\ lead.call = "stop"
  /\ mail' = [mail EXCEPT ![lead.member] = @ \cup {StopMessage}]
  /\ lead' = [call |-> "event", member |-> lead.member]
  /\ UNCHANGED <<tasks, plan, thread, roster, stopping, spent>>

StopBackend ==
  /\ lead.call = "event"
  /\ stopping' = [stopping EXCEPT ![lead.member] = TRUE]
  /\ lead' = [call |-> "join", member |-> lead.member]
  /\ UNCHANGED <<tasks, mail, plan, thread, roster, spent>>

\* handle.future.result(timeout): the thread ended, or the time is up.
Join ==
  /\ lead.call = "join"
  /\ \/ /\ ~ Alive(lead.member)
        /\ roster' = [roster EXCEPT ![lead.member] = "stopped"]
     \/ /\ Alive(lead.member)
        /\ roster' = [roster EXCEPT ![lead.member] = "failed"]
  /\ lead' = [call |-> "none"]
  /\ UNCHANGED <<tasks, mail, plan, thread, stopping, spent>>

-----------------------------------------------------------------------------
(* A member's thread: TeamMemberRunner.run *)

\* The head of the loop: the stop event, then one look at the mailbox.
Poll(m) ==
  /\ thread[m].at = "poll"
  /\ \/ /\ stopping[m]
        /\ Go(m, "exited")
        /\ UNCHANGED <<mail, stopping>>
     \/ /\ ~ stopping[m] /\ StopMessage \in mail[m]
        /\ mail' = [mail EXCEPT ![m] = @ \ {StopMessage}]
        /\ stopping' = [stopping EXCEPT ![m] = TRUE]
        /\ Go(m, "exited")
     \/ /\ ~ stopping[m] /\ StopMessage \notin mail[m]
        /\ thread' = [thread EXCEPT ![m].at = IF mail[m] = {} THEN "list" ELSE "next",
                                    ![m].batch = mail[m]]
        /\ UNCHANGED <<mail, stopping>>
  /\ UNCHANGED <<tasks, plan, roster, lead, spent>>

\* Mutant: a member does only what a message tells it to.
ListOwnNever(m) ==
  /\ thread[m].at = "list"
  /\ Go(m, "poll")
  /\ UNCHANGED <<tasks, mail, plan, roster, stopping, lead, spent>>

\* No assignment: one look at the task list for pending tasks of its own.
ListOwn(m) ==
  /\ thread[m].at = "list"
  /\ LET own == {t \in Task : tasks[t].assignee = m /\ tasks[t].status = "pending"}
     IN  thread' = [thread EXCEPT ![m].at = IF own = {} THEN "poll" ELSE "self",
                                  ![m].batch = own \X {0}]
  /\ UNCHANGED <<tasks, mail, plan, roster, stopping, lead, spent>>

\* A task found on the list is executed without asking for approval.
TakeOwn(m) ==
  /\ thread[m].at = "self"
  /\ \/ /\ thread[m].batch = {}
        /\ Go(m, "poll")
     \/ \E item \in thread[m].batch :
          thread' = [thread EXCEPT ![m].at = "get", ![m].from = "self",
                                   ![m].task = item[1], ![m].batch = @ \ {item}]
  /\ UNCHANGED <<tasks, mail, plan, roster, stopping, lead, spent>>

\* An assignment: a member that needs approval submits a plan, and skips the
\* message until it is allowed.
MayExecute(m, t) == m \notin Approval \/ plan[m][t] = "allowed"

NextMessage(m) ==
  /\ thread[m].at = "next"
  /\ \/ /\ stopping[m] \/ thread[m].batch = {}
        /\ Go(m, "poll")
        /\ UNCHANGED <<mail, plan, roster>>
     \/ /\ ~ stopping[m]
        /\ \E msg \in thread[m].batch :
             LET t == msg[1]
                 Handled == [thread EXCEPT ![m].batch = @ \ {msg}]
             IN  \/ /\ MayExecute(m, t)
                    /\ mail' = [mail EXCEPT ![m] = @ \ {msg}]
                    /\ thread' = [Handled EXCEPT ![m].at = "get", ![m].from = "next",
                                                 ![m].task = t]
                    /\ UNCHANGED <<plan, roster>>
                 \/ /\ ~ MayExecute(m, t) /\ plan[m][t] \in {"none", "denied"}
                    /\ plan' = [plan EXCEPT ![m][t] = "pending"]
                    /\ roster' = [roster EXCEPT ![m] = "waiting_approval"]
                    /\ thread' = Handled
                    /\ UNCHANGED mail
                 \/ /\ ~ MayExecute(m, t) /\ plan[m][t] = "pending"
                    /\ thread' = Handled
                    /\ UNCHANGED <<mail, plan, roster>>
  /\ UNCHANGED <<tasks, stopping, lead, spent>>

\* _execute: read the task, claim it at the version read.
GetTask(m) ==
  /\ thread[m].at = "get"
  /\ LET t == thread[m].task
     IN  IF tasks[t].status = "pending"
         THEN thread' = [thread EXCEPT ![m].at = "claim", ![m].version = tasks[t].version]
         ELSE thread' = [thread EXCEPT ![m].at = thread[m].from, ![m].task = None]
  /\ UNCHANGED <<tasks, mail, plan, roster, stopping, lead, spent>>

\* Mutant: claim leaves the assignee as it is.
ClaimTaskUnowned(m) ==
  /\ thread[m].at = "claim"
  /\ LET t == thread[m].task
     IN  \/ /\ tasks[t].version = thread[m].version
            /\ tasks' = Saved(t, tasks[t].assignee, "in_progress")
            /\ roster' = [roster EXCEPT ![m] = "working"]
            /\ Go(m, "work")
         \/ /\ tasks[t].version # thread[m].version
            /\ Die(m)
            /\ UNCHANGED <<tasks, roster>>
  /\ UNCHANGED <<mail, plan, stopping, lead, spent>>

ClaimTask(m) ==
  /\ thread[m].at = "claim"
  /\ LET t == thread[m].task
     IN  \/ /\ tasks[t].version = thread[m].version
            /\ tasks' = Saved(t, m, "in_progress")
            /\ roster' = [roster EXCEPT ![m] = "working"]
            /\ Go(m, "work")
         \/ /\ tasks[t].version # thread[m].version
            /\ Die(m)
            /\ UNCHANGED <<tasks, roster>>
  /\ UNCHANGED <<mail, plan, stopping, lead, spent>>

\* Mutant: the gate of the tool scope is left out.
StartEffectUngated(m) ==
  /\ thread[m].at = "work"
  /\ Go(m, "effect")
  /\ UNCHANGED <<tasks, mail, plan, roster, stopping, lead, spent>>

\* The executor: a tool with side effects passes the gate of the member's
\* tool scope first; the member may hand in a plan itself.
StartEffect(m) ==
  /\ thread[m].at = "work"
  /\ MayExecute(m, thread[m].task)
  /\ Go(m, "effect")
  /\ UNCHANGED <<tasks, mail, plan, roster, stopping, lead, spent>>

EndEffect(m) ==
  /\ thread[m].at = "effect"
  /\ Go(m, "work")
  /\ UNCHANGED <<tasks, mail, plan, roster, stopping, lead, spent>>

RequestPlan(m) ==
  /\ thread[m].at = "work" /\ m \in Approval
  /\ plan' = [plan EXCEPT ![m][thread[m].task] = "pending"]
  /\ UNCHANGED <<tasks, mail, thread, roster, stopping, lead, spent>>

EndWork(m, ok) ==
  /\ thread[m].at = "work"
  /\ thread' = [thread EXCEPT ![m].at = "reread", ![m].ok = ok]
  /\ UNCHANGED <<tasks, mail, plan, roster, stopping, lead, spent>>

\* The result is saved at the version the task has after the work.
Reread(m) ==
  /\ thread[m].at = "reread"
  /\ thread' = [thread EXCEPT ![m].at = "finish",
                              ![m].version = tasks[thread[m].task].version]
  /\ UNCHANGED <<tasks, mail, plan, roster, stopping, lead, spent>>

ResultSaved(m) ==
  LET t == thread[m].task
  IN  /\ tasks[t].version = thread[m].version
      /\ tasks' = Saved(t, tasks[t].assignee,
                        IF thread[m].ok THEN "completed" ELSE "failed")

FinishTask(m) ==
  /\ thread[m].at = "finish"
  /\ \/ /\ ResultSaved(m)
        /\ roster' = [roster EXCEPT ![m] = "idle"]
        /\ thread' = [thread EXCEPT ![m].at = thread[m].from, ![m].task = None]
     \/ /\ tasks[thread[m].task].version # thread[m].version
        /\ Die(m)
        /\ UNCHANGED <<tasks, roster>>
  /\ UNCHANGED <<mail, plan, stopping, lead, spent>>

\* A store call that writes fails to get its lock in time: the first one of
\* the step, or the message to the lead after a plan or a result was saved.
LockTimeout(m) ==
  /\ thread[m].at \in {"next", "claim", "finish"}
  /\ thread[m].at = "next" => thread[m].batch # {} /\ ~ stopping[m]
  /\ spent["timeouts"] < MaxTimeouts
  /\ Spend("timeouts")
  /\ Die(m)
  /\ \/ UNCHANGED <<tasks, plan>>
     \/ /\ thread[m].at = "finish" /\ ResultSaved(m)
        /\ UNCHANGED plan
     \/ /\ thread[m].at = "next"
        /\ \E msg \in thread[m].batch :
             /\ ~ MayExecute(m, msg[1]) /\ plan[m][msg[1]] # "pending"
             /\ plan' = [plan EXCEPT ![m][msg[1]] = "pending"]
        /\ UNCHANGED tasks
  /\ UNCHANGED <<mail, roster, stopping, lead>>

-----------------------------------------------------------------------------
Lead == \/ \E t \in Task, m \in Member : Assign(t, m)
        \/ SendAssignment
        \/ \E t \in Task, s \in {"pending", "failed"} : SetStatus(t, s)
        \/ \E t \in Task, m \in Member : ModelClaim(t, m)
        \/ \E m \in Member, t \in Task, d \in {"allowed", "denied"} : Decide(m, t, d)
        \/ \E m \in Member : Stop(m)
        \/ SendStop
        \/ StopBackend
        \/ SendTimeout
        \/ Join

\* The steps the scheduler and the end of the model's answers bring about.
Loop(m) == \/ Poll(m) \/ ListOwn(m) \/ TakeOwn(m) \/ NextMessage(m)
           \/ GetTask(m) \/ ClaimTask(m) \/ EndEffect(m) \/ Reread(m)
           \/ FinishTask(m)
Finishing(m) == \E ok \in BOOLEAN : EndWork(m, ok)

Next == \/ Lead
        \/ \E m \in Member : \/ Loop(m) \/ Finishing(m)
                             \/ StartEffect(m) \/ RequestPlan(m) \/ LockTimeout(m)

\* Member threads are scheduled, an assignment of tools and answers ends
\* after max_iterations rounds at the latest, and the lead's calls end; that
\* the lead assigns, decides or stops is up to the model behind it.
Fairness ==
  /\ \A m \in Member : WF_vars(Loop(m)) /\ SF_vars(Finishing(m))
  /\ WF_vars(SendAssignment) /\ WF_vars(SendStop) /\ WF_vars(StopBackend) /\ WF_vars(Join)

Spec == Init /\ [][Next]_vars /\ Fairness

-----------------------------------------------------------------------------
(* Properties *)

Executing(m) == thread[m].at \in {"work", "effect", "reread", "finish"}

\* Without status changes by the lead, whoever works on a task is the assignee
\* of the task in progress, however often it is reassigned while members read,
\* claim and finish: one member works on it, and its result is never saved
\* over somebody else's work.
ResultIsAssignees ==
  spent["updates"] = 0 =>
    \A m \in Member : Executing(m) =>
      /\ tasks[thread[m].task].status = "in_progress"
      /\ tasks[thread[m].task].assignee = m

\* A member that needs approval is inside a tool with side effects only
\* while its last plan for the task is allowed, whatever the lead decides
\* and the member requests meanwhile, self-taken tasks included.
EffectsApproved ==
  \A m \in Approval :
    thread[m].at = "effect" => plan[m][thread[m].task] = "allowed"

\* A task waiting for a member whose thread stays alive and is not asked to
\* stop is worked off, for members without approval and as long as no model
\* sets statuses (a model's claim takes a task away from the loop).
AssignedIsDone ==
  \A t \in Task, m \in Member \ Approval :
    (tasks[t].assignee = m /\ tasks[t].status = "pending") ~>
      \/ tasks[t].status \in {"completed", "failed"}
      \/ tasks[t].assignee # m \/ spent["updates"] > 0
      \/ ~ Alive(m) \/ stopping[m] \/ StopMessage \in mail[m]

\* specs/016-agent-team/spec.md:88 (a member marked for approval must submit
\* a plan first): refuted, a task found on the list is executed at once.
PlanBeforeWork ==
  \A m \in Approval : Executing(m) => plan[m][thread[m].task] # "none"

\* specs/016-agent-team/spec.md:229 (the lead can see that a member failed):
\* refuted, a store error ends the thread and the roster stays as it was,
\* for ever unless the lead stops the member by chance.
FailureIsVisible ==
  \A m \in Member : thread[m].at = "died" ~> roster[m] \in {"failed", "stopped"}

\* specs/016-agent-team/spec.md:66 (no silent overwriting when several
\* members update): refuted, a member saves its result at the version it
\* reads after the work, over a task that was given to another meanwhile.
NoForeignResult ==
  [][\A m \in Member, t \in Task :
       (FinishTask(m) /\ thread[m].task = t) =>
         (tasks'[t].status = tasks[t].status \/ tasks[t].assignee = m)]_vars
=============================================================================
