------------------------------ MODULE TeamTasks ------------------------------
(***************************************************************************)
(* The shared task list of an agent team (huicode/teams/tasks.py).         *)
(*                                                                         *)
(* The list is one JSON snapshot.  Reads take no lock.  create, update and *)
(* delete load the snapshot, validate the call, recompute the blocked      *)
(* tasks and save, all under the "tasks" lock: here each of them is one    *)
(* step (FileLock says what that lock gives).  A caller reads a task       *)
(* first and passes the version it saw: between the read and the call any  *)
(* other caller may have changed the list.  A call that is refused raises an *)
(* error and changes nothing: the error operators below name the code and  *)
(* the order of the checks, and the actions are the calls that go through. *)
(***************************************************************************)
EXTENDS Naturals, FiniteSets

CONSTANTS
  Task,        \* task identifiers; new_id never returns one twice
  Lead,        \* the lead's name
  Member,      \* the names of the team's members
  None,        \* "no assignee" and "nothing read yet"
  MaxVersion   \* bound: no call is made once some task has this version

ASSUME NamesAssumption == None \notin Task \cup Member \cup {Lead}
ASSUME BoundAssumption == MaxVersion \in Nat

VARIABLES
  tasks,    \* the saved snapshot: a record for every existing task
  used,     \* the identifiers handed out so far
  seen      \* per caller: the task it read last, its record at that time

vars == <<tasks, used, seen>>

Caller == Member \cup {Lead}
Status == {"pending", "blocked", "in_progress", "completed", "failed"}
TaskRecord == [status : Status, assignee : Member \cup {None},
               deps : SUBSET Task, version : Nat]
Reading == [id : Task, task : TaskRecord]

TypeOK ==
  /\ used \subseteq Task
  /\ tasks \in [DOMAIN tasks -> TaskRecord] /\ DOMAIN tasks \subseteq used
  /\ seen \in [Caller -> Reading \cup {None}]

-----------------------------------------------------------------------------
\* _dependencies_complete: every listed dependency exists and is completed.
DependenciesComplete(store, deps) ==
  \A d \in deps : d \in DOMAIN store /\ store[d].status = "completed"

\* What the depth-first search of _validate_dependencies looks for, stated
\* without the search: every non-empty set of tasks has a member that
\* depends on no task of the set.  (DependencySearch models the search.)
Acyclic(graph) ==
  \A S \in SUBSET DOMAIN graph :
    S # {} => \E t \in S : graph[t] \cap S = {}

DependencyGraph(store) == [t \in DOMAIN store |-> store[t].deps]

\* Mutant: the search runs over the dependencies as they were.
DependencyErrorOldGraph(store, t, deps) ==
  IF t \in deps \/ ~ deps \subseteq DOMAIN store THEN "invalid_dependency"
  ELSE IF ~ Acyclic(DependencyGraph(store)) THEN "dependency_cycle"
  ELSE "ok"

\* The error _validate_dependencies raises for task t (None on creation)
\* that is to get the dependencies deps, or "ok".
DependencyError(store, t, deps) ==
  IF t \in deps \/ ~ deps \subseteq DOMAIN store THEN "invalid_dependency"
  ELSE IF ~ Acyclic([DependencyGraph(store) EXCEPT ![t] = deps]) THEN "dependency_cycle"
  ELSE "ok"

\* replace(task, status=..., version=version + 1).
WithStatus(r, s) == [r EXCEPT !.status = s, !.version = @ + 1]

\* Mutants: the snapshot is saved as it is; the status follows and the
\* version does not.
RefreshBlockedNever(store) == store
RefreshBlockedQuietly(store) ==
  [t \in DOMAIN store |->
     IF store[t].status \in {"pending", "blocked"}
     THEN [store[t] EXCEPT !.status =
             IF DependenciesComplete(store, store[t].deps) THEN "pending" ELSE "blocked"]
     ELSE store[t]]

\* _refresh_blocked: pending and blocked follow the dependencies, and the
\* version moves when the status does.  Statuses are those of `store`.
RefreshBlocked(store) ==
  [t \in DOMAIN store |->
     LET ready == IF DependenciesComplete(store, store[t].deps)
                  THEN "pending" ELSE "blocked"
     IN  IF store[t].status \in {"pending", "blocked"} /\ store[t].status # ready
         THEN WithStatus(store[t], ready)
         ELSE store[t]]

\* What a call to update() sets; None keeps the task's present value.  The
\* status is what a model wrote, which need not be one.
Patch == [assignee : Member \cup {None}, status : Status \cup {"other", None},
          deps : (SUBSET Task) \cup {None}]
Keep == [assignee |-> None, status |-> None, deps |-> None]

\* Mutant: update() saves the fields under the version it found.
PatchedSameVersion(r, patch) ==
  [r EXCEPT !.assignee = IF patch.assignee = None THEN @ ELSE patch.assignee,
            !.status = IF patch.status = None THEN @ ELSE patch.status,
            !.deps = IF patch.deps = None THEN @ ELSE patch.deps]

Patched(r, patch) ==
  [r EXCEPT !.assignee = IF patch.assignee = None THEN @ ELSE patch.assignee,
            !.status = IF patch.status = None THEN @ ELSE patch.status,
            !.deps = IF patch.deps = None THEN @ ELSE patch.deps,
            !.version = @ + 1]

\* The error update() raises, in the order it checks, or "ok".
UpdateError(t, expected, patch) ==
  IF t \notin DOMAIN tasks THEN "unknown_task"
  ELSE LET next == Patched(tasks[t], patch)
           invalid == DependencyError(tasks, t, next.deps)
       IN  IF tasks[t].version # expected THEN "task_conflict"
           ELSE IF invalid # "ok" THEN invalid
           ELSE IF next.status \notin Status THEN "invalid_task_status"
           ELSE IF /\ next.status = "in_progress"
                   /\ ~ DependenciesComplete(tasks, next.deps) THEN "task_blocked"
           ELSE "ok"

\* The snapshot update() saves.
Updated(t, patch) ==
  RefreshBlocked([tasks EXCEPT ![t] = Patched(@, patch)])

BelowBound == \A t \in DOMAIN tasks : tasks[t].version < MaxVersion

-----------------------------------------------------------------------------
Init ==
  /\ tasks = [t \in {} |-> None]
  /\ used = {}
  /\ seen = [c \in Caller |-> None]

\* get() or list(): an unlocked read of the snapshot.
Read(c, t) ==
  /\ t \in DOMAIN tasks
  /\ seen' = [seen EXCEPT ![c] = [id |-> t, task |-> tasks[t]]]
  /\ UNCHANGED <<tasks, used>>

\* create(): only the lead's tool scope lets it through.  The status looks
\* at whether there are dependencies, not at whether they are completed, and
\* nothing is refreshed.
CreateError(deps) ==
  IF ~ deps \subseteq DOMAIN tasks THEN "invalid_dependency"
  ELSE IF ~ Acyclic(DependencyGraph(tasks)) THEN "dependency_cycle"
  ELSE "ok"

NewTask(deps) ==
  [status |-> IF deps = {} THEN "pending" ELSE "blocked",
   assignee |-> None, deps |-> deps, version |-> 1]

Create(t, deps) ==
  /\ t \notin used
  /\ CreateError(deps) = "ok"
  /\ used' = used \cup {t}
  /\ tasks' = [u \in DOMAIN tasks \cup {t} |->
                IF u = t THEN NewTask(deps) ELSE tasks[u]]
  /\ UNCHANGED seen

\* update() by caller c, with the version of what c read.
Update(c, patch) ==
  /\ seen[c] # None
  /\ BelowBound
  /\ UpdateError(seen[c].id, seen[c].task.version, patch) = "ok"
  /\ tasks' = Updated(seen[c].id, patch)
  /\ UNCHANGED <<used, seen>>

\* The TeamTask tool lets the lead and the members set a status, or (None) only
\* the summary, which is left out, and the version.
SetStatus(c, s) == Update(c, [Keep EXCEPT !.status = s])

SetDependencies(deps) == Update(Lead, [Keep EXCEPT !.deps = deps])

\* claim(): a member for itself, the lead for any member.
Claim(c, m) ==
  /\ c \in {m, Lead}
  /\ Update(c, [Keep EXCEPT !.assignee = m, !.status = "in_progress"])

\* assign(): refuses what was not pending or blocked when it was read.
Assign(m) ==
  /\ seen[Lead] # None
  /\ seen[Lead].task.status \in {"pending", "blocked"}
  /\ Update(Lead, [Keep EXCEPT !.assignee = m])

\* delete(): only the lead's tool scope lets it through.
DeleteError(t, expected) ==
  IF t \notin DOMAIN tasks THEN "unknown_task"
  ELSE IF tasks[t].version # expected THEN "task_conflict"
  ELSE IF \/ tasks[t].status = "in_progress"
          \/ \E u \in DOMAIN tasks : t \in tasks[u].deps THEN "task_protected"
  ELSE "ok"

Delete ==
  /\ seen[Lead] # None
  /\ DeleteError(seen[Lead].id, seen[Lead].task.version) = "ok"
  /\ tasks' = [u \in DOMAIN tasks \ {seen[Lead].id} |-> tasks[u]]
  /\ UNCHANGED <<used, seen>>

Next ==
  \/ \E c \in Caller, t \in Task : Read(c, t)
  \/ \E t \in Task, deps \in SUBSET Task : Create(t, deps)
  \/ \E c \in Caller, s \in Status \cup {"other", None} : SetStatus(c, s)
  \/ \E deps \in SUBSET Task : SetDependencies(deps)
  \/ \E c \in Caller, m \in Member : Claim(c, m)
  \/ \E m \in Member : Assign(m)
  \/ Delete

Spec == Init /\ [][Next]_vars

-----------------------------------------------------------------------------
(* Properties *)

\* Whatever callers do in whatever order, a listed dependency exists: delete
\* refuses a task others depend on and nothing else removes one.
DependenciesExist ==
  \A t \in DOMAIN tasks : tasks[t].deps \subseteq DOMAIN tasks

\* Dependencies never close a cycle, across creations, changed dependencies
\* and deletions by callers that race.
DependenciesAcyclic == Acyclic(DependencyGraph(tasks))

\* A task waiting to be picked up has all its dependencies completed, also
\* when a completed dependency is reopened or dependencies are changed.
PendingIsReady ==
  \A t \in DOMAIN tasks :
    tasks[t].status = "pending" => DependenciesComplete(tasks, tasks[t].deps)

\* The optimistic version tells every change: a caller whose version still
\* matches has seen the task exactly as it is now, so what a successful
\* update replaces is what its caller read (no silent overwrite).
VersionTellsChange ==
  \A c \in Caller :
    (seen[c] # None /\ seen[c].id \in DOMAIN tasks) =>
      /\ seen[c].task.version <= tasks[seen[c].id].version
      /\ seen[c].task.version = tasks[seen[c].id].version
           => seen[c].task = tasks[seen[c].id]

\* No step changes a task it leaves in the list without raising its
\* version, whichever task the call was about.
VersionRises ==
  [][\A t \in DOMAIN tasks \cap DOMAIN tasks' :
       tasks'[t] # tasks[t] => tasks'[t].version > tasks[t].version]_vars

\* specs/016-agent-team/spec.md:64 (a task with unfinished dependencies must
\* not be executing): refuted, a completed dependency can be reopened.
RunningIsReady ==
  \A t \in DOMAIN tasks :
    tasks[t].status = "in_progress" => DependenciesComplete(tasks, tasks[t].deps)

\* specs/016-agent-team/plan.md:145 (blocked is recomputed after every
\* change): refuted, create() does not recompute it.
BlockedIsWaiting ==
  \A t \in DOMAIN tasks :
    tasks[t].status = "blocked" => ~ DependenciesComplete(tasks, tasks[t].deps)
=============================================================================
