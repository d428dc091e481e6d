------------------------------ MODULE Worktrees ------------------------------
(* Isolated working directories (huicode/worktrees) of subagents             *)
(* (huicode/subagents/runner.py): made before a task, left and removed after *)
(* it unless it failed or left work in it, while a thread removes old ones   *)
(* and the process may die.  Git is external: it refuses to remove a         *)
(* directory with changes, deletes any branch, and counts the commits of     *)
(* HEAD, which the agent may have moved away from its branch.                *)
EXTENDS Naturals, FiniteSets

CONSTANTS TreeTask,
          Cleaner,      \* the clean-up thread
          MaxTreeDeaths \* bound: deaths of the process
ASSUME CleanerAssumption == Cleaner \notin TreeTask

VARIABLES
  tree,       \* directory, manifest, changes, commits of the branch not pushed, where
              \* HEAD is (its branch, commits of its own, or none that count), age, status
  phase,      \* where the runner of each task is
  verdict,    \* the status its run ended with
  removing,   \* what runner or cleaner is removing, and the checks it has made
  lost,       \* history: tasks with unpushed commits that are gone
  dropped,    \* history: tasks whose failed or cancelled directory is gone
  strayed,    \* history: tasks whose agent moved HEAD off unpushed commits
  raced,      \* history: tasks the cleaner worked on while they were in use
  treeDeaths

treeVars == <<tree, phase, verdict, removing, lost, dropped, strayed, raced, treeDeaths>>

NoTree == [exists |-> FALSE, manifest |-> FALSE, dirty |-> FALSE, ahead |-> FALSE,
           head |-> "branch", old |-> FALSE, status |-> ""]
HeadAt == {"branch", "commits", "nowhere"}
Retained == {"failed", "cancelled"}
NoRemoval == [task |-> "", step |-> "none"]
BusyPhases == {"waiting", "creating", "prepared", "inside", "left"}
InUse(t) == phase[t] \in BusyPhases \ {"waiting"}

TreesTypeOK ==
  /\ \A t \in TreeTask : /\ tree[t].status \in {"", "completed", "failed", "cancelled"}
                     /\ phase[t] \in BusyPhases \cup {"removing", "over"}
                     /\ tree[t].head \in HeadAt
  /\ lost \cup dropped \cup strayed \cup raced \subseteq TreeTask

TreesInit ==
  /\ tree = [t \in TreeTask |-> NoTree] /\ phase = [t \in TreeTask |-> "waiting"]
  /\ verdict = [t \in TreeTask |-> ""] /\ removing = [a \in TreeTask \cup {Cleaner} |-> NoRemoval]
  /\ lost = {} /\ dropped = {} /\ strayed = {} /\ raced = {} /\ treeDeaths = 0

PhaseTo(t, to) == phase' = [phase EXCEPT ![t] = to]
SetTree(t, new) == tree' = [tree EXCEPT ![t] = new]
RacedWith(t) == IF removing[Cleaner].task = t THEN raced \cup {t} ELSE raced

-----------------------------------------------------------------------------
(* WorktreeManager.prepare and enter *)

MakeTree(t) ==
  /\ phase[t] = "waiting" /\ ~ tree[t].exists
  /\ SetTree(t, [NoTree EXCEPT !.exists = TRUE])
  /\ PhaseTo(t, "creating")
  /\ UNCHANGED <<verdict, removing, lost, dropped, strayed, raced, treeDeaths>>

\* The manifest is the last thing the initializer writes.
InitTree(t) ==
  /\ phase[t] = "creating"
  /\ SetTree(t, [tree[t] EXCEPT !.manifest = TRUE])
  /\ PhaseTo(t, "prepared")
  /\ UNCHANGED <<verdict, removing, lost, dropped, strayed, raced, treeDeaths>>

\* rollback_create may fail too, and leave a directory without a manifest.
InitTreeFails(t) ==
  /\ phase[t] = "creating"
  /\ \/ SetTree(t, NoTree)
     \/ UNCHANGED tree
  /\ PhaseTo(t, "over")
  /\ UNCHANGED <<verdict, removing, lost, dropped, strayed, raced, treeDeaths>>

\* A directory that is there is taken over if its manifest fits.
RecoverTree(t) ==
  /\ phase[t] = "waiting" /\ tree[t].exists
  /\ PhaseTo(t, IF tree[t].manifest THEN "prepared" ELSE "over")
  /\ raced' = RacedWith(t)
  /\ UNCHANGED <<tree, verdict, removing, lost, dropped, strayed, treeDeaths>>

\* The manifest is validated once more; without it the run has failed.
EnterTree(t) ==
  /\ phase[t] = "prepared"
  /\ PhaseTo(t, IF tree[t].manifest THEN "inside" ELSE "over")
  /\ UNCHANGED <<tree, verdict, removing, lost, dropped, strayed, raced, treeDeaths>>

-----------------------------------------------------------------------------
(* The child agent at work *)

\* A commit goes to the branch only while HEAD is on it.
AgentEdits(t) ==
  /\ phase[t] = "inside" /\ tree[t].exists
  /\ \/ SetTree(t, [tree[t] EXCEPT !.dirty = TRUE])
     \/ /\ tree[t].dirty /\ tree[t].head = "branch"
        /\ SetTree(t, [tree[t] EXCEPT !.dirty = FALSE, !.ahead = TRUE])
     \/ /\ tree[t].dirty /\ tree[t].head # "branch"
        /\ SetTree(t, [tree[t] EXCEPT !.dirty = FALSE, !.head = "commits"])
     \/ SetTree(t, [tree[t] EXCEPT !.ahead = FALSE])
  /\ UNCHANGED <<phase, verdict, removing, lost, dropped, strayed, raced, treeDeaths>>

\* git checkout, by the agent's commands: nothing holds HEAD to the branch.
AgentMovesHead(t, at) ==
  /\ phase[t] = "inside" /\ tree[t].exists /\ at # tree[t].head
  /\ SetTree(t, [tree[t] EXCEPT !.head = at])
  /\ strayed' = IF tree[t].ahead THEN strayed \cup {t} ELSE strayed
  /\ UNCHANGED <<phase, verdict, removing, lost, dropped, raced, treeDeaths>>

\* manager.exit
LeaveTree(t, status) ==
  /\ phase[t] = "inside"
  /\ verdict' = [verdict EXCEPT ![t] = status]
  /\ PhaseTo(t, "left")
  /\ UNCHANGED <<tree, removing, lost, dropped, strayed, raced, treeDeaths>>

\* finalize: the final status goes to the manifest, if there still is one, and
\* only a completed task's directory is removed.
FinalizeTree(t) ==
  /\ phase[t] = "left"
  /\ LET removes == verdict[t] = "completed" /\ tree[t].manifest IN
       /\ tree' = IF tree[t].manifest THEN [tree EXCEPT ![t].status = verdict[t]] ELSE tree
       /\ PhaseTo(t, IF removes THEN "removing" ELSE "over")
       /\ removing' = IF removes THEN [removing EXCEPT ![t] = [task |-> t, step |-> "dirty"]]
                                 ELSE removing
  /\ UNCHANGED <<verdict, lost, dropped, strayed, raced, treeDeaths>>

-----------------------------------------------------------------------------
(* remove, one git command at a time, by the runner or by the cleaner.       *)

StopRemoving(actor) ==
  /\ removing' = [removing EXCEPT ![actor] = NoRemoval]
  /\ phase' = IF actor \in TreeTask THEN [phase EXCEPT ![actor] = "over"] ELSE phase
IsRemoving(actor, step) == removing[actor].step = step /\ removing[actor].task \in TreeTask

\* _validate_for_delete and is_dirty
CheckDirty(actor) == IsRemoving(actor, "dirty") /\ LET t == removing[actor].task IN
  /\ IF ~ tree[t].manifest \/ tree[t].dirty THEN StopRemoving(actor)
     ELSE removing' = [removing EXCEPT ![actor].step = "unpushed"] /\ UNCHANGED phase
  /\ tree' = IF tree[t].manifest /\ tree[t].dirty
             THEN [tree EXCEPT ![t].status = "completed"] ELSE tree
  /\ UNCHANGED <<verdict, lost, dropped, strayed, raced, treeDeaths>>

\* Mutant: commits are not asked for.
CheckNothing(actor) == IsRemoving(actor, "unpushed") /\ LET t == removing[actor].task IN
  /\ removing' = [removing EXCEPT ![actor].step = "remove"]
  /\ UNCHANGED <<tree, phase, verdict, lost, dropped, strayed, raced, treeDeaths>>

\* has_unpushed: the commits HEAD has, not those of the branch
Unpushed(t) == IF tree[t].head = "branch" THEN tree[t].ahead ELSE tree[t].head = "commits"
CheckUnpushed(actor) == IsRemoving(actor, "unpushed") /\ LET t == removing[actor].task IN
  /\ IF ~ tree[t].exists \/ Unpushed(t) THEN StopRemoving(actor)
     ELSE removing' = [removing EXCEPT ![actor].step = "remove"] /\ UNCHANGED phase
  /\ tree' = IF tree[t].exists /\ Unpushed(t)
             THEN [tree EXCEPT ![t].status = "completed"] ELSE tree
  /\ UNCHANGED <<verdict, lost, dropped, strayed, raced, treeDeaths>>

\* git worktree remove, git branch -D: commits of a HEAD elsewhere go as well.
RemoveTree(actor) == IsRemoving(actor, "remove") /\ LET t == removing[actor].task IN
  /\ IF tree[t].exists /\ ~ tree[t].dirty
     THEN /\ SetTree(t, NoTree)
          /\ lost' = IF tree[t].ahead \/ tree[t].head = "commits" THEN lost \cup {t} ELSE lost
          /\ dropped' = IF tree[t].status \in Retained THEN dropped \cup {t} ELSE dropped
     ELSE UNCHANGED <<tree, lost, dropped>>
  /\ StopRemoving(actor)
  /\ UNCHANGED <<verdict, strayed, raced, treeDeaths>>

-----------------------------------------------------------------------------
(* WorktreeCleanupService.scan_once looks at one directory after the other;  *)
(* that somebody has entered it is not asked.                                *)

TreeAges(t) ==
  /\ tree[t].exists /\ ~ tree[t].old
  /\ SetTree(t, [tree[t] EXCEPT !.old = TRUE])
  /\ UNCHANGED <<phase, verdict, removing, lost, dropped, strayed, raced, treeDeaths>>

CleanerPicks(t) ==
  /\ removing[Cleaner] = NoRemoval
  /\ tree[t].manifest /\ tree[t].old /\ tree[t].status \notin Retained
  /\ removing' = [removing EXCEPT ![Cleaner] = [task |-> t, step |-> "dirty"]]
  /\ raced' = IF InUse(t) THEN raced \cup {t} ELSE raced
  /\ UNCHANGED <<tree, phase, verdict, lost, dropped, strayed, treeDeaths>>

\* The process dies; a team resumes with the task ids it had.
TreesProcessDies ==
  /\ treeDeaths < MaxTreeDeaths /\ treeDeaths' = treeDeaths + 1
  /\ phase' = [t \in TreeTask |-> IF phase[t] = "over" THEN "over" ELSE "waiting"]
  /\ removing' = [a \in TreeTask \cup {Cleaner} |-> NoRemoval]
  /\ UNCHANGED <<tree, verdict, lost, dropped, strayed, raced>>

TreesNext ==
  \/ TreesProcessDies
  \/ \E a \in TreeTask \cup {Cleaner} : CheckDirty(a) \/ CheckUnpushed(a) \/ RemoveTree(a)
  \/ \E t \in TreeTask :
       \/ MakeTree(t) \/ InitTree(t) \/ InitTreeFails(t) \/ RecoverTree(t) \/ EnterTree(t)
       \/ AgentEdits(t) \/ FinalizeTree(t) \/ TreeAges(t) \/ CleanerPicks(t)
       \/ \E at \in HeadAt : AgentMovesHead(t, at)
       \/ \E status \in {"completed", "failed", "cancelled"} : LeaveTree(t, status)

TreesSpec == TreesInit /\ [][TreesNext]_treeVars

-----------------------------------------------------------------------------
(* Properties *)

\* Not so: the cleaner removes an old, clean directory under its agent.
UsedTreeIsKept == \A t \in TreeTask : phase[t] = "inside" => tree[t].exists

\* Not so, even when the cleaner met nobody: a commit stays on the branch, HEAD
\* is moved elsewhere, nothing is counted, and the branch is deleted.
CommitsAreKept == lost \subseteq raced

\* specs/015 F7-F9: unless the cleaner met a task in use, no commit that was not
\* pushed is destroyed unless its agent had moved HEAD away from it, nor is the
\* directory of a task marked as failed or cancelled, through deaths and
\* recoveries too, and an agent inside has one.
WorkIsKept == \A t \in TreeTask \ raced :
  /\ t \in lost => t \in strayed
  /\ t \notin dropped
  /\ phase[t] = "inside" => tree[t].exists /\ tree[t].manifest
=============================================================================
