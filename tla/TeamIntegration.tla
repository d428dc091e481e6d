--------------------------- MODULE TeamIntegration ---------------------------
(* Integration of the members' branches (huicode/teams/integration.py) and   *)
(* the shared baseline of task files (huicode/teams/manager.py).  Git is     *)
(* external: a commit is the set of changes its history has, so an ancestor  *)
(* is a subset and a merge a union.  The user works in the main directory    *)
(* meanwhile, and has files there that git does not track.  A call that      *)
(* removes or writes such a file, and git itself, may raise.                 *)
EXTENDS Naturals, Sequences, FiniteSets, TLC

CONSTANTS Branches,       \* the members with a branch, in the roster's order
          UserFile,       \* the user's files that tasks name
          MaxUserSteps,   \* bound: what the user does
          MaxAttempts     \* bound: integrations started

VARIABLES
  head,        \* commit of the user's directory: the target branch or another
  target,      \* the target branch
  onTarget,    \* whether the user's directory has the target branch checked out
  userDirty,   \* uncommitted changes of tracked files there
  userFile,    \* each: untracked, changed since it was listed, tracked; gone while
               \* publish merges, and lost if what it merged is without the file
  baseline,    \* baseline.json: the files it lists
  branch,      \* branches of the members spawned so far
  idle,        \* members whose status is idle or stopped
  integ,       \* branch of the integration worktree
  conflict,    \* its directory: clean, unmerged files, or resolved but uncommitted
  record,      \* IntegrationManager.record
  publishing,  \* the step of publish
  backups,     \* the files whose text publish holds
  checked,     \* history: the commit the checks passed on
  died,     \* history: the process died while publishing
  unfinished,      \* history: publish was ended by an error while files were gone
  userSteps, attempts

integVars == <<head, target, onTarget, userDirty, userFile, baseline, branch, idle, integ,
               conflict, record, publishing, backups, checked, died, unfinished, userSteps,
               attempts>>
userVars == <<head, target, onTarget, userDirty, userFile, baseline, userSteps>>
teamVars == <<branch, idle>>
publishVars == <<publishing, backups, died, unfinished>>
attemptVars == <<integ, conflict, record, publishVars, checked, attempts>>

Spawned == DOMAIN branch
NoRecord == [status |-> "none", branches |-> <<>>, merged |-> 0, expected |-> {}, before |-> {}]

IntegTypeOK ==
  /\ userFile \in [UserFile -> {"untracked", "changed", "tracked", "gone", "lost"}]
  /\ baseline \subseteq UserFile /\ backups \subseteq UserFile
  /\ conflict \in {"clean", "unmerged", "uncommitted"}
  /\ record.status \in {"none", "merging", "conflicted", "checking", "ready", "aborted", "published"}
  /\ record.merged <= Len(record.branches)
  /\ publishing \in {"no", "read", "release", "merge", "restore"}

IntegInit ==
  /\ head = {} /\ target = {} /\ onTarget = TRUE /\ userDirty = FALSE
  /\ userFile = [f \in UserFile |-> "untracked"] /\ baseline = {}
  /\ branch = <<>> /\ idle = {} /\ integ = {} /\ conflict = "clean" /\ record = NoRecord
  /\ publishing = "no" /\ backups = {} /\ checked = {} /\ died = FALSE /\ unfinished = FALSE
  /\ userSteps = 0 /\ attempts = 0

-----------------------------------------------------------------------------
(* Members: their worktrees start at the commit of the user's directory.     *)

SpawnBranch(m) ==
  /\ m \notin Spawned
  /\ branch' = (m :> head) @@ branch
  /\ idle' = idle \cup {m}
  /\ UNCHANGED <<userVars, attemptVars>>

MemberCommits(m) ==
  /\ m \in Spawned /\ m \notin branch[m]
  /\ branch' = [branch EXCEPT ![m] = @ \cup {m}]
  /\ UNCHANGED <<idle, userVars, attemptVars>>

\* Status working, or failed, or idle again.
MemberTurns(m) ==
  /\ m \in Spawned
  /\ idle' = IF m \in idle THEN idle \ {m} ELSE idle \cup {m}
  /\ UNCHANGED <<branch, userVars, attemptVars>>

\* assign, of a task that names files: they are committed on top of the commit
\* all members are at; members that have parted make the assignment fail.
PrepareBaseline(files) ==
  /\ Spawned # {} /\ \A f \in files : userFile[f] \in {"untracked", "changed"}
  /\ \E m \in Spawned : ~ files \subseteq branch[m]
  /\ \A m, n \in Spawned : branch[m] = branch[n]
  /\ branch' = [m \in Spawned |-> branch[m] \cup files]
  /\ baseline' = baseline \cup files
  /\ userFile' = [f \in UserFile |-> IF f \in files THEN "untracked" ELSE userFile[f]]
  /\ UNCHANGED <<head, target, onTarget, userDirty, userSteps, idle, attemptVars>>

-----------------------------------------------------------------------------
(* The user, who leaves the files and the branch alone while publish runs.   *)

UserActs ==
  /\ userSteps < MaxUserSteps /\ userSteps' = userSteps + 1
  /\ \/ /\ "user" \notin head
        /\ head' = head \cup {"user"}
        /\ target' = IF onTarget THEN head' ELSE target
        /\ UNCHANGED <<onTarget, userDirty, userFile>>
     \/ /\ userDirty' = ~ userDirty
        /\ UNCHANGED <<head, target, onTarget, userFile>>
     \/ /\ publishing = "no"
        /\ \E f \in UserFile : /\ userFile[f] = "untracked"
                              /\ userFile' = [userFile EXCEPT ![f] = "changed"]
        /\ UNCHANGED <<head, target, onTarget, userDirty>>
     \/ /\ publishing = "no" /\ \A f \in UserFile : userFile[f] # "tracked"
        /\ onTarget' = ~ onTarget
        /\ head' = IF onTarget THEN target \cup {"other"} ELSE target
        /\ UNCHANGED <<target, userDirty, userFile>>
  /\ UNCHANGED <<baseline, teamVars, attemptVars>>

-----------------------------------------------------------------------------
(* start and continue_after_resolution: the remaining branches one by one,   *)
(* then the checks.                                                          *)

StartIntegration ==
  /\ publishing = "no" /\ attempts < MaxAttempts /\ attempts' = attempts + 1
  /\ LET inputs == SelectSeq(Branches, LAMBDA m : m \in Spawned \cap idle) IN
       /\ inputs # <<>>
       /\ record' = [status |-> "merging", branches |-> inputs, merged |-> 0,
                     expected |-> target, before |-> head]
  /\ integ' = head /\ conflict' = "clean" /\ checked' = {}
  /\ UNCHANGED <<publishVars, userVars, teamVars>>

MergeNext ==
  /\ record.status = "merging" /\ record.merged < Len(record.branches)
  /\ LET theirs == branch[record.branches[record.merged + 1]] IN
       \/ /\ integ' = integ \cup theirs
          /\ record' = [record EXCEPT !.merged = @ + 1]
          /\ UNCHANGED conflict
       \/ /\ ~ theirs \subseteq integ /\ ~ integ \subseteq theirs
          /\ conflict' = "unmerged"
          /\ record' = [record EXCEPT !.status = "conflicted"]
          /\ UNCHANGED integ
  /\ UNCHANGED <<publishVars, checked, attempts, userVars, teamVars>>

\* Mutant: nothing is run.
SkipChecks ==
  /\ record.status = "merging" /\ record.merged = Len(record.branches)
  /\ record' = [record EXCEPT !.status = "ready"]
  /\ UNCHANGED <<integ, conflict, publishVars, checked, attempts, userVars, teamVars>>

RunChecks ==
  /\ record.status = "merging" /\ record.merged = Len(record.branches)
  /\ \/ record' = [record EXCEPT !.status = "ready"] /\ checked' = integ
     \/ record' = [record EXCEPT !.status = "aborted"] /\ UNCHANGED checked
  /\ UNCHANGED <<integ, conflict, publishVars, attempts, userVars, teamVars>>

\* A resolver works in the integration worktree: it resolves, commits, gives the
\* merge up, or commits after the checks.
Resolve ==
  \/ /\ conflict = "unmerged" /\ conflict' = "uncommitted"
     /\ UNCHANGED <<integ, record, publishVars, checked, attempts, userVars, teamVars>>
  \/ /\ conflict = "uncommitted" /\ conflict' = "clean"
     /\ integ' = integ \cup branch[record.branches[record.merged + 1]] \cup {"fix"}
     /\ UNCHANGED <<record, publishVars, checked, attempts, userVars, teamVars>>
  \/ /\ conflict # "clean" /\ conflict' = "clean"
     /\ UNCHANGED <<integ, record, publishVars, checked, attempts, userVars, teamVars>>
  \/ /\ record.status = "ready" /\ integ' = integ \cup {"late"}
     /\ UNCHANGED <<conflict, record, publishVars, checked, attempts, userVars, teamVars>>

\* That the conflicting branch was merged is concluded from the clean directory.
Continue ==
  /\ record.status = "conflicted" /\ conflict = "clean"
  /\ record' = [record EXCEPT !.status = "merging", !.merged = @ + 1]
  /\ UNCHANGED <<integ, conflict, publishVars, checked, attempts, userVars, teamVars>>

Abort ==
  /\ record.status \notin {"none", "merging"} /\ publishing = "no"
  /\ integ' = record.before /\ conflict' = "clean"
  /\ record' = [record EXCEPT !.status = "aborted"]
  /\ UNCHANGED <<publishVars, checked, attempts, userVars, teamVars>>

-----------------------------------------------------------------------------
(* publish *)

\* What a step of publish leaves alone before the merge
QuietPublish == UNCHANGED <<head, target, onTarget, userDirty, baseline, userSteps,
                            integ, conflict, record, checked, attempts, teamVars>>
PublishRaises == /\ publishing' = "no"
                 /\ unfinished' = (unfinished \/ \E f \in backups : userFile[f] = "gone")

PublishBegin ==
  /\ record.status = "ready" /\ publishing = "no"
  /\ target = record.expected /\ ~ userDirty /\ onTarget
  /\ publishing' = "read" /\ backups' = {}
  /\ QuietPublish /\ UNCHANGED <<userFile, died, unfinished>>

\* _release_baseline_untracked_files reads every listed file that is not tracked;
\* a changed one, or one that cannot be read, ends it.
ReadBackups ==
  /\ publishing = "read"
  /\ LET listed == {f \in baseline : userFile[f] \in {"untracked", "changed"}} IN
       \/ /\ \A f \in listed : userFile[f] = "untracked"
          /\ backups' = listed
          /\ publishing' = IF listed = {} THEN "merge" ELSE "release"
       \/ listed # {} /\ publishing' = "no" /\ UNCHANGED backups
  /\ QuietPublish /\ UNCHANGED <<userFile, died, unfinished>>

\* One unlink after the other: an error leaves those before it undone.
Release(f) ==
  /\ publishing = "release" /\ f \in backups /\ userFile[f] = "untracked"
  /\ \/ /\ userFile' = [userFile EXCEPT ![f] = "gone"]
        /\ publishing' = IF \A g \in backups \ {f} : userFile[g] = "gone" THEN "merge" ELSE "release"
        /\ UNCHANGED unfinished
     \/ PublishRaises /\ UNCHANGED userFile
  /\ QuietPublish /\ UNCHANGED <<backups, died>>

\* A fast-forward of the branch that is checked out.
Publish ==
  /\ publishing = "merge"
  /\ target \subseteq integ
  /\ \A f \in UserFile \cap integ : userFile[f] \notin {"untracked", "changed"}
  /\ target' = integ /\ head' = integ
  /\ userFile' = [f \in UserFile |-> CASE f \in integ -> "tracked"
                                       [] f \notin integ /\ userFile[f] = "gone" -> "lost"
                                       [] OTHER -> userFile[f]]
  /\ record' = [record EXCEPT !.status = "published"] /\ publishing' = "no"
  /\ UNCHANGED <<onTarget, userDirty, baseline, userSteps, backups,
                 integ, conflict, checked, died, unfinished, attempts, teamVars>>

\* Git answers with an error: not a fast-forward, a change of the user's in the
\* way, or any other; or it cannot be run, and nothing is restored.
PublishFails ==
  /\ publishing = "merge"
  /\ \/ publishing' = (IF backups = {} THEN "no" ELSE "restore") /\ UNCHANGED unfinished
     \/ PublishRaises
  /\ QuietPublish /\ UNCHANGED <<userFile, backups, died>>

\* Mutant: publish only raises.
Forget(f) ==
  /\ publishing = "restore" /\ f \in backups /\ publishing' = "no"
  /\ QuietPublish /\ UNCHANGED <<userFile, backups, died, unfinished>>

Restore(f) ==
  /\ publishing = "restore" /\ f \in backups /\ userFile[f] = "gone"
  /\ \/ /\ userFile' = [userFile EXCEPT ![f] = "untracked"]
        /\ publishing' = IF \A g \in backups \ {f} : userFile[g] # "gone" THEN "no" ELSE "restore"
        /\ UNCHANGED unfinished
     \/ PublishRaises /\ UNCHANGED userFile
  /\ QuietPublish /\ UNCHANGED <<backups, died>>

\* The record is not read back when the process starts again, and the worktree
\* of the attempt is left as it is.
IntegrationDies ==
  /\ record # NoRecord /\ record' = NoRecord
  /\ died' = (died \/ publishing # "no")
  /\ publishing' = "no" /\ backups' = {} /\ conflict' = "clean"
  /\ UNCHANGED <<integ, checked, unfinished, attempts, userVars, teamVars>>

IntegNext ==
  \/ UserActs \/ StartIntegration \/ MergeNext \/ RunChecks \/ Resolve
  \/ Continue \/ Abort \/ PublishBegin \/ ReadBackups \/ Publish \/ PublishFails
  \/ IntegrationDies
  \/ \E files \in SUBSET UserFile : PrepareBaseline(files)
  \/ \E f \in UserFile : Release(f) \/ Restore(f)
  \/ \E i \in DOMAIN Branches :
       LET m == Branches[i] IN SpawnBranch(m) \/ MemberCommits(m) \/ MemberTurns(m)

IntegSpec == IntegInit /\ [][IntegNext]_integVars

-----------------------------------------------------------------------------
(* Properties *)

\* specs/016 F12: the target branch is only ever moved by its user, or to a
\* commit that has everything the target had and that the checks passed on, but
\* for what a resolver committed after them: publish merges the branch as it is.
PublishedIsChecked ==
  [][target' # target => target' = head \cup {"user"}
                         \/ (target \subseteq target'
                             /\ target' \in {checked, checked \cup {"late"}})]_integVars

\* AC10: a publish that git refuses, or that finds a changed file, leaves every
\* file of the user in place: one is away only while publish runs, or after the
\* process died there or one of its calls raised between an unlink and the last
\* write.
UserFilesSurvive ==
  /\ (\E f \in UserFile : userFile[f] = "gone") /\ publishing = "no" => died \/ unfinished
  /\ \A f \in UserFile : userFile[f] = "gone" => died \/ unfinished \/ f \in backups

\* Not so without a crash alone: an error at the second of two files leaves the
\* first one gone and its text lost, as does a git that cannot be started.
ErrorsKeepFiles ==
  (\E f \in UserFile : userFile[f] = "gone") /\ publishing = "no" => died

\* Not so: a file of the baseline is removed even if the branches that are
\* integrated do not have it, as those of members that came later.
PublishingKeepsFiles == \A f \in UserFile : userFile[f] # "lost"

\* Not so: after the resolver gave the merge up, "continue" counts the branch.
MergedIsIn == record.status = "ready" =>
                \A i \in 1..record.merged : record.branches[i] \in integ
                                            \/ record.branches[i] \notin branch[record.branches[i]]
=============================================================================
