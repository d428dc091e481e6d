---------------------------- MODULE FilesProofs -----------------------------
(***************************************************************************)
(* What several parties do to the same files: the work in an isolated      *)
(* directory is kept, a tool that writes has seen what it replaces, an     *)
(* integration leaves the files of the user alone and publishes what was   *)
(* checked, and the lock files exclude.  One section per component.        *)
(***************************************************************************)
EXTENDS Worktrees, FileTools, TeamIntegration, FileLock, TLAPS

-----------------------------------------------------------------------------
(***************************************************************************)
(* Worktrees: for any number of tasks and deaths of the process, unless the*)
(* cleaner met a task in use.                                              *)
(***************************************************************************)

Remover == TreeTask \cup {Cleaner}
Status == {"", "completed", "failed", "cancelled"}
Phase == {"waiting", "creating", "prepared", "inside", "left", "removing", "over"}
Tree == [exists : BOOLEAN, manifest : BOOLEAN, dirty : BOOLEAN, ahead : BOOLEAN,
         head : HeadAt, old : BOOLEAN, status : Status]
Removal == [task : TreeTask \cup {""}, step : {"none", "dirty", "unpushed", "remove"}]

TreesShape ==
  /\ tree \in [TreeTask -> Tree]
  /\ phase \in [TreeTask -> Phase] /\ verdict \in [TreeTask -> Status]
  /\ removing \in [Remover -> Removal]
  /\ raced \subseteq TreeTask

-----------------------------------------------------------------------------
(* The inductive invariant.  Removes(a, t): a is between two of its commands *)
(* on the directory of t.                                                    *)

Removes(a, t) == removing[a].task = t /\ removing[a].step # "none"

\* The manifest lies in the directory, which is there before it.
ManifestInv == \A t \in TreeTask \ raced :
  tree[t].manifest \/ phase[t] = "creating" => tree[t].exists

\* A runner removes its own directory only, and has left it.
RunnerInv == \A r, t \in TreeTask : Removes(r, t) => r = t /\ phase[t] = "removing"

\* A cleaner that did not meet the task in use is at a directory that nobody
\* will make anew.
CleanerInv == \A t \in TreeTask \ raced :
  Removes(Cleaner, t) => ~ InUse(t) /\ (phase[t] = "waiting" => tree[t].exists)

\* What is being removed was not kept on purpose, and when the last command
\* comes it has nothing to lose.
NothingToLose == \A a \in Remover, t \in TreeTask \ raced :
  Removes(a, t) => /\ tree[t].status \notin Retained
                   /\ removing[a].step = "remove" =>
                        /\ tree[t].head # "commits"
                        /\ tree[t].ahead => t \in strayed

\* Unpushed commits that HEAD is not on were left by their agent.
StrayInv == \A t \in TreeTask :
  tree[t].ahead /\ tree[t].head # "branch" => t \in strayed

TreesInv == /\ TreesShape /\ ManifestInv /\ RunnerInv /\ CleanerInv /\ NothingToLose
            /\ StrayInv /\ WorkIsKept

-----------------------------------------------------------------------------
(* What the steps do to the record of one directory *)

LEMMA NoTreeIsTree ==
  NoTree \in Tree /\ [NoTree EXCEPT !.exists = TRUE] \in Tree
BY DEF NoTree, Tree, Status, HeadAt

LEMMA Updated ==
  ASSUME NEW w \in Tree, NEW v \in BOOLEAN
  PROVE  /\ [w EXCEPT !.manifest = v] \in Tree /\ [w EXCEPT !.dirty = v] \in Tree
         /\ [w EXCEPT !.ahead = v] \in Tree /\ [w EXCEPT !.old = v] \in Tree
         /\ [w EXCEPT !.dirty = FALSE, !.ahead = TRUE] \in Tree
         /\ [w EXCEPT !.dirty = FALSE, !.head = "commits"] \in Tree
BY DEF Tree, HeadAt

LEMMA StatusUpdated ==
  ASSUME NEW w \in Tree, NEW status \in Status
  PROVE  /\ [w EXCEPT !.status = status] \in Tree
         /\ [w EXCEPT !.status = status].exists = w.exists
         /\ [w EXCEPT !.status = status].manifest = w.manifest
         /\ [w EXCEPT !.status = status].ahead = w.ahead
         /\ [w EXCEPT !.status = status].head = w.head
         /\ [w EXCEPT !.status = status].status = status
BY DEF Tree

LEMMA Untouched ==
  ASSUME NEW w \in Tree, NEW now \in Tree,
         \/ \E v \in BOOLEAN : now = [w EXCEPT !.dirty = v] \/ now = [w EXCEPT !.ahead = v]
         \/ \E v \in BOOLEAN : now = [w EXCEPT !.old = v]
         \/ now = [w EXCEPT !.dirty = FALSE, !.ahead = TRUE]
         \/ now = [w EXCEPT !.dirty = FALSE, !.head = "commits"]
         \/ \E at \in HeadAt : now = [w EXCEPT !.head = at]
  PROVE  now.exists = w.exists /\ now.manifest = w.manifest /\ now.status = w.status
<1>1. now.exists = w.exists
  BY DEF Tree
<1>2. now.manifest = w.manifest
  BY DEF Tree
<1>3. now.status = w.status
  BY DEF Tree
<1> QED
  BY <1>1, <1>2, <1>3

-----------------------------------------------------------------------------
(* One lemma per action *)

LEMMA MakeTreeKeeps ==
  ASSUME TreesInv, NEW u \in TreeTask, MakeTree(u)
  PROVE  TreesInv'
<1> USE CleanerAssumption DEF TreesInv
<1>1. tree[u] \in Tree
  BY DEF TreesShape
<1> DEFINE new == [NoTree EXCEPT !.exists = TRUE]
<1>2. new \in Tree /\ new.exists /\ ~ new.manifest /\ ~ new.ahead /\ new.status = ""
      /\ new.head = "branch"
  BY <1>1, NoTreeIsTree DEF NoTree
<1>3. tree' = [tree EXCEPT ![u] = new]
  BY DEF MakeTree, SetTree
<1> HIDE DEF new
<1>4. TreesShape'
  BY <1>2, <1>3 DEF TreesShape, Phase, MakeTree, PhaseTo
<1>5. ManifestInv'
  BY <1>2, <1>3 DEF ManifestInv, TreesShape, MakeTree, PhaseTo
<1>6. RunnerInv'
  BY <1>2, <1>3 DEF RunnerInv, Removes, TreesShape, MakeTree, PhaseTo
<1>7. CleanerInv'
  BY <1>2, <1>3 DEF CleanerInv, Removes, InUse, TreesShape, MakeTree, PhaseTo
<1>8. NothingToLose'
  BY <1>2, <1>3 DEF NothingToLose, Removes, Retained, TreesShape, MakeTree
<1>9. WorkIsKept'
  BY <1>2, <1>3 DEF WorkIsKept, TreesShape, MakeTree, PhaseTo
<1>30. StrayInv'
  BY <1>2, <1>3 DEF StrayInv, TreesShape, MakeTree, PhaseTo
<1> QED
  BY <1>4, <1>5, <1>6, <1>7, <1>8, <1>9, <1>30

LEMMA InitTreeKeeps ==
  ASSUME TreesInv, NEW u \in TreeTask, InitTree(u)
  PROVE  TreesInv'
<1> USE CleanerAssumption DEF TreesInv
<1>1. tree[u] \in Tree
  BY DEF TreesShape
<1> DEFINE new == [tree[u] EXCEPT !.manifest = TRUE]
<1>2. new \in Tree /\ new.exists = tree[u].exists /\ new.ahead = tree[u].ahead /\ new.head = tree[u].head
      /\ new.status = tree[u].status
  BY <1>1, Updated DEF Tree
<1>3. tree' = [tree EXCEPT ![u] = new]
  BY DEF InitTree, SetTree
<1> HIDE DEF new
<1>4. TreesShape'
  BY <1>2, <1>3 DEF TreesShape, Phase, InitTree, PhaseTo
<1>5. ManifestInv'
  BY <1>2, <1>3 DEF ManifestInv, InitTree, PhaseTo
<1>6. RunnerInv'
  BY <1>2, <1>3 DEF RunnerInv, Removes, InitTree, PhaseTo
<1>7. CleanerInv'
  BY <1>2, <1>3 DEF CleanerInv, Removes, InUse, BusyPhases, InitTree, PhaseTo
<1>8. NothingToLose'
  BY <1>2, <1>3 DEF NothingToLose, Removes, InitTree
<1>9. WorkIsKept'
  BY <1>2, <1>3 DEF WorkIsKept, InitTree, PhaseTo
<1>30. StrayInv'
  BY <1>2, <1>3 DEF StrayInv, InitTree, PhaseTo, TreesShape
<1> QED
  BY <1>4, <1>5, <1>6, <1>7, <1>8, <1>9, <1>30

LEMMA TreeAgesKeeps ==
  ASSUME TreesInv, NEW u \in TreeTask, TreeAges(u)
  PROVE  TreesInv'
<1> USE CleanerAssumption DEF TreesInv
<1>1. tree[u] \in Tree
  BY DEF TreesShape
<1> DEFINE new == [tree[u] EXCEPT !.old = TRUE]
<1>2. new \in Tree /\ new.ahead = tree[u].ahead /\ new.head = tree[u].head
      /\ new.exists = tree[u].exists /\ new.manifest = tree[u].manifest
      /\ new.status = tree[u].status
  <2>1. new \in Tree
    BY <1>1, Updated
  <2>2. new.ahead = tree[u].ahead /\ new.head = tree[u].head
    BY <1>1 DEF Tree
  <2> QED
    BY <1>1, <2>1, <2>2, Untouched
<1>3. tree' = [tree EXCEPT ![u] = new]
  BY DEF TreeAges, SetTree
<1> HIDE DEF new
<1>4. TreesShape'
  BY <1>2, <1>3 DEF TreesShape, TreeAges
<1>5. ManifestInv'
  BY <1>2, <1>3 DEF ManifestInv, TreesShape, TreeAges
<1>6. RunnerInv'
  BY <1>2, <1>3 DEF RunnerInv, Removes, TreeAges
<1>7. CleanerInv'
  BY <1>2, <1>3 DEF CleanerInv, Removes, InUse, TreesShape, TreeAges
<1>8. NothingToLose'
  BY <1>2, <1>3 DEF NothingToLose, Removes, TreeAges
<1>9. WorkIsKept'
  BY <1>2, <1>3 DEF WorkIsKept, TreesShape, TreeAges
<1>30. StrayInv'
  BY <1>2, <1>3 DEF StrayInv, TreesShape, TreeAges
<1> QED
  BY <1>4, <1>5, <1>6, <1>7, <1>8, <1>9, <1>30

LEMMA InitTreeFailsKeeps ==
  ASSUME TreesInv, NEW u \in TreeTask, InitTreeFails(u)
  PROVE  TreesInv'
<1> USE CleanerAssumption DEF TreesInv
<1>1. tree' = tree \/ tree' = [tree EXCEPT ![u] = NoTree]
  BY DEF InitTreeFails, SetTree
<1>2. NoTree \in Tree /\ ~ NoTree.manifest /\ ~ NoTree.ahead /\ NoTree.head = "branch"
      /\ NoTree.status = ""
  BY NoTreeIsTree DEF NoTree
<1>3. TreesShape'
  BY <1>1, <1>2 DEF TreesShape, Phase, InitTreeFails, PhaseTo
<1>4. ManifestInv'
  BY <1>1, <1>2 DEF ManifestInv, TreesShape, InitTreeFails, PhaseTo
<1>5. RunnerInv'
  BY <1>1, <1>2 DEF RunnerInv, Removes, TreesShape, InitTreeFails, PhaseTo
<1>6. CleanerInv'
  BY <1>1, <1>2
  DEF CleanerInv, Removes, InUse, BusyPhases, TreesShape, InitTreeFails, PhaseTo
<1>7. NothingToLose'
  BY <1>1, <1>2 DEF NothingToLose, Removes, Retained, TreesShape, InitTreeFails
<1>8. WorkIsKept'
  BY <1>1, <1>2 DEF WorkIsKept, TreesShape, InitTreeFails, PhaseTo
<1>30. StrayInv'
  BY <1>1, <1>2 DEF StrayInv, TreesShape, InitTreeFails, PhaseTo
<1> QED
  BY <1>3, <1>4, <1>5, <1>6, <1>7, <1>8, <1>30

LEMMA RecoverTreeKeeps ==
  ASSUME TreesInv, NEW u \in TreeTask, RecoverTree(u)
  PROVE  TreesInv'
<1> USE CleanerAssumption DEF TreesInv
<1>1. TreesShape'
  BY DEF TreesShape, Phase, RecoverTree, PhaseTo, RacedWith
<1>2. ManifestInv'
  BY DEF ManifestInv, RecoverTree, PhaseTo, RacedWith
<1>3. RunnerInv'
  BY DEF RunnerInv, Removes, RecoverTree, PhaseTo
<1>4. CleanerInv'
  BY DEF CleanerInv, Removes, InUse, RecoverTree, PhaseTo, RacedWith
<1>5. NothingToLose'
  BY DEF NothingToLose, Removes, RecoverTree, RacedWith
<1>6. WorkIsKept'
  BY DEF WorkIsKept, RecoverTree, PhaseTo, RacedWith
<1>30. StrayInv'
  BY DEF StrayInv, RecoverTree, PhaseTo, RacedWith
<1> QED
  BY <1>1, <1>2, <1>3, <1>4, <1>5, <1>6, <1>30

LEMMA EnterTreeKeeps ==
  ASSUME TreesInv, NEW u \in TreeTask, EnterTree(u)
  PROVE  TreesInv'
<1> USE CleanerAssumption DEF TreesInv
<1>1. TreesShape'
  BY DEF TreesShape, Phase, EnterTree, PhaseTo
<1>2. ManifestInv'
  BY DEF ManifestInv, EnterTree, PhaseTo
<1>3. RunnerInv'
  BY DEF RunnerInv, Removes, EnterTree, PhaseTo
<1>4. CleanerInv'
  BY DEF CleanerInv, Removes, InUse, BusyPhases, EnterTree, PhaseTo
<1>5. NothingToLose'
  BY DEF NothingToLose, Removes, EnterTree
<1>6. WorkIsKept'
  BY DEF WorkIsKept, ManifestInv, EnterTree, PhaseTo
<1>30. StrayInv'
  BY DEF StrayInv, ManifestInv, EnterTree, PhaseTo
<1> QED
  BY <1>1, <1>2, <1>3, <1>4, <1>5, <1>6, <1>30

LEMMA LeaveTreeKeeps ==
  ASSUME TreesInv, NEW u \in TreeTask, NEW status \in {"completed", "failed", "cancelled"},
         LeaveTree(u, status)
  PROVE  TreesInv'
<1> USE CleanerAssumption DEF TreesInv
<1>1. TreesShape'
  BY DEF TreesShape, Phase, Status, LeaveTree, PhaseTo
<1>2. ManifestInv'
  BY DEF ManifestInv, LeaveTree, PhaseTo
<1>3. RunnerInv'
  BY DEF RunnerInv, Removes, LeaveTree, PhaseTo
<1>4. CleanerInv'
  BY DEF CleanerInv, Removes, InUse, BusyPhases, LeaveTree, PhaseTo
<1>5. NothingToLose'
  BY DEF NothingToLose, Removes, LeaveTree
<1>6. WorkIsKept'
  BY DEF WorkIsKept, LeaveTree, PhaseTo
<1>30. StrayInv'
  BY DEF StrayInv, LeaveTree, PhaseTo
<1> QED
  BY <1>1, <1>2, <1>3, <1>4, <1>5, <1>6, <1>30

LEMMA AgentEditsKeeps ==
  ASSUME TreesInv, NEW u \in TreeTask, AgentEdits(u)
  PROVE  TreesInv'
<1> USE CleanerAssumption DEF TreesInv
<1>1. tree[u] \in Tree
  BY DEF TreesShape
<1>0. tree[u].ahead /\ tree[u].head # "branch" => u \in strayed
  BY DEF StrayInv
<1>2. PICK new \in Tree : /\ tree' = [tree EXCEPT ![u] = new]
                          /\ new.exists = tree[u].exists /\ new.manifest = tree[u].manifest
                          /\ new.status = tree[u].status
                          /\ new.ahead /\ new.head # "branch" =>
                               tree[u].ahead /\ u \in strayed
  <2>1. CASE SetTree(u, [tree[u] EXCEPT !.dirty = TRUE])
    <3> DEFINE now == [tree[u] EXCEPT !.dirty = TRUE]
    <3>0. now \in Tree
      BY <1>1, Updated
    <3>1. /\ now.exists = tree[u].exists /\ now.manifest = tree[u].manifest
          /\ now.status = tree[u].status
      BY <1>1, <3>0, Untouched
    <3>3. now.ahead /\ now.head # "branch" => tree[u].ahead /\ u \in strayed
      BY <1>0, <1>1, <2>1 DEF Tree
    <3>2. tree' = [tree EXCEPT ![u] = now]
      BY <2>1 DEF SetTree
    <3> HIDE DEF now
    <3> QED
      BY <3>0, <3>1, <3>2, <3>3
  <2>2. CASE tree[u].head = "branch" /\ SetTree(u, [tree[u] EXCEPT !.dirty = FALSE, !.ahead = TRUE])
    <3> DEFINE now == [tree[u] EXCEPT !.dirty = FALSE, !.ahead = TRUE]
    <3>0. now \in Tree
      BY <1>1, Updated
    <3>1. /\ now.exists = tree[u].exists /\ now.manifest = tree[u].manifest
          /\ now.status = tree[u].status
      BY <1>1, <3>0, Untouched
    <3>3. now.ahead /\ now.head # "branch" => tree[u].ahead /\ u \in strayed
      BY <1>0, <1>1, <2>2 DEF Tree
    <3>2. tree' = [tree EXCEPT ![u] = now]
      BY <2>2 DEF SetTree
    <3> HIDE DEF now
    <3> QED
      BY <3>0, <3>1, <3>2, <3>3
  <2>3. CASE SetTree(u, [tree[u] EXCEPT !.ahead = FALSE])
    <3> DEFINE now == [tree[u] EXCEPT !.ahead = FALSE]
    <3>0. now \in Tree
      BY <1>1, Updated
    <3>1. /\ now.exists = tree[u].exists /\ now.manifest = tree[u].manifest
          /\ now.status = tree[u].status
      BY <1>1, <3>0, Untouched
    <3>3. now.ahead /\ now.head # "branch" => tree[u].ahead /\ u \in strayed
      BY <1>0, <1>1, <2>3 DEF Tree
    <3>2. tree' = [tree EXCEPT ![u] = now]
      BY <2>3 DEF SetTree
    <3> HIDE DEF now
    <3> QED
      BY <3>0, <3>1, <3>2, <3>3
  <2>4. CASE tree[u].head # "branch" /\ SetTree(u, [tree[u] EXCEPT !.dirty = FALSE, !.head = "commits"])
    <3> DEFINE now == [tree[u] EXCEPT !.dirty = FALSE, !.head = "commits"]
    <3>0. now \in Tree
      BY <1>1, Updated
    <3>1. /\ now.exists = tree[u].exists /\ now.manifest = tree[u].manifest
          /\ now.status = tree[u].status
      BY <1>1, <3>0, Untouched
    <3>3. now.ahead /\ now.head # "branch" => tree[u].ahead /\ u \in strayed
      BY <1>0, <1>1, <2>4 DEF Tree
    <3>2. tree' = [tree EXCEPT ![u] = now]
      BY <2>4 DEF SetTree
    <3> HIDE DEF now
    <3> QED
      BY <3>0, <3>1, <3>2, <3>3
  <2> QED
    BY <2>1, <2>2, <2>3, <2>4 DEF AgentEdits
<1>3. TreesShape'
  BY <1>2 DEF TreesShape, AgentEdits
<1>4. ManifestInv'
  BY <1>2 DEF ManifestInv, TreesShape, AgentEdits
<1>5. RunnerInv'
  BY <1>2 DEF RunnerInv, Removes, AgentEdits
<1>6. CleanerInv'
  BY <1>2 DEF CleanerInv, Removes, InUse, AgentEdits
<1>7. NothingToLose'
  BY <1>2
  DEF CleanerInv, RunnerInv, NothingToLose, Removes, InUse, BusyPhases, Remover,
      AgentEdits
<1>8. WorkIsKept'
  BY <1>2 DEF WorkIsKept, TreesShape, AgentEdits
<1>30. StrayInv'
  BY <1>2 DEF StrayInv, TreesShape, AgentEdits
<1> QED
  BY <1>3, <1>4, <1>5, <1>6, <1>7, <1>8, <1>30

LEMMA AgentMovesHeadKeeps ==
  ASSUME TreesInv, NEW u \in TreeTask, NEW at \in HeadAt, AgentMovesHead(u, at)
  PROVE  TreesInv'
<1> USE CleanerAssumption DEF TreesInv
<1>1. tree[u] \in Tree
  BY DEF TreesShape
<1> DEFINE new == [tree[u] EXCEPT !.head = at]
<1>2. new \in Tree /\ new.ahead = tree[u].ahead
      /\ new.exists = tree[u].exists /\ new.manifest = tree[u].manifest
      /\ new.status = tree[u].status
  <2>1. new \in Tree /\ new.ahead = tree[u].ahead
    BY <1>1 DEF Tree
  <2> QED
    BY <1>1, <2>1, Untouched
<1>3. /\ tree' = [tree EXCEPT ![u] = new] /\ phase[u] = "inside"
      /\ UNCHANGED <<phase, verdict, removing, lost, dropped, raced>>
      /\ strayed \subseteq strayed' /\ (new.ahead => u \in strayed')
  BY <1>2 DEF AgentMovesHead, SetTree
<1> HIDE DEF new
<1>4. TreesShape'
  BY <1>2, <1>3 DEF TreesShape
<1>5. ManifestInv'
  BY <1>2, <1>3 DEF ManifestInv, TreesShape
<1>6. RunnerInv'
  BY <1>2, <1>3 DEF RunnerInv, Removes
<1>7. CleanerInv'
  BY <1>2, <1>3 DEF CleanerInv, Removes, InUse
<1>8. NothingToLose'
  BY <1>2, <1>3
  DEF CleanerInv, RunnerInv, NothingToLose, Removes, InUse, BusyPhases, Remover, TreesShape
<1>9. WorkIsKept'
  BY <1>2, <1>3 DEF WorkIsKept, TreesShape
<1>10. StrayInv'
  BY <1>2, <1>3 DEF StrayInv, TreesShape
<1> QED
  BY <1>4, <1>5, <1>6, <1>7, <1>8, <1>9, <1>10

LEMMA FinalizeTreeKeeps ==
  ASSUME TreesInv, NEW u \in TreeTask, FinalizeTree(u)
  PROVE  TreesInv'
<1> USE CleanerAssumption DEF TreesInv
<1> DEFINE removes == verdict[u] = "completed" /\ tree[u].manifest
<1>1. tree[u] \in Tree /\ verdict[u] \in Status
  BY DEF TreesShape
<1>2. PICK new \in Tree : /\ tree' = [tree EXCEPT ![u] = new]
                          /\ new.exists = tree[u].exists /\ new.manifest = tree[u].manifest
                          /\ new.ahead = tree[u].ahead /\ new.head = tree[u].head
                          /\ removes => new.status = "completed"
  <2>1. CASE tree[u].manifest
    <3>1. tree' = [tree EXCEPT ![u] = [tree[u] EXCEPT !.status = verdict[u]]]
      BY <2>1 DEF FinalizeTree
    <3>2. [tree[u] EXCEPT !.status = verdict[u]] \in Tree
      BY <1>1, StatusUpdated
    <3> QED
      BY <1>1, <3>1, <3>2, StatusUpdated
  <2>2. CASE ~ tree[u].manifest
    <3>1. tree' = [tree EXCEPT ![u] = tree[u]]
      BY <2>2 DEF FinalizeTree, TreesShape
    <3> QED
      BY <1>1, <2>2, <3>1
  <2> QED
    BY <2>1, <2>2
<1>3. \/ /\ removing' = [removing EXCEPT ![u] = [task |-> u, step |-> "dirty"]]
         /\ phase' = [phase EXCEPT ![u] = "removing"] /\ new.status = "completed"
      \/ /\ UNCHANGED removing
         /\ phase' = [phase EXCEPT ![u] = "over"]
  <2>1. CASE removes
    <3>1. removing' = [removing EXCEPT ![u] = [task |-> u, step |-> "dirty"]]
      BY <2>1 DEF FinalizeTree
    <3>2. phase' = [phase EXCEPT ![u] = "removing"]
      BY <2>1 DEF FinalizeTree, PhaseTo
    <3>3. new.status = "completed"
      BY <1>2, <2>1
    <3> QED
      BY <3>1, <3>2, <3>3
  <2>2. CASE ~ removes
    BY <2>2 DEF FinalizeTree, PhaseTo
  <2> QED
    BY <2>1, <2>2
<1>4. PICK mine \in Removal : mine = [task |-> u, step |-> "dirty"]
  BY DEF Removal
<1>5. UNCHANGED <<verdict, lost, dropped, strayed, raced>> /\ phase[u] = "left"
  BY DEF FinalizeTree
<1> HIDE DEF removes
<1>6. TreesShape'
  BY <1>2, <1>3, <1>4, <1>5 DEF TreesShape, Phase
<1>7. ManifestInv'
  BY <1>2, <1>3, <1>4, <1>5 DEF ManifestInv, TreesShape
<1>8. RunnerInv'
  BY <1>2, <1>3, <1>4, <1>5 DEF RunnerInv, Removes, TreesShape, Remover
<1>9. CleanerInv'
  BY <1>2, <1>3, <1>4, <1>5 DEF CleanerInv, Removes, InUse, BusyPhases, TreesShape, Remover
<1>10. NothingToLose'
  BY <1>2, <1>3, <1>4, <1>5
  DEF CleanerInv, RunnerInv, NothingToLose, Removes, InUse, BusyPhases, Retained,
      TreesShape, Remover
<1>11. WorkIsKept'
  BY <1>2, <1>3, <1>4, <1>5 DEF WorkIsKept, TreesShape
<1>30. StrayInv'
  BY <1>2, <1>3, <1>4, <1>5 DEF StrayInv, TreesShape
<1> QED
  BY <1>6, <1>7, <1>8, <1>9, <1>10, <1>11, <1>30

LEMMA CheckDirtyKeeps ==
  ASSUME TreesInv, NEW b \in Remover, CheckDirty(b)
  PROVE  TreesInv'
<1> USE CleanerAssumption DEF TreesInv
<1> DEFINE t == removing[b].task
<1>1. t = removing[b].task /\ t \in TreeTask /\ removing[b].step = "dirty" /\ tree[t] \in Tree
  BY DEF CheckDirty, IsRemoving, TreesShape
<1>2. PICK new \in Tree : /\ tree' = [tree EXCEPT ![t] = new]
                          /\ new.exists = tree[t].exists /\ new.manifest = tree[t].manifest
                          /\ new.ahead = tree[t].ahead /\ new.head = tree[t].head
                          /\ new.status \in {tree[t].status, "completed"}
  <2>1. CASE tree[t].manifest /\ tree[t].dirty
    <3>1. tree' = [tree EXCEPT ![t] = [tree[t] EXCEPT !.status = "completed"]]
      BY <2>1 DEF CheckDirty
    <3>2. "completed" \in Status /\ [tree[t] EXCEPT !.status = "completed"] \in Tree
      BY <1>1, StatusUpdated DEF Status
    <3> HIDE DEF t
    <3> QED
      BY <1>1, <3>1, <3>2, StatusUpdated
  <2>2. CASE ~ (tree[t].manifest /\ tree[t].dirty)
    <3>1. tree' = [tree EXCEPT ![t] = tree[t]]
      BY <2>2 DEF CheckDirty, TreesShape
    <3> QED
      BY <1>1, <3>1
  <2> QED
    BY <2>1, <2>2
<1>3. \/ /\ removing' = [removing EXCEPT ![b] = NoRemoval]
         /\ phase' = IF b \in TreeTask THEN [phase EXCEPT ![b] = "over"] ELSE phase
      \/ /\ removing' = [removing EXCEPT ![b].step = "unpushed"]
         /\ UNCHANGED phase
  BY DEF CheckDirty, StopRemoving
<1>4. removing[b] \in Removal /\ NoRemoval \in Removal /\ NoRemoval.step = "none"
  BY DEF TreesShape, NoRemoval, Removal
<1>5. PICK rest \in Removal : /\ removing' = [removing EXCEPT ![b] = rest]
                              /\ \/ rest = NoRemoval
                                 \/ /\ rest.task = t /\ rest.step = "unpushed"
                                    /\ UNCHANGED phase
  <2>1. CASE removing' = [removing EXCEPT ![b] = NoRemoval]
    BY <1>4, <2>1
  <2>2. CASE removing' = [removing EXCEPT ![b].step = "unpushed"] /\ UNCHANGED phase
    <3> DEFINE now == [removing[b] EXCEPT !.step = "unpushed"]
    <3>1. now \in Removal /\ now.task = t /\ now.step = "unpushed"
      BY <1>4 DEF Removal
    <3>2. removing' = [removing EXCEPT ![b] = now]
      BY <2>2 DEF TreesShape
    <3> HIDE DEF now, t
    <3> QED
      BY <2>2, <3>1, <3>2
  <2> QED
    BY <1>3, <2>1, <2>2
<1>6. \/ phase' = phase
      \/ b \in TreeTask /\ phase' = [phase EXCEPT ![b] = "over"] /\ rest = NoRemoval
  <2>1. b \in Remover /\ removing'[b] = rest
    BY <1>5 DEF TreesShape
  <2> QED
    BY <1>3, <1>5, <2>1
<1>7. UNCHANGED <<verdict, lost, dropped, strayed, raced>>
  BY DEF CheckDirty
<1> HIDE DEF t
<1>8. \A c \in Remover : removing'[c] = IF c = b THEN rest ELSE removing[c]
  BY <1>5 DEF TreesShape
<1>9. \A w \in TreeTask : /\ tree'[w].status \in {tree[w].status, "completed"}
                          /\ tree'[w].ahead = tree[w].ahead
                          /\ tree'[w].head = tree[w].head
                          /\ tree'[w].exists = tree[w].exists
  BY <1>1, <1>2 DEF TreesShape
<1>10. \A w \in TreeTask : phase'[w] = phase[w] \/ (w = b /\ phase'[w] = "over")
  BY <1>6 DEF TreesShape
<1>11. \A c \in Remover, w \in TreeTask : Removes(c, w)' =>
         /\ Removes(c, w) /\ (c = b => rest # NoRemoval)
         /\ removing'[c].step = "remove" =>
              removing[c].step = "remove"
  BY <1>1, <1>4, <1>5, <1>8 DEF Removes
<1>12. TreesShape'
  BY <1>1, <1>2, <1>4, <1>5, <1>6, <1>7 DEF TreesShape, Phase
<1>13. ManifestInv' /\ WorkIsKept'
  BY <1>1, <1>2, <1>7, <1>10 DEF ManifestInv, WorkIsKept
<1>14. RunnerInv'
  BY <1>6, <1>11 DEF RunnerInv, Remover, TreesShape
<1>15. CleanerInv'
  BY <1>7, <1>9, <1>10, <1>11 DEF CleanerInv, InUse, BusyPhases, Remover
<1>16. NothingToLose'
  BY <1>7, <1>9, <1>11 DEF NothingToLose, Retained
<1>30. StrayInv'
  BY <1>1, <1>2, <1>7 DEF StrayInv, TreesShape
<1> QED
  BY <1>12, <1>13, <1>14, <1>15, <1>16, <1>30

LEMMA CheckUnpushedKeeps ==
  ASSUME TreesInv, NEW b \in Remover, CheckUnpushed(b)
  PROVE  TreesInv'
<1> USE CleanerAssumption DEF TreesInv
<1> DEFINE t == removing[b].task
           Safe == tree[t].head # "commits" /\ (tree[t].ahead => t \in strayed)
<1>1. t = removing[b].task /\ t \in TreeTask /\ removing[b].step = "unpushed" /\ tree[t] \in Tree
  BY DEF CheckUnpushed, IsRemoving, TreesShape
<1>2. PICK new \in Tree : /\ tree' = [tree EXCEPT ![t] = new]
                          /\ new.exists = tree[t].exists /\ new.manifest = tree[t].manifest
                          /\ new.ahead = tree[t].ahead /\ new.head = tree[t].head
                          /\ new.status \in {tree[t].status, "completed"}
  <2>1. CASE tree[t].exists /\ Unpushed(t)
    <3>1. tree' = [tree EXCEPT ![t] = [tree[t] EXCEPT !.status = "completed"]]
      BY <2>1 DEF CheckUnpushed
    <3>2. "completed" \in Status /\ [tree[t] EXCEPT !.status = "completed"] \in Tree
      BY <1>1, StatusUpdated DEF Status
    <3> HIDE DEF t
    <3> QED
      BY <1>1, <3>1, <3>2, StatusUpdated
  <2>2. CASE ~ (tree[t].exists /\ Unpushed(t))
    <3>1. tree' = [tree EXCEPT ![t] = tree[t]]
      BY <2>2 DEF CheckUnpushed, TreesShape
    <3> QED
      BY <1>1, <3>1
  <2> QED
    BY <2>1, <2>2
<1>3. \/ /\ removing' = [removing EXCEPT ![b] = NoRemoval]
         /\ phase' = IF b \in TreeTask THEN [phase EXCEPT ![b] = "over"] ELSE phase
      \/ /\ removing' = [removing EXCEPT ![b].step = "remove"] /\ Safe
         /\ UNCHANGED phase
  <2>1. ~ Unpushed(t) => Safe
    BY <1>1 DEF Unpushed, StrayInv, Tree, HeadAt
  <2>2. \/ StopRemoving(b)
        \/ /\ removing' = [removing EXCEPT ![b].step = "remove"] /\ ~ Unpushed(t)
           /\ UNCHANGED phase
    BY DEF CheckUnpushed
  <2> QED
    BY <2>1, <2>2 DEF StopRemoving
<1>4. removing[b] \in Removal /\ NoRemoval \in Removal /\ NoRemoval.step = "none"
  BY DEF TreesShape, NoRemoval, Removal
<1>5. PICK rest \in Removal : /\ removing' = [removing EXCEPT ![b] = rest]
                              /\ \/ rest = NoRemoval
                                 \/ /\ rest.task = t /\ rest.step = "remove" /\ Safe
                                    /\ UNCHANGED phase
  <2>1. CASE removing' = [removing EXCEPT ![b] = NoRemoval]
    BY <1>4, <2>1
  <2>2. CASE removing' = [removing EXCEPT ![b].step = "remove"]
             /\ Safe /\ UNCHANGED phase
    <3> DEFINE now == [removing[b] EXCEPT !.step = "remove"]
    <3>1. now \in Removal /\ now.task = t /\ now.step = "remove"
      BY <1>4 DEF Removal
    <3>2. removing' = [removing EXCEPT ![b] = now]
      BY <2>2 DEF TreesShape
    <3> HIDE DEF now, t
    <3> QED
      BY <2>2, <3>1, <3>2
  <2> QED
    BY <1>3, <2>1, <2>2
<1>6. \/ phase' = phase
      \/ b \in TreeTask /\ phase' = [phase EXCEPT ![b] = "over"] /\ rest = NoRemoval
  <2>1. b \in Remover /\ removing'[b] = rest
    BY <1>5 DEF TreesShape
  <2> QED
    BY <1>3, <1>5, <2>1
<1>7. UNCHANGED <<verdict, lost, dropped, strayed, raced>>
  BY DEF CheckUnpushed
<1> HIDE DEF t
<1>8. \A c \in Remover : removing'[c] = IF c = b THEN rest ELSE removing[c]
  BY <1>5 DEF TreesShape
<1>9. \A w \in TreeTask : /\ tree'[w].status \in {tree[w].status, "completed"}
                          /\ tree'[w].ahead = tree[w].ahead
                          /\ tree'[w].head = tree[w].head
                          /\ tree'[w].exists = tree[w].exists
  BY <1>1, <1>2 DEF TreesShape
<1>10. \A w \in TreeTask : phase'[w] = phase[w] \/ (w = b /\ phase'[w] = "over")
  BY <1>6 DEF TreesShape
<1>11. \A c \in Remover, w \in TreeTask : Removes(c, w)' =>
         /\ Removes(c, w) /\ (c = b => rest # NoRemoval)
         /\ removing'[c].step = "remove" =>
              \/ removing[c].step = "remove"
              \/ tree[w].head # "commits" /\ (tree[w].ahead => w \in strayed)
  BY <1>1, <1>4, <1>5, <1>8 DEF Removes
<1>12. TreesShape'
  BY <1>1, <1>2, <1>4, <1>5, <1>6, <1>7 DEF TreesShape, Phase
<1>13. ManifestInv' /\ WorkIsKept'
  BY <1>1, <1>2, <1>7, <1>10 DEF ManifestInv, WorkIsKept
<1>14. RunnerInv'
  BY <1>6, <1>11 DEF RunnerInv, Remover, TreesShape
<1>15. CleanerInv'
  BY <1>7, <1>9, <1>10, <1>11 DEF CleanerInv, InUse, BusyPhases, Remover
<1>16. NothingToLose'
  BY <1>7, <1>9, <1>11 DEF NothingToLose, Retained
<1>30. StrayInv'
  BY <1>1, <1>2, <1>7 DEF StrayInv, TreesShape
<1> QED
  BY <1>12, <1>13, <1>14, <1>15, <1>16, <1>30

LEMMA RemoveTreeKeeps ==
  ASSUME TreesInv, NEW b \in Remover, RemoveTree(b)
  PROVE  TreesInv'
<1> USE CleanerAssumption DEF TreesInv
<1> DEFINE t == removing[b].task
<1>1. t = removing[b].task /\ t \in TreeTask /\ removing[b].step = "remove" /\ Removes(b, t)
  BY DEF RemoveTree, IsRemoving, Removes
<1>2. /\ removing' = [removing EXCEPT ![b] = NoRemoval]
      /\ phase' = IF b \in TreeTask THEN [phase EXCEPT ![b] = "over"] ELSE phase
      /\ UNCHANGED <<verdict, strayed, raced>>
  BY DEF RemoveTree, StopRemoving
<1>3. \/ tree' = [tree EXCEPT ![t] = NoTree]
      \/ UNCHANGED tree
  BY DEF RemoveTree, SetTree
<1>4. t \notin raced => dropped' = dropped /\ (t \in strayed \/ lost' = lost)
  BY <1>1 DEF RemoveTree, NothingToLose
<1>5. \A w \in TreeTask : w # t => (w \in lost' <=> w \in lost) /\ (w \in dropped' <=> w \in dropped)
  BY DEF RemoveTree
<1>6. NoTree \in Tree /\ ~ NoTree.manifest /\ ~ NoTree.ahead /\ NoTree.head = "branch"
      /\ NoTree.status = ""
  BY NoTreeIsTree DEF NoTree
<1>7. NoRemoval \in Removal /\ NoRemoval.step = "none"
  BY DEF NoRemoval, Removal
<1> HIDE DEF t
<1>8. TreesShape'
  BY <1>1, <1>2, <1>3, <1>4, <1>5, <1>6, <1>7 DEF TreesShape, Phase, Status
<1>9. ManifestInv'
  BY <1>1, <1>2, <1>3, <1>4, <1>5, <1>6, <1>7
  DEF ManifestInv, CleanerInv, RunnerInv, Removes, InUse, BusyPhases, TreesShape, Remover
<1>10. RunnerInv'
  BY <1>1, <1>2, <1>3, <1>4, <1>5, <1>6, <1>7 DEF RunnerInv, Removes, TreesShape, Remover
<1>11. CleanerInv'
  BY <1>1, <1>2, <1>3, <1>4, <1>5, <1>6, <1>7
  DEF CleanerInv, RunnerInv, Removes, InUse, BusyPhases, TreesShape, Remover
<1>12. NothingToLose'
  <2>1. \A c \in Remover : removing'[c] = IF c = b THEN NoRemoval ELSE removing[c]
    BY <1>2 DEF TreesShape
  <2>2. \A c \in Remover, w \in TreeTask : Removes(c, w)' =>
           Removes(c, w) /\ removing'[c].step = removing[c].step
    BY <1>7, <2>1 DEF Removes
  <2>3. \A w \in TreeTask : tree'[w] = tree[w] \/ (~ tree'[w].ahead /\ tree'[w].head = "branch" /\ tree'[w].status = "")
    BY <1>1, <1>3, <1>6 DEF TreesShape
  <2> QED
    BY <1>2, <2>2, <2>3 DEF NothingToLose, Retained
<1>13. WorkIsKept'
  <2> SUFFICES ASSUME NEW w \in TreeTask \ raced'
               PROVE  /\ w \in lost' => w \in strayed'
                      /\ w \notin dropped'
                      /\ phase'[w] = "inside" => tree'[w].exists /\ tree'[w].manifest
    BY DEF WorkIsKept
  <2>1. /\ w \in TreeTask \ raced
        /\ strayed' = strayed
        /\ w \in lost => w \in strayed
        /\ w \notin dropped
        /\ phase[w] = "inside" => tree[w].exists /\ tree[w].manifest
    BY <1>2 DEF WorkIsKept
  <2>2. phase'[w] = "inside" => phase[w] = "inside"
    BY <1>2 DEF TreesShape
  <2>3. CASE w # t
    <3>1. tree'[w] = tree[w]
      BY <1>1, <1>3, <2>3 DEF TreesShape
    <3> QED BY <1>5, <2>1, <2>2, <2>3, <3>1
  <2>4. CASE w = t
    <3>1. phase'[t] # "inside"
      <4>1. CASE b \in TreeTask
        BY <1>1, <1>2, <4>1 DEF RunnerInv, TreesShape
      <4>2. CASE b = Cleaner
        BY <1>1, <2>1, <2>2, <2>4, <4>2 DEF CleanerInv, InUse, BusyPhases
      <4> QED BY <4>1, <4>2 DEF Remover
    <3> QED BY <1>4, <2>1, <2>4, <3>1
  <2> QED BY <2>3, <2>4
<1>30. StrayInv'
  BY <1>1, <1>2, <1>3, <1>4, <1>5, <1>6, <1>7
  DEF StrayInv, CleanerInv, RunnerInv, Removes, InUse, BusyPhases, TreesShape, Remover
<1> QED
  BY <1>8, <1>9, <1>10, <1>11, <1>12, <1>13, <1>30

LEMMA CleanerPicksKeeps ==
  ASSUME TreesInv, NEW u \in TreeTask, CleanerPicks(u)
  PROVE  TreesInv'
<1> USE CleanerAssumption DEF TreesInv
<1>1. removing' = [removing EXCEPT ![Cleaner] = [task |-> u, step |-> "dirty"]]
  BY DEF CleanerPicks
<1>2. [task |-> u, step |-> "dirty"] \in Removal
  BY DEF Removal
<1>3. TreesShape'
  BY <1>1, <1>2 DEF TreesShape, CleanerPicks
<1>4. ManifestInv'
  BY <1>1, <1>2 DEF ManifestInv, CleanerPicks
<1>5. RunnerInv'
  BY <1>1, <1>2 DEF RunnerInv, Removes, CleanerPicks
<1>6. CleanerInv'
  BY <1>1, <1>2 DEF CleanerInv, ManifestInv, Removes, InUse, CleanerPicks
<1>7. NothingToLose'
  BY <1>1, <1>2 DEF NothingToLose, Removes, CleanerPicks
<1>8. WorkIsKept'
  BY <1>1, <1>2 DEF WorkIsKept, CleanerPicks
<1>30. StrayInv'
  BY <1>1, <1>2 DEF StrayInv, CleanerPicks, TreesShape
<1> QED
  BY <1>3, <1>4, <1>5, <1>6, <1>7, <1>8, <1>30

LEMMA ProcessDiesKeeps ==
  ASSUME TreesInv, TreesProcessDies
  PROVE  TreesInv'
<1> USE CleanerAssumption DEF TreesInv
<1>1. removing' = [a \in Remover |-> NoRemoval] /\ NoRemoval \in Removal /\ NoRemoval.step = "none"
  BY DEF TreesProcessDies, NoRemoval, Removal, Remover
<1>2. /\ phase' = [t \in TreeTask |-> IF phase[t] = "over" THEN "over" ELSE "waiting"]
      /\ UNCHANGED <<tree, verdict, lost, dropped, strayed, raced>>
  BY DEF TreesProcessDies
<1>3. TreesShape'
  BY <1>1, <1>2 DEF TreesShape, Phase
<1>4. ManifestInv'
  BY <1>1, <1>2 DEF ManifestInv
<1>5. RunnerInv'
  BY <1>1, <1>2 DEF RunnerInv, Removes, Remover
<1>6. CleanerInv'
  BY <1>1, <1>2 DEF CleanerInv, Removes, Remover
<1>7. NothingToLose'
  BY <1>1, <1>2 DEF NothingToLose, Removes
<1>8. WorkIsKept'
  BY <1>1, <1>2 DEF WorkIsKept
<1>30. StrayInv'
  BY <1>1, <1>2 DEF StrayInv, TreesShape
<1> QED
  BY <1>3, <1>4, <1>5, <1>6, <1>7, <1>8, <1>30

-----------------------------------------------------------------------------
LEMMA TreesInvInit == TreesInit => TreesInv
<1> SUFFICES ASSUME TreesInit PROVE TreesInv
  OBVIOUS
<1> USE DEF TreesInit
<1>1. NoTree \in Tree /\ ~ NoTree.manifest /\ NoRemoval \in Removal /\ NoRemoval.step = "none"
  BY NoTreeIsTree DEF NoTree, NoRemoval, Removal
<1>2. TreesShape
  BY <1>1 DEF TreesShape, Phase, Status, Remover
<1>3. ManifestInv /\ WorkIsKept
  BY <1>1 DEF ManifestInv, WorkIsKept
<1>4. RunnerInv /\ CleanerInv /\ NothingToLose /\ StrayInv
  BY <1>1 DEF RunnerInv, CleanerInv, NothingToLose, StrayInv, NoTree, Removes, Remover
<1> QED
  BY <1>2, <1>3, <1>4 DEF TreesInv

LEMMA TreesInvStep == TreesInv /\ [TreesNext]_treeVars => TreesInv'
<1> SUFFICES ASSUME TreesInv, [TreesNext]_treeVars PROVE TreesInv'
  OBVIOUS
<1>1. CASE UNCHANGED treeVars
  BY <1>1
  DEF treeVars, TreesInv, TreesShape, ManifestInv, RunnerInv, CleanerInv, NothingToLose,
              StrayInv, WorkIsKept, Removes, InUse
<1>2. CASE TreesNext
  BY <1>2, MakeTreeKeeps, InitTreeKeeps, InitTreeFailsKeeps, RecoverTreeKeeps, EnterTreeKeeps,
     AgentEditsKeeps, AgentMovesHeadKeeps, LeaveTreeKeeps, FinalizeTreeKeeps, CheckDirtyKeeps, CheckUnpushedKeeps,
     RemoveTreeKeeps, TreeAgesKeeps, CleanerPicksKeeps, ProcessDiesKeeps
  DEF TreesNext, Remover
<1> QED
  BY <1>1, <1>2

\* Unless the cleaner met a task in use, no unpushed commit is destroyed but one
\* its agent moved HEAD away from, no directory of a failed or cancelled task
\* is, and an agent inside has one
\* (worktrees/manager.py, cleanup.py; specs/015 F7-F9).
THEOREM WorktreeWorkIsKept == TreesSpec => []WorkIsKept
<1>1. TreesInv => WorkIsKept
  BY DEF TreesInv
<1> QED
  BY <1>1, TreesInvInit, TreesInvStep, PTL DEF TreesSpec

-----------------------------------------------------------------------------
(***************************************************************************)
(* Reads of one file and the cache                                         *)
(***************************************************************************)

Read == [at : {"idle", "missed", "read", "done"}, got : Nat, since : Nat,
         excused : BOOLEAN]

FilesShape ==
  /\ disk \in [exists : BOOLEAN, version : Nat, time : Nat, size : {0, 1}]
  /\ cached = NoEntry \/ cached \in [key : Nat \X {0, 1}, version : Nat]
  /\ reader \in [Slot -> Read]
  /\ writer \in [call : {"none", "edit", "fill"}, base : Nat]
  /\ overread \in BOOLEAN /\ blurred \in BOOLEAN

\* Nothing is read while a call with side effects is under way.
WritesAlone == writer # NoWriter => NoOneReads

\* A text that was read is the one of the file, and a read goes forward.
TextIsCurrent == \A s \in Slot :
  /\ reader[s].at = "missed" => reader[s].since <= disk.version
  /\ reader[s].at = "read" => reader[s].since <= reader[s].got
  /\ reader[s].at = "read" /\ ~ overread => reader[s].got = disk.version

\* The entry is not of the future, and it is of the past while the file is
\* being filled, but for a clock that stood still.
EntryIsPast == cached # NoEntry =>
  /\ cached.key[1] <= disk.time
  /\ writer.call = "fill" /\ ~ blurred => cached.key[1] < disk.time

\* An entry that is found is right, but for the two excuses.
EntryIsRight ==
  cached.key = Key /\ ~ overread /\ ~ blurred => cached.version = disk.version

FilesInv == /\ FilesShape /\ WritesAlone /\ TextIsCurrent /\ EntryIsPast /\ EntryIsRight
            /\ ReadsAreFresh

\* A change of the file: what it does to the key.
LEMMA ChangeFacts ==
  ASSUME FilesInv, NEW size \in {0, 1}, NEW time, Change(size, time)
  PROVE  /\ disk' \in [exists : BOOLEAN, version : Nat, time : Nat, size : {0, 1}]
         /\ disk.time \in Nat /\ disk.version \in Nat /\ time \in Nat
         /\ disk'.time = time /\ disk'.size = size /\ time \in {disk.time, disk.time + 1}
         /\ disk'.version = disk.version + 1
BY DEF FilesInv, FilesShape, Change

LEMMA OpenKeeps ==
  ASSUME FilesInv, NoOneReads, NEW time, OpenForWriting(time), UNCHANGED <<cached, reader>>
  PROVE  FilesInv'
<1>1. /\ disk' \in [exists : BOOLEAN, version : Nat, time : Nat, size : {0, 1}]
      /\ disk.time \in Nat /\ disk.version \in Nat /\ time \in Nat
      /\ disk'.time = time /\ disk'.size = 0 /\ time \in {disk.time, disk.time + 1}
      /\ disk'.version = disk.version + 1
  BY ChangeFacts DEF OpenForWriting
<1>2. FilesShape'
  BY <1>1 DEF FilesInv, FilesShape, OpenForWriting
<1>3. WritesAlone' /\ TextIsCurrent'
  BY DEF WritesAlone, TextIsCurrent, NoOneReads
<1>4. EntryIsPast'
  <2> SUFFICES ASSUME cached # NoEntry
               PROVE  /\ cached.key[1] <= time
                      /\ time # disk.time => cached.key[1] < time
    BY <1>1 DEF EntryIsPast, OpenForWriting
  <2>1. cached.key[1] \in Nat /\ cached.key[1] <= disk.time
    BY DEF FilesInv, FilesShape, EntryIsPast
  <2> QED BY <1>1, <2>1
<1>5. EntryIsRight'
  <2> SUFFICES ASSUME cached.key = <<time, 0>>, time # disk.time
               PROVE  FALSE
    BY <1>1 DEF EntryIsRight, OpenForWriting, Key
  <2>1. cached # NoEntry
    BY DEF NoEntry
  <2>2. cached.key[1] \in Nat /\ cached.key[1] <= disk.time
    BY <2>1 DEF FilesInv, FilesShape, EntryIsPast
  <2> QED BY <1>1, <2>2
<1>6. ReadsAreFresh'
  BY DEF FilesInv, ReadsAreFresh, NoOneReads
<1> QED BY <1>2, <1>3, <1>4, <1>5, <1>6 DEF FilesInv

LEMMA WriteKeeps ==
  ASSUME FilesInv, WriteFile \/ EditWrites
  PROVE  FilesInv'
<1>1. NoOneReads
  BY DEF WriteFile, BatchOver, EditWrites, FilesInv, WritesAlone, NoWriter
<1> QED BY <1>1, OpenKeeps DEF WriteFile, EditWrites

LEMMA FillKeeps ==
  ASSUME FilesInv, Fill
  PROVE  FilesInv'
<1>1. /\ disk' \in [exists : BOOLEAN, version : Nat, time : Nat, size : {0, 1}]
      /\ disk.time \in Nat /\ disk.version \in Nat
      /\ disk'.time = disk.time /\ disk'.size = 1
      /\ disk'.version = disk.version + 1
  BY ChangeFacts DEF Fill
<1>2. NoOneReads /\ NoOneReads'
  BY DEF Fill, FilesInv, WritesAlone, NoWriter, NoOneReads
<1>3. FilesShape'
  BY <1>1 DEF FilesInv, FilesShape, Fill, NoWriter
<1>4. WritesAlone' /\ TextIsCurrent' /\ ReadsAreFresh'
  BY <1>2 DEF WritesAlone, TextIsCurrent, NoOneReads, ReadsAreFresh
<1>5. EntryIsPast'
  BY <1>1 DEF EntryIsPast, FilesInv, Fill, NoWriter
<1>6. EntryIsRight'
  <2> SUFFICES ASSUME cached.key = <<disk.time, 1>>, ~ blurred
               PROVE  FALSE
    BY <1>1 DEF EntryIsRight, Fill, Key
  <2>1. cached # NoEntry
    BY DEF NoEntry
  <2>2. cached.key[1] \in Nat /\ cached.key[1] < disk.time
    BY <2>1 DEF FilesInv, FilesShape, EntryIsPast, Fill
  <2> QED BY <1>1, <2>2
<1> QED BY <1>3, <1>4, <1>5, <1>6 DEF FilesInv

LEMMA OthersWriteKeeps ==
  ASSUME FilesInv, OthersWrite
  PROVE  FilesInv'
<1>1. PICK time \in {disk.time, disk.time + 1} :
        /\ Change(1, time)
        /\ overread' = (Overread \/ (overread /\ time = disk.time))
        /\ blurred' = (time = disk.time)
  BY DEF OthersWrite
<1>2. /\ disk' \in [exists : BOOLEAN, version : Nat, time : Nat, size : {0, 1}]
      /\ disk.time \in Nat /\ disk.version \in Nat /\ time \in Nat
      /\ disk'.time = time /\ disk'.size = 1 /\ time \in {disk.time, disk.time + 1}
      /\ disk'.version = disk.version + 1
  BY <1>1, ChangeFacts
<1>3. UNCHANGED <<cached, reader, writer>>
  BY DEF OthersWrite
<1>4. overread' \in BOOLEAN /\ blurred' \in BOOLEAN
  BY <1>1
<1>5. FilesShape'
  BY <1>2, <1>3, <1>4 DEF FilesInv, FilesShape
<1>6. WritesAlone' /\ ReadsAreFresh'
  BY <1>3 DEF FilesInv, WritesAlone, NoOneReads, ReadsAreFresh
<1>7. TextIsCurrent'
  <2>1. ASSUME NEW s \in Slot
        PROVE  reader[s].since \in Nat /\ reader[s].got \in Nat
    BY DEF FilesInv, FilesShape, Read
  <2>2. ASSUME NEW s \in Slot, reader[s].at = "read", ~ overread'
        PROVE  FALSE
    BY <1>1, <2>2 DEF Overread
  <2> QED BY <1>2, <1>3, <2>1, <2>2 DEF FilesInv, TextIsCurrent
<1>8. EntryIsPast'
  <2> SUFFICES ASSUME cached # NoEntry
               PROVE  /\ cached.key[1] <= time
                      /\ time # disk.time => cached.key[1] < time
    BY <1>1, <1>2, <1>3 DEF EntryIsPast
  <2>1. cached.key[1] \in Nat /\ cached.key[1] <= disk.time
    BY DEF FilesInv, FilesShape, EntryIsPast
  <2> QED BY <1>2, <2>1
<1>9. EntryIsRight'
  <2> SUFFICES ASSUME cached.key = <<time, 1>>, time # disk.time
               PROVE  FALSE
    BY <1>1, <1>2, <1>3 DEF EntryIsRight, Key
  <2>1. cached # NoEntry
    BY DEF NoEntry
  <2>2. cached.key[1] \in Nat /\ cached.key[1] <= disk.time
    BY <2>1 DEF FilesInv, FilesShape, EntryIsPast
  <2> QED BY <1>2, <2>2
<1> QED BY <1>5, <1>6, <1>7, <1>8, <1>9 DEF FilesInv

LEMMA QuietKeeps ==
  ASSUME FilesInv, EditReads \/ WriteFails \/ OthersDelete
  PROVE  FilesInv'
<1>1. UNCHANGED <<cached, reader, overread, blurred>>
  BY DEF EditReads, WriteFails, OthersDelete
<1>2. /\ disk' \in [exists : BOOLEAN, version : Nat, time : Nat, size : {0, 1}]
      /\ disk'.time = disk.time /\ disk'.size = disk.size /\ disk'.version = disk.version
  BY DEF FilesInv, FilesShape, EditReads, WriteFails, OthersDelete
<1>3. /\ writer' \in [call : {"none", "edit", "fill"}, base : Nat]
      /\ writer'.call = "fill" => writer.call = "fill"
      /\ writer' # NoWriter => writer # NoWriter \/ NoOneReads
  BY DEF FilesInv, FilesShape, EditReads, WriteFails, OthersDelete, NoWriter, BatchOver
<1>4. FilesShape'
  BY <1>1, <1>2, <1>3 DEF FilesInv, FilesShape
<1>5. WritesAlone' /\ TextIsCurrent' /\ ReadsAreFresh'
  BY <1>1, <1>2, <1>3 DEF FilesInv, WritesAlone, NoOneReads, TextIsCurrent, ReadsAreFresh
<1>6. EntryIsPast' /\ EntryIsRight'
  BY <1>1, <1>2, <1>3 DEF FilesInv, EntryIsPast, EntryIsRight, Key
<1> QED BY <1>4, <1>5, <1>6 DEF FilesInv

\* A step of one read.
LEMMA ReadMoves ==
  ASSUME FilesInv, NEW s \in Slot, NEW new \in Read,
         reader' = [reader EXCEPT ![s] = new], UNCHANGED <<disk, writer, overread, blurred>>,
         writer = NoWriter \/ new.at = "idle",
         new.at = "missed" => new.since <= disk.version,
         new.at = "read" => new.since <= new.got,
         new.at = "read" /\ ~ overread => new.got = disk.version,
         new.at = "done" /\ ~ new.excused => new.got >= new.since
  PROVE  /\ reader' \in [Slot -> Read] /\ WritesAlone' /\ TextIsCurrent' /\ ReadsAreFresh'
<1>1. reader \in [Slot -> Read]
  BY DEF FilesInv, FilesShape
<1>2. \A r \in Slot : reader'[r] = IF r = s THEN new ELSE reader[r]
  BY <1>1
<1>3. reader' \in [Slot -> Read]
  BY <1>1
<1>4. WritesAlone'
  BY <1>2 DEF FilesInv, WritesAlone, NoOneReads
<1>5. TextIsCurrent'
  BY <1>2 DEF FilesInv, TextIsCurrent
<1>6. ReadsAreFresh'
  BY <1>2 DEF FilesInv, ReadsAreFresh
<1> QED BY <1>3, <1>4, <1>5, <1>6

LEMMA LookUpKeeps ==
  ASSUME FilesInv, NEW s \in Slot, LookUp(s)
  PROVE  FilesInv'
<1>1. disk.version \in Nat /\ overread \in BOOLEAN /\ blurred \in BOOLEAN
      /\ (cached # NoEntry => cached.version \in Nat)
  BY DEF FilesInv, FilesShape
<1>2. UNCHANGED <<disk, cached, writer, overread, blurred>> /\ writer = NoWriter
  BY DEF LookUp
<1>3. PICK new \in Read :
        /\ reader' = [reader EXCEPT ![s] = new]
        /\ new.at \in {"missed", "done"}
        /\ new.at = "missed" => new.since <= disk.version
        /\ new.at = "done" /\ ~ new.excused => new.got >= new.since
  <2>1. CASE cached.key = Key
    <3> DEFINE new == [at |-> "done", got |-> cached.version, since |-> disk.version,
                       excused |-> overread \/ blurred]
    <3>1. cached # NoEntry
      BY <2>1 DEF Key, NoEntry
    <3>2. new \in Read
      BY <1>1, <3>1 DEF Read
    <3>3. ~ new.excused => new.got >= new.since
      BY <1>1, <2>1 DEF FilesInv, EntryIsRight
    <3>4. reader' = [reader EXCEPT ![s] = new] /\ new.at = "done"
      BY <2>1 DEF LookUp
    <3> HIDE DEF new
    <3> QED BY <3>2, <3>3, <3>4
  <2>2. CASE cached.key # Key
    <3> DEFINE new == [at |-> "missed", got |-> 0, since |-> disk.version, excused |-> FALSE]
    <3>1. new \in Read /\ new.at = "missed" /\ new.since <= disk.version
      BY <1>1 DEF Read
    <3>2. reader' = [reader EXCEPT ![s] = new]
      BY <2>2 DEF LookUp
    <3> HIDE DEF new
    <3> QED BY <3>1, <3>2
  <2> QED BY <2>1, <2>2
<1>4. reader' \in [Slot -> Read] /\ WritesAlone' /\ TextIsCurrent' /\ ReadsAreFresh'
  BY <1>2, <1>3, ReadMoves
<1>5. FilesShape' /\ EntryIsPast' /\ EntryIsRight'
  BY <1>2, <1>4 DEF FilesInv, FilesShape, EntryIsPast, EntryIsRight, Key
<1> QED BY <1>4, <1>5 DEF FilesInv

LEMMA ReadEndsMoves ==
  ASSUME NEW s \in Slot, ReadEnds(s)
  PROVE  NoRead \in Read /\ NoRead.at = "idle" /\ reader' = [reader EXCEPT ![s] = NoRead]
BY DEF ReadEnds, NoRead, Read

LEMMA ReadTextKeeps ==
  ASSUME FilesInv, NEW s \in Slot, ReadText(s)
  PROVE  FilesInv'
<1>1. reader[s] \in Read /\ disk.version \in Nat /\ reader[s].at = "missed"
      /\ reader[s].since <= disk.version
  BY DEF FilesInv, FilesShape, TextIsCurrent, ReadText
<1>2. UNCHANGED <<disk, cached, writer, overread, blurred>>
  BY DEF ReadText
<1>3. writer = NoWriter
  BY <1>1 DEF FilesInv, WritesAlone, NoOneReads
<1>4. reader' \in [Slot -> Read] /\ WritesAlone' /\ TextIsCurrent' /\ ReadsAreFresh'
  <2>1. CASE disk.exists
    <3> DEFINE new == [reader[s] EXCEPT !.at = "read", !.got = disk.version]
    <3>1. new \in Read /\ new.at = "read" /\ new.got = disk.version
          /\ new.since = reader[s].since
      BY <1>1 DEF Read
    <3>2. reader' = [reader EXCEPT ![s] = new]
      BY <2>1 DEF ReadText, At
    <3> HIDE DEF new
    <3> QED BY <1>1, <1>2, <1>3, <3>1, <3>2, ReadMoves
  <2>2. CASE ~ disk.exists
    <3>1. ReadEnds(s)
      BY <2>2 DEF ReadText
    <3> QED BY <1>2, <1>3, <3>1, ReadEndsMoves, ReadMoves
  <2> QED BY <2>1, <2>2
<1>5. FilesShape' /\ EntryIsPast' /\ EntryIsRight'
  BY <1>2, <1>4 DEF FilesInv, FilesShape, EntryIsPast, EntryIsRight, Key
<1> QED BY <1>4, <1>5 DEF FilesInv

LEMMA PutReadKeeps ==
  ASSUME FilesInv, NEW s \in Slot, PutRead(s)
  PROVE  FilesInv'
<1>1. /\ reader[s] \in Read /\ reader[s].at = "read"
      /\ disk \in [exists : BOOLEAN, version : Nat, time : Nat, size : {0, 1}]
      /\ reader[s].since <= reader[s].got
      /\ ~ overread => reader[s].got = disk.version
  BY DEF FilesInv, FilesShape, TextIsCurrent, PutRead
<1>2. UNCHANGED <<disk, writer, overread, blurred>>
  BY DEF PutRead
<1>3. writer = NoWriter
  BY <1>1 DEF FilesInv, WritesAlone, NoOneReads
<1>4. CASE disk.exists
  <2> DEFINE new == [reader[s] EXCEPT !.at = "done", !.got = reader[s].got]
  <2>1. new \in Read /\ new.at = "done" /\ new.got = reader[s].got
        /\ new.since = reader[s].since /\ new.got >= new.since
    BY <1>1 DEF Read
  <2>2. reader' = [reader EXCEPT ![s] = new] /\ cached' = [key |-> Key, version |-> reader[s].got]
    BY <1>4 DEF PutRead, At
  <2> HIDE DEF new
  <2>3. reader' \in [Slot -> Read] /\ WritesAlone' /\ TextIsCurrent' /\ ReadsAreFresh'
    BY <1>2, <1>3, <2>1, <2>2, ReadMoves
  <2>4. Key \in Nat \X {0, 1} /\ Key[1] = disk.time /\ reader[s].got \in Nat
    BY <1>1 DEF Key, Read
  <2>5. cached' \in [key : Nat \X {0, 1}, version : Nat] /\ cached'.key[1] = disk.time
        /\ cached'.version = reader[s].got
    BY <2>2, <2>4
  <2>6. FilesShape'
    BY <1>2, <2>3, <2>5 DEF FilesInv, FilesShape
  <2>7. EntryIsPast'
    BY <1>1, <1>2, <1>3, <2>5 DEF EntryIsPast, NoWriter
  <2>8. EntryIsRight'
    BY <1>1, <1>2, <2>5 DEF EntryIsRight
  <2> QED BY <2>3, <2>6, <2>7, <2>8 DEF FilesInv
<1>5. CASE ~ disk.exists
  <2>1. ReadEnds(s) /\ UNCHANGED cached
    BY <1>5 DEF PutRead
  <2>2. reader' \in [Slot -> Read] /\ WritesAlone' /\ TextIsCurrent' /\ ReadsAreFresh'
    BY <1>2, <1>3, <2>1, ReadEndsMoves, ReadMoves
  <2>3. FilesShape' /\ EntryIsPast' /\ EntryIsRight'
    BY <1>2, <2>1, <2>2 DEF FilesInv, FilesShape, EntryIsPast, EntryIsRight, Key
  <2> QED BY <2>2, <2>3 DEF FilesInv
<1> QED BY <1>4, <1>5

LEMMA AnsweredKeeps ==
  ASSUME FilesInv, NEW s \in Slot, Answered(s)
  PROVE  FilesInv'
<1>1. ReadEnds(s) /\ UNCHANGED <<disk, cached, writer, overread, blurred>>
  BY DEF Answered
<1>2. reader' \in [Slot -> Read] /\ WritesAlone' /\ TextIsCurrent' /\ ReadsAreFresh'
  BY <1>1, ReadEndsMoves, ReadMoves
<1>3. FilesShape' /\ EntryIsPast' /\ EntryIsRight'
  BY <1>1, <1>2 DEF FilesInv, FilesShape, EntryIsPast, EntryIsRight, Key
<1> QED BY <1>2, <1>3 DEF FilesInv

LEMMA FilesInitInv == FilesInit => FilesInv
<1> SUFFICES ASSUME FilesInit PROVE FilesInv
  OBVIOUS
<1>1. NoRead \in Read /\ NoRead.at = "idle"
  BY DEF NoRead, Read
<1>2. reader = [s \in Slot |-> NoRead] /\ reader \in [Slot -> Read]
  BY <1>1 DEF FilesInit
<1>3. FilesShape
  BY <1>2 DEF FilesInit, FilesShape, NoWriter
<1>4. WritesAlone /\ TextIsCurrent /\ ReadsAreFresh
  BY <1>1, <1>2 DEF FilesInit, WritesAlone, TextIsCurrent, ReadsAreFresh
<1>5. EntryIsPast
  BY DEF FilesInit, EntryIsPast
<1>6. EntryIsRight
  BY DEF FilesInit, EntryIsRight, Key, NoEntry
<1> QED BY <1>3, <1>4, <1>5, <1>6 DEF FilesInv

LEMMA FilesNextInv == FilesInv /\ [FilesNext]_fileVars => FilesInv'
<1> SUFFICES ASSUME FilesInv, [FilesNext]_fileVars PROVE FilesInv'
  OBVIOUS
<1>1. CASE UNCHANGED fileVars
  BY <1>1 DEF fileVars, FilesInv, FilesShape, WritesAlone, NoOneReads, TextIsCurrent,
     EntryIsPast, EntryIsRight, ReadsAreFresh, Key
<1> QED BY <1>1, WriteKeeps, FillKeeps, OthersWriteKeeps, QuietKeeps, LookUpKeeps,
        ReadTextKeeps, PutReadKeeps, AnsweredKeeps DEF FilesNext

THEOREM FilesInvariant == FilesSpec => []FilesInv
BY FilesInitInv, FilesNextInv, PTL DEF FilesSpec

\* What a read returns was in the file while it ran, whatever writes, edits
\* and other actors do meanwhile, but for the two excuses (FileReadCache).
THEOREM ReadsAreFreshTheorem == FilesSpec => []ReadsAreFresh
<1>1. FilesInv => ReadsAreFresh
  BY DEF FilesInv
<1> QED BY <1>1, FilesInvariant, PTL

-----------------------------------------------------------------------------
(***************************************************************************)
(* Publishing what the members did                                         *)
(***************************************************************************)

\* A file is away only between the release and the end of a publish, which holds
\* its text.
GoneInv == \A f \in UserFile : userFile[f] = "gone" =>
  died \/ unfinished \/ (publishing \in {"release", "merge", "restore"} /\ f \in backups)
FileInv == userFile \in [UserFile -> {"untracked", "changed", "tracked", "gone", "lost"}]

\* Who resolves a conflict has an attempt that stopped at one.
ConflictInv == conflict # "clean" => record.status = "conflicted"

\* From the checks on, nothing but a late commit of a resolver changes the
\* branch, and only such a branch is being published.
ReadyInv == record.status = "ready" => integ \in {checked, checked \cup {"late"}}
PublishingInv == publishing # "no" => record.status = "ready"

\* A record has its fields.
RecordInv == record \in [status : {"none", "merging", "conflicted", "checking", "ready",
                                   "aborted", "published"},
                         branches : {record.branches}, merged : {record.merged},
                         expected : {record.expected}, before : {record.before}]

IntegInv == FileInv /\ GoneInv /\ ConflictInv /\ ReadyInv /\ PublishingInv /\ RecordInv

\* Only publish moves the target, besides its user.
TargetStep == target' # target => target' = head \cup {"user"}
                                  \/ (target \subseteq target'
                                      /\ target' \in {checked, checked \cup {"late"}})

\* Steps of the members and the user do not touch an attempt.
LEMMA AttemptStays ==
  ASSUME IntegInv, UNCHANGED attemptVars,
         FileInv', \A f \in UserFile : userFile'[f] = "gone" => userFile[f] = "gone"
  PROVE  IntegInv'
BY DEF IntegInv, GoneInv, ConflictInv, ReadyInv, PublishingInv, RecordInv, attemptVars, publishVars

LEMMA MembersKeep ==
  ASSUME IntegInv,
         \/ \E files \in SUBSET UserFile : PrepareBaseline(files)
         \/ \E m : SpawnBranch(m) \/ MemberCommits(m) \/ MemberTurns(m)
  PROVE  IntegInv' /\ UNCHANGED target
<1>1. UNCHANGED attemptVars /\ UNCHANGED target
  BY DEF PrepareBaseline, SpawnBranch, MemberCommits, MemberTurns, userVars
<1>2. FileInv' /\ \A f \in UserFile : userFile'[f] = "gone" => userFile[f] = "gone"
  BY DEF PrepareBaseline, SpawnBranch, MemberCommits, MemberTurns, userVars, IntegInv, FileInv
<1> QED BY <1>1, <1>2, AttemptStays

LEMMA UserKeeps ==
  ASSUME IntegInv, UserActs
  PROVE  IntegInv' /\ (target' # target => target' = head \cup {"user"})
<1>1. UNCHANGED attemptVars
  BY DEF UserActs
<1>3. FileInv' /\ \A f \in UserFile : userFile'[f] = "gone" => userFile[f] = "gone"
  BY DEF UserActs, IntegInv, FileInv
<1>2. target' # target => target' = head \cup {"user"}
  BY DEF UserActs
<1> QED BY <1>1, <1>2, <1>3, AttemptStays

\* Steps of an attempt before it is published.
LEMMA AttemptKeeps ==
  ASSUME IntegInv, UNCHANGED <<userVars, publishVars>>, RecordInv',
         ConflictInv', ReadyInv', publishing # "no" => record'.status = "ready"
  PROVE  IntegInv' /\ UNCHANGED target
BY DEF IntegInv, FileInv, GoneInv, PublishingInv, userVars, publishVars

LEMMA StartIntegrationKeeps ==
  ASSUME IntegInv, StartIntegration
  PROVE  IntegInv' /\ UNCHANGED target
<1>1. \E inputs : record' = [status |-> "merging", branches |-> inputs, merged |-> 0,
                             expected |-> target, before |-> head]
  BY DEF StartIntegration
<1>2. RecordInv' /\ record'.status = "merging"
  BY <1>1 DEF RecordInv
<1>3. publishing = "no" /\ conflict' = "clean" /\ UNCHANGED <<userVars, publishVars>>
  BY DEF StartIntegration
<1> QED BY <1>2, <1>3, AttemptKeeps DEF ConflictInv, ReadyInv

\* A new status, and maybe one more branch.
LEMMA RecordMoves ==
  ASSUME RecordInv, NEW s \in {"none", "merging", "conflicted", "checking", "ready",
                               "aborted", "published"},
         \/ record' = [record EXCEPT !.status = s]
         \/ record' = [record EXCEPT !.status = s, !.merged = @ + 1]
  PROVE  RecordInv' /\ record'.status = s
BY DEF RecordInv

LEMMA MergeNextKeeps ==
  ASSUME IntegInv, MergeNext
  PROVE  IntegInv' /\ UNCHANGED target
<1>1. record.status = "merging" /\ publishing = "no" /\ conflict = "clean"
  BY DEF MergeNext, IntegInv, PublishingInv, ConflictInv
<1>2. \/ UNCHANGED conflict /\ record' = [record EXCEPT !.merged = @ + 1]
      \/ record' = [record EXCEPT !.status = "conflicted"]
  BY DEF MergeNext
<1>3. RecordInv' /\ record'.status \in {"merging", "conflicted"}
      /\ (record'.status = "merging" => UNCHANGED conflict)
  BY <1>1, <1>2 DEF IntegInv, RecordInv
<1>4. ConflictInv' /\ ReadyInv'
  BY <1>1, <1>3 DEF ConflictInv, ReadyInv
<1> QED BY <1>1, <1>3, <1>4, AttemptKeeps DEF MergeNext

LEMMA RunChecksKeeps ==
  ASSUME IntegInv, RunChecks
  PROVE  IntegInv' /\ UNCHANGED target
<1>1. record.status = "merging" /\ publishing = "no" /\ conflict = "clean"
      /\ UNCHANGED <<integ, conflict, publishVars, userVars>>
  BY DEF RunChecks, IntegInv, PublishingInv, ConflictInv
<1>2. \/ record' = [record EXCEPT !.status = "ready"] /\ checked' = integ
      \/ record' = [record EXCEPT !.status = "aborted"]
  BY DEF RunChecks
<1>3. RecordInv' /\ (record'.status = "ready" => checked' = integ)
  BY <1>2, RecordMoves DEF IntegInv
<1> QED BY <1>1, <1>3, AttemptKeeps DEF ConflictInv, ReadyInv

LEMMA ResolveKeeps ==
  ASSUME IntegInv, Resolve
  PROVE  IntegInv' /\ UNCHANGED target
<1>1. UNCHANGED <<record, publishVars, checked, userVars>>
  BY DEF Resolve
<1>2. ConflictInv'
  BY <1>1 DEF Resolve, IntegInv, ConflictInv
<1>3. ReadyInv'
  BY <1>1 DEF Resolve, IntegInv, ConflictInv, ReadyInv
<1>4. RecordInv' /\ (publishing # "no" => record'.status = "ready")
  BY <1>1 DEF IntegInv, RecordInv, PublishingInv
<1> QED BY <1>1, <1>2, <1>3, <1>4, AttemptKeeps

LEMMA ContinueAbortKeep ==
  ASSUME IntegInv, Continue \/ Abort
  PROVE  IntegInv' /\ UNCHANGED target
<1>1. publishing = "no" /\ conflict' = "clean" /\ UNCHANGED <<publishVars, userVars>>
  BY DEF Continue, Abort, IntegInv, PublishingInv
<1>2. RecordInv' /\ record'.status \in {"merging", "aborted"}
  BY RecordMoves DEF Continue, Abort, IntegInv
<1> QED BY <1>1, <1>2, AttemptKeeps DEF ConflictInv, ReadyInv

\* Steps of a publish that leave the attempt as it is.
LEMMA QuietKeepsAttempt ==
  ASSUME IntegInv, QuietPublish, publishing # "no" \/ record.status = "ready", FileInv', GoneInv'
  PROVE  IntegInv' /\ UNCHANGED target
BY DEF QuietPublish, IntegInv, ConflictInv, ReadyInv, PublishingInv, RecordInv

\* A call that raises while files are gone is remembered.
LEMMA RaisesKeeps ==
  ASSUME GoneInv, PublishRaises, UNCHANGED <<userFile, died>>
  PROVE  GoneInv'
<1> SUFFICES ASSUME NEW f \in UserFile, userFile[f] = "gone" PROVE died \/ unfinished'
  BY DEF GoneInv
<1>1. died \/ unfinished \/ f \in backups
  BY DEF GoneInv
<1>2. unfinished \/ (\E g \in backups : userFile[g] = "gone") => unfinished'
  BY DEF PublishRaises
<1> QED BY <1>1, <1>2

LEMMA PublishStepsKeep ==
  ASSUME IntegInv, PublishBegin \/ ReadBackups \/ PublishFails
  PROVE  IntegInv' /\ UNCHANGED target
<1>1. QuietPublish /\ UNCHANGED <<userFile, died>>
      /\ (publishing # "no" \/ record.status = "ready")
  BY DEF PublishBegin, ReadBackups, PublishFails
<1>2. FileInv'
  BY <1>1 DEF IntegInv, FileInv
<1>3. GoneInv'
  <2>1. CASE PublishBegin \/ ReadBackups
    BY <1>1, <2>1 DEF PublishBegin, ReadBackups, IntegInv, GoneInv
  <2>2. CASE PublishFails
    <3>1. CASE PublishRaises
      BY <1>1, <3>1, RaisesKeeps DEF IntegInv
    <3>2. CASE publishing' = (IF backups = {} THEN "no" ELSE "restore") /\ UNCHANGED unfinished
      BY <1>1, <2>2, <3>2 DEF PublishFails, IntegInv, GoneInv
    <3> QED BY <2>2, <3>1, <3>2 DEF PublishFails
  <2> QED BY <2>1, <2>2
<1> QED BY <1>1, <1>2, <1>3, QuietKeepsAttempt

LEMMA ReleaseKeeps ==
  ASSUME IntegInv, NEW f \in UserFile, Release(f)
  PROVE  IntegInv' /\ UNCHANGED target
<1>1. QuietPublish /\ UNCHANGED <<backups, died>> /\ publishing = "release" /\ f \in backups
  BY DEF Release
<1>2. CASE PublishRaises /\ UNCHANGED userFile
  BY <1>1, <1>2, RaisesKeeps, QuietKeepsAttempt DEF IntegInv, FileInv
<1>3. CASE userFile' = [userFile EXCEPT ![f] = "gone"] /\ UNCHANGED unfinished
  <2>1. FileInv' /\ userFile'[f] = "gone"
        /\ \A g \in UserFile : g # f => userFile'[g] = userFile[g]
    BY <1>3 DEF IntegInv, FileInv
  <2>2. publishing' \in {"release", "merge"}
    BY <1>1, <1>3 DEF Release, PublishRaises, IntegInv, FileInv
  <2>3. GoneInv'
    BY <1>1, <1>3, <2>1, <2>2 DEF Release, PublishRaises, IntegInv, GoneInv
  <2> QED BY <1>1, <2>1, <2>3, QuietKeepsAttempt
<1> QED BY <1>2, <1>3 DEF Release

LEMMA RestoreKeeps ==
  ASSUME IntegInv, NEW f \in UserFile, Restore(f)
  PROVE  IntegInv' /\ UNCHANGED target
<1>1. QuietPublish /\ UNCHANGED <<backups, died>> /\ publishing = "restore" /\ f \in backups
  BY DEF Restore
<1>2. CASE PublishRaises /\ UNCHANGED userFile
  BY <1>1, <1>2, RaisesKeeps, QuietKeepsAttempt DEF IntegInv, FileInv
<1>3. CASE userFile' = [userFile EXCEPT ![f] = "untracked"] /\ UNCHANGED unfinished
  <2>1. FileInv' /\ userFile'[f] = "untracked"
        /\ \A g \in UserFile : g # f => userFile'[g] = userFile[g]
    BY <1>3 DEF IntegInv, FileInv
  <2>2. publishing' \in {"no", "restore"}
    BY <1>1, <1>3 DEF Restore, PublishRaises, IntegInv, FileInv
  <2>3. GoneInv'
    BY <1>1, <1>3, <2>1, <2>2 DEF Restore, PublishRaises, IntegInv, GoneInv
  <2> QED BY <1>1, <2>1, <2>3, QuietKeepsAttempt
<1> QED BY <1>2, <1>3 DEF Restore

LEMMA PublishKeeps ==
  ASSUME IntegInv, Publish
  PROVE  IntegInv' /\ TargetStep
<1>1. record.status = "ready" /\ integ \in {checked, checked \cup {"late"}}
  BY DEF Publish, IntegInv, PublishingInv, ReadyInv
<1>2. TargetStep
  BY <1>1 DEF Publish, TargetStep
<1>3. RecordInv' /\ record'.status = "published"
  BY RecordMoves DEF Publish, IntegInv
<1>4. publishing' = "no" /\ conflict' = "clean" /\ UNCHANGED died
  BY <1>1 DEF Publish, IntegInv, ConflictInv
<1>5. FileInv' /\ GoneInv'
  BY DEF Publish, IntegInv, FileInv, GoneInv
<1> QED BY <1>2, <1>3, <1>4, <1>5 DEF IntegInv, ConflictInv, ReadyInv, PublishingInv

LEMMA IntegrationDiesKeeps ==
  ASSUME IntegInv, IntegrationDies
  PROVE  IntegInv' /\ UNCHANGED target
<1>1. RecordInv' /\ record'.status = "none"
  BY DEF IntegrationDies, NoRecord, RecordInv
<1>2. FileInv' /\ GoneInv'
  BY DEF IntegrationDies, userVars, IntegInv, FileInv, GoneInv
<1> QED BY <1>1, <1>2 DEF IntegrationDies, userVars, IntegInv, ConflictInv, ReadyInv, PublishingInv

LEMMA IntegInitInv == IntegInit => IntegInv
BY DEF IntegInit, NoRecord, IntegInv, FileInv, GoneInv, ConflictInv, ReadyInv, PublishingInv, RecordInv

LEMMA IntegNextInv == IntegInv /\ [IntegNext]_integVars => IntegInv' /\ TargetStep
<1> SUFFICES ASSUME IntegInv, [IntegNext]_integVars PROVE IntegInv' /\ TargetStep
  OBVIOUS
<1>1. CASE UNCHANGED integVars
  BY <1>1 DEF integVars, IntegInv, FileInv, GoneInv, ConflictInv, ReadyInv, PublishingInv, RecordInv,
     TargetStep
<1>2. CASE UserActs
  BY <1>2, UserKeeps DEF TargetStep
<1>3. CASE Publish
  BY <1>3, PublishKeeps
<1>4. CASE /\ IntegNext /\ ~ UserActs /\ ~ Publish
  <2>1. IntegInv' /\ UNCHANGED target
    BY <1>4, MembersKeep, StartIntegrationKeeps, MergeNextKeeps, RunChecksKeeps, ResolveKeeps,
       ContinueAbortKeep, PublishStepsKeep, ReleaseKeeps, RestoreKeeps, IntegrationDiesKeeps DEF IntegNext
  <2> QED BY <2>1 DEF TargetStep
<1> QED BY <1>1, <1>2, <1>3, <1>4

THEOREM IntegInvariant == IntegSpec => []IntegInv
<1>1. IntegInv /\ [IntegNext]_integVars => IntegInv'
  BY IntegNextInv
<1> QED BY <1>1, IntegInitInv, PTL DEF IntegSpec

\* For any number of files: unless the process died while publishing, or one of
\* publish's own calls raised while files were gone, the user's files are back
\* when a publish is over, and their texts are held until then
\* (IntegrationManager.publish, _release_baseline_untracked_files).
THEOREM UserFilesSurviveTheorem == IntegSpec => []UserFilesSurvive
<1>1. IntegInv => UserFilesSurvive
  BY DEF IntegInv, GoneInv, UserFilesSurvive
<1> QED BY <1>1, IntegInvariant, PTL

\* The target moves only by its user or to a commit that has all it had and
\* that the checks passed on, but for a resolver's late one, however many
\* attempts there are (IntegrationManager.publish).
THEOREM PublishedIsCheckedTheorem == IntegSpec => PublishedIsChecked
<1>1. IntegInv /\ [IntegNext]_integVars => [TargetStep]_integVars
  BY IntegNextInv
<1>2. [TargetStep]_integVars => 
        [target' # target => target' = head \cup {"user"}
                             \/ (target \subseteq target'
                                 /\ target' \in {checked, checked \cup {"late"}})]_integVars
  BY DEF TargetStep
<1> QED BY <1>1, <1>2, IntegInvariant, PTL DEF IntegSpec, PublishedIsChecked

-----------------------------------------------------------------------------
(***************************************************************************)
(* The lock files: they exclude until two threads break the same stale     *)
(* file, and are removed until a process dies or a call fails, for every   *)
(* number of threads, processes and retries.                               *)
(***************************************************************************)

USE ProcessAssumption, RetriesAssumption, AbsentAssumption

Inside == {"write", "locked", "check", "remove"}

\* A thread at work belongs to a process that runs.
Living == \A t \in Thread : pc[t] # "dead" => Runs(t)

\* A thread that created the file and has not removed it owns the file there is.
FileIsOwn == \A t \in Thread :
  /\ pc[t] \in Inside => file # Absent /\ file.token = t
  /\ pc[t] \in Inside \ {"write"} => file.written

\* The one thread that is about to break a file has a stale one before it.
BreakerIsRight == \A t \in Thread : pc[t] = "break" =>
  IsStale /\ \A u \in Thread : pc[u] = "break" => u = t

\* Nobody breaks anything before the first death.
NothingToBreak ==
  alive = Process => ~ collided /\ \A t \in Thread : pc[t] # "break"

\* Every file has a thread that will remove it.
Tended ==
  (alive = Process /\ ~ failed /\ file # Absent) => pc[file.token] \in Inside

IInv ==
  /\ TypeOK /\ Living /\ NothingToBreak /\ Tended
  /\ ~ collided => FileIsOwn /\ BreakerIsRight

LEMMA InitIInv == Init => IInv
<1>1. Init => TypeOK
  <2>1. Init => file \in File \cup {Absent} /\ pc \in [Thread -> Step]
    BY DEF Init, Step
  <2>2. Init => attempt \in [Thread -> 0..Retries] /\ alive \subseteq Process
    BY DEF Init
  <2>3. Init => collided \in BOOLEAN /\ failed \in BOOLEAN
    BY DEF Init
  <2> QED BY <2>1, <2>2, <2>3 DEF TypeOK
<1>2. Init => Living /\ NothingToBreak /\ Tended
  BY DEF Init, Living, Runs, NothingToBreak, Tended
<1>3. Init => FileIsOwn /\ BreakerIsRight
  BY DEF Init, FileIsOwn, BreakerIsRight, Inside
<1> QED BY <1>1, <1>2, <1>3 DEF IInv

LEMMA NewFileFacts ==
  ASSUME NEW t \in Thread
  PROVE  /\ NewFile(t) \in File /\ NewFile(t) # Absent
         /\ NewFile(t).token = t /\ ~ NewFile(t).written
<1>1. NewFile(t) \in File
  BY DEF NewFile, File
<1> QED BY <1>1 DEF NewFile

\* Types survive every step.
LEMMA NextType == TypeOK /\ [Next]_vars => TypeOK'
<1> SUFFICES ASSUME TypeOK, [Next]_vars PROVE TypeOK'
  OBVIOUS
<1> USE DEF TypeOK, Goto, Step, File
<1>1. ASSUME NEW t \in Thread, Enter(t) PROVE TypeOK'
  BY <1>1 DEF Enter
<1>2. ASSUME NEW t \in Thread, Open(t) PROVE TypeOK'
  BY <1>2, NewFileFacts DEF Open
<1>3. ASSUME NEW t \in Thread, Write(t) PROVE TypeOK'
  BY <1>3 DEF Write
<1>4. ASSUME NEW t \in Thread, Inspect(t) PROVE TypeOK'
  BY <1>4 DEF Inspect
<1>5. ASSUME NEW t \in Thread, Break(t) PROVE TypeOK'
  BY <1>5 DEF Break
<1>6. ASSUME NEW t \in Thread, Retry(t) PROVE TypeOK'
  BY <1>6 DEF Retry
<1>7. ASSUME NEW t \in Thread, Exit(t) PROVE TypeOK'
  BY <1>7 DEF Exit
<1>8. ASSUME NEW t \in Thread, CheckToken(t) PROVE TypeOK'
  BY <1>8 DEF CheckToken
<1>9. ASSUME NEW t \in Thread, Remove(t) PROVE TypeOK'
  BY <1>9 DEF Remove
<1>10. CASE Age
  BY <1>10 DEF Age
<1>11. ASSUME NEW p \in Process, Crash(p) PROVE TypeOK'
  BY <1>11 DEF Crash
<1>12. ASSUME NEW t \in Thread, CallFails(t) PROVE TypeOK'
  BY <1>12 DEF CallFails
<1>13. CASE UNCHANGED vars
  BY <1>13 DEF vars
<1> QED BY <1>1, <1>2, <1>3, <1>4, <1>5, <1>6, <1>7, <1>8, <1>9, <1>10, <1>11,
           <1>12, <1>13 DEF Next, Call

LEMMA NextLiving == IInv /\ [Next]_vars => Living'
<1> SUFFICES ASSUME IInv, [Next]_vars PROVE Living'
  OBVIOUS
<1> USE DEF IInv, TypeOK, Living, Runs, Goto, Step
<1>1. ASSUME NEW t \in Thread,
             \/ Enter(t) \/ Exit(t) \/ CallFails(t) \/ Call(t)
      PROVE  Living'
  BY <1>1 DEF Enter, Exit, CallFails, Call, Open, Write, Inspect, Break, Retry, CheckToken,
              Remove
<1>2. ASSUME NEW p \in Process, Crash(p) PROVE Living'
  BY <1>2 DEF Crash
<1>3. CASE Age \/ UNCHANGED vars
  BY <1>3 DEF Age, vars
<1> QED BY <1>1, <1>2, <1>3 DEF Next

\* Only a death makes a file stale, so before it nobody turns to breaking one.
LEMMA NextNothingToBreak == IInv /\ [Next]_vars => NothingToBreak'
<1> SUFFICES ASSUME IInv, [Next]_vars, alive' = Process PROVE NothingToBreak'
  BY DEF NothingToBreak
<1>0. alive = Process
  BY DEF IInv, TypeOK, vars, Next, Call, Enter, Open, Write, Inspect, Break, Retry,
         Exit, CheckToken, Remove, Age, Crash, CallFails
<1>1. ~ collided /\ \A t \in Thread : pc[t] # "break"
  BY <1>0 DEF IInv, NothingToBreak
<1>2. ~ IsStale
  BY <1>0 DEF IsStale, IInv, TypeOK, File
<1> USE DEF IInv, TypeOK, Goto, Step
<1>3. ASSUME NEW t \in Thread,
             \/ Enter(t) \/ Exit(t) \/ CallFails(t) \/ Call(t)
      PROVE  NothingToBreak'
  BY <1>1, <1>2, <1>3 DEF NothingToBreak, Enter, Exit, CallFails, Call, Open, Write, Inspect,
                          Break, Retry, CheckToken, Remove
<1>4. CASE Age \/ UNCHANGED vars
  BY <1>1, <1>4 DEF NothingToBreak, Age, vars
<1>5. ASSUME NEW p \in Process, Crash(p) PROVE FALSE
  BY <1>0, <1>5 DEF Crash
<1> QED BY <1>3, <1>4, <1>5 DEF Next

\* While all processes run and no call fails, a file is removed by its creator.
LEMMA NextTended == IInv /\ [Next]_vars => Tended'
<1> SUFFICES ASSUME IInv, [Next]_vars, alive' = Process, ~ failed', file' # Absent
             PROVE  pc'[file'.token] \in Inside
  BY DEF Tended
<1>0. alive = Process
  BY DEF IInv, TypeOK, vars, Next, Call, Enter, Open, Write, Inspect, Break, Retry,
         Exit, CheckToken, Remove, Age, Crash, CallFails
<1>1. ~ collided /\ FileIsOwn /\ \A t \in Thread : pc[t] # "break"
  BY <1>0 DEF IInv, NothingToBreak
<1>2. ~ IsStale
  BY <1>0 DEF IsStale, IInv, TypeOK, File
<1> USE <1>0, <1>1, <1>2 DEF IInv, TypeOK, Tended, FileIsOwn, Inside, Goto, Step, File
<1>3. ASSUME NEW t \in Thread, Open(t) PROVE pc'[file'.token] \in Inside
  BY <1>3, NewFileFacts DEF Open
<1>4. ASSUME NEW t \in Thread, Write(t) PROVE pc'[file'.token] \in Inside
  BY <1>4 DEF Write
<1>5. ASSUME NEW t \in Thread, CheckToken(t) \/ Remove(t) PROVE pc'[file'.token] \in Inside
  BY <1>5 DEF CheckToken, Remove
<1>6. ASSUME NEW t \in Thread, Enter(t) \/ Exit(t) \/ Inspect(t) \/ Break(t) \/ Retry(t)
      PROVE  pc'[file'.token] \in Inside
  BY <1>6 DEF Enter, Exit, Inspect, Break, Retry
<1>7. ASSUME NEW t \in Thread, CallFails(t) PROVE pc'[file'.token] \in Inside
  <2>1. pc[t] \notin Inside /\ UNCHANGED file /\ ~ failed
    BY <1>7 DEF CallFails
  <2>2. pc[file.token] \in Inside /\ file.token # t
    BY <2>1
  <2>3. pc'[file.token] = pc[file.token]
    BY <1>7, <2>2 DEF CallFails
  <2> QED BY <2>1, <2>2, <2>3
<1>8. CASE Age \/ UNCHANGED vars
  BY <1>8 DEF Age, vars
<1>9. ASSUME NEW p \in Process, Crash(p) PROVE FALSE
  BY <1>9 DEF Crash
<1> QED BY <1>3, <1>4, <1>5, <1>6, <1>7, <1>8, <1>9 DEF Next, Call

\* Whoever owns the file runs, and a stale file has a dead owner: so the one that
\* breaks a file robs nobody.
LEMMA NextFileIsOwn == IInv /\ [Next]_vars /\ ~ collided' => FileIsOwn' /\ BreakerIsRight'
<1> SUFFICES ASSUME IInv, [Next]_vars, ~ collided' PROVE FileIsOwn' /\ BreakerIsRight'
  OBVIOUS
<1>0. ~ collided
  BY DEF IInv, TypeOK, vars, Next, Call, Enter, Open, Write, Inspect, Break, Retry,
         Exit, CheckToken, Remove, Age, Crash, CallFails
<1>1. /\ FileIsOwn /\ BreakerIsRight /\ Living
      /\ file \in File \cup {Absent} /\ pc \in [Thread -> Step]
  BY <1>0 DEF IInv, TypeOK
<1>2. IsStale => \A t \in Thread : pc[t] \notin Inside
  BY <1>1 DEF IsStale, FileIsOwn, Living, Runs, Inside
<1>3. file = Absent => \A t \in Thread : pc[t] \notin Inside \cup {"break"}
  BY <1>1 DEF FileIsOwn, BreakerIsRight, IsStale
<1>4. ASSUME NEW t \in Thread, pc[t] \in Inside
      PROVE  file # Absent /\ file.token = t /\ \A u \in Thread : pc[u] # "break"
  BY <1>1, <1>2, <1>4 DEF FileIsOwn, BreakerIsRight
<1> USE <1>1 DEF FileIsOwn, BreakerIsRight, Inside, Goto, Step, File
<1>5. ASSUME NEW t \in Thread, Enter(t) \/ Retry(t) \/ Exit(t) \/ CheckToken(t)
      PROVE  FileIsOwn' /\ BreakerIsRight'
  BY <1>5 DEF Enter, Retry, Exit, CheckToken, IsStale
<1>6. ASSUME NEW t \in Thread, Open(t) PROVE FileIsOwn' /\ BreakerIsRight'
  <2>1. CASE file = Absent
    <3>1. file' = NewFile(t) /\ pc' = [pc EXCEPT ![t] = "write"]
      BY <1>6, <2>1 DEF Open
    <3>2. file' # Absent /\ file'.token = t
      BY <3>1, NewFileFacts
    <3>3. \A u \in Thread : u # t => pc'[u] \notin Inside \cup {"break"}
      BY <1>3, <2>1, <3>1
    <3> QED BY <3>1, <3>2, <3>3
  <2>2. CASE file # Absent
    BY <1>6, <2>2 DEF Open, IsStale
  <2> QED BY <2>1, <2>2
<1>7. ASSUME NEW t \in Thread, Write(t) PROVE FileIsOwn' /\ BreakerIsRight'
  BY <1>4, <1>7 DEF Write
<1>8. ASSUME NEW t \in Thread, Inspect(t) PROVE FileIsOwn' /\ BreakerIsRight'
  BY <1>8 DEF Inspect, IsStale
<1>9. ASSUME NEW t \in Thread, Break(t) PROVE FileIsOwn' /\ BreakerIsRight'
  BY <1>2, <1>9 DEF Break
<1>10. ASSUME NEW t \in Thread, Remove(t) PROVE FileIsOwn' /\ BreakerIsRight'
  BY <1>4, <1>10 DEF Remove
<1>11. CASE Age
  BY <1>11 DEF Age, IsStale
<1>12. ASSUME NEW p \in Process, Crash(p) PROVE FileIsOwn' /\ BreakerIsRight'
  BY <1>12 DEF Crash, IsStale
<1>13. ASSUME NEW t \in Thread, CallFails(t) PROVE FileIsOwn' /\ BreakerIsRight'
  <2>1. CASE pc[t] = "write"
    BY <1>4, <1>13, <2>1 DEF CallFails
  <2>2. CASE pc[t] # "write"
    BY <1>13, <2>2 DEF CallFails, IsStale
  <2> QED BY <2>1, <2>2
<1>14. CASE UNCHANGED vars
  BY <1>14 DEF vars, IsStale
<1> QED BY <1>5, <1>6, <1>7, <1>8, <1>9, <1>10, <1>11, <1>12, <1>13, <1>14 DEF Next, Call

THEOREM Inductive == Spec => []IInv
<1>1. IInv /\ [Next]_vars => IInv'
  BY NextType, NextLiving, NextNothingToBreak, NextTended, NextFileIsOwn DEF IInv
<1> QED BY InitIInv, <1>1, PTL DEF Spec

\* Until a process dies, one thread at a time is inside the guarded body
\* (FileLock, teams/locking.py:21-51).
THEOREM MutualExclusion == Spec => []ExclusiveUntilCrash
<1>1. IInv => ExclusiveUntilCrash
  BY DEF IInv, NothingToBreak, FileIsOwn, ExclusiveUntilCrash, Holders, Inside
<1> QED BY <1>1, Inductive, PTL

\* Until two threads break the same stale file, one thread at a time is inside,
\* and the lock file is its own, whatever died and failed
\* (FileLock, teams/locking.py:21-72).
THEOREM OneBreakerIsSafeTheorem == Spec => []OneBreakerIsSafe
<1>1. IInv => OneBreakerIsSafe
  BY DEF IInv, FileIsOwn, OneBreakerIsSafe, Holders, Inside
<1> QED BY <1>1, Inductive, PTL

\* Until a process dies or a call fails, every lock file has a thread that will
\* remove it (FileLock.__exit__, teams/locking.py:42-51).
THEOREM NothingLeftBehind == Spec => []NoFileLeftBehind
<1>1. IInv => NoFileLeftBehind
  BY DEF IInv, Tended, NoFileLeftBehind, Inside
<1> QED BY <1>1, Inductive, PTL
=============================================================================
