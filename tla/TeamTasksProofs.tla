--------------------------- MODULE TeamTasksProofs ---------------------------
(***************************************************************************)
(* Proofs about the shared task list, for every set of tasks and members   *)
(* and every bound: types, the dependency graph, readiness of pending      *)
(* tasks and the meaning of the optimistic version; and that the search    *)
(* for cycles answers rightly on every graph.                              *)
(***************************************************************************)
EXTENDS TeamTasks, DependencySearch, SequenceTheorems, TLAPS

USE NamesAssumption, BoundAssumption

\* What callers remember has an identifier that was handed out, so a task
\* created later is never mistaken for one read earlier.
SeenUsed == \A c \in Caller : seen[c] # None => seen[c].id \in used

IInv ==
  /\ TypeOK
  /\ DependenciesExist
  /\ DependenciesAcyclic
  /\ PendingIsReady
  /\ VersionTellsChange
  /\ SeenUsed

-----------------------------------------------------------------------------
(* What the helpers do. *)

\* Setting a status and a version gives a record of the list.
LEMMA RecordSet ==
  ASSUME NEW r \in TaskRecord, NEW s \in Status, NEW v \in Nat
  PROVE  [r EXCEPT !.status = s, !.version = v] \in TaskRecord
BY DEF TaskRecord

LEMMA WithStatusType ==
  ASSUME NEW r \in TaskRecord, NEW s \in Status
  PROVE  LET b == WithStatus(r, s) IN
         /\ b \in TaskRecord
         /\ b.deps = r.deps /\ b.assignee = r.assignee /\ b.status = s
         /\ b.version = r.version + 1 /\ b.version > r.version
<1> DEFINE b == WithStatus(r, s)
<1>1. r.version \in Nat /\ r.version + 1 \in Nat
  BY DEF TaskRecord
<1>2. b \in TaskRecord
  BY RecordSet, <1>1 DEF WithStatus
<1>3. b.deps = r.deps /\ b.assignee = r.assignee /\ b.status = s
  BY DEF TaskRecord, WithStatus
<1>4. b.version = r.version + 1
  BY DEF TaskRecord, WithStatus
<1> QED BY <1>1, <1>2, <1>3, <1>4

\* _refresh_blocked keeps everything but pending/blocked, leaves pending
\* only tasks that are ready, and raises the version of what it changes.
LEMMA RefreshKeeps ==
  ASSUME NEW D, NEW store \in [D -> TaskRecord]
  PROVE  LET after == RefreshBlocked(store) IN
         /\ after \in [D -> TaskRecord]
         /\ \A t \in D : /\ after[t].deps = store[t].deps
                         /\ after[t].assignee = store[t].assignee
                         /\ after[t].version >= store[t].version
                         /\ after[t].version = store[t].version => after[t] = store[t]
                         /\ after[t].status = "completed" <=> store[t].status = "completed"
                         /\ after[t].status = "in_progress" <=> store[t].status = "in_progress"
         /\ \A t \in D : after[t].status = "pending"
                           => DependenciesComplete(store, store[t].deps)
<1> DEFINE after == RefreshBlocked(store)
<1>1. /\ DOMAIN after = D
      /\ after = [t \in D |-> after[t]]
      /\ \A t \in D : \/ /\ after[t] = store[t]
                         /\ store[t].status = "pending"
                              => DependenciesComplete(store, store[t].deps)
                      \/ /\ store[t].status \in {"pending", "blocked"}
                         /\ \E s \in {"pending", "blocked"} :
                              /\ after[t] = WithStatus(store[t], s)
                              /\ s = "pending"
                                   => DependenciesComplete(store, store[t].deps)
  BY DEF RefreshBlocked
<1> HIDE DEF after
<1>2. ASSUME NEW t \in D
      PROVE  /\ after[t] \in TaskRecord
             /\ after[t].deps = store[t].deps
             /\ after[t].assignee = store[t].assignee
             /\ after[t].version >= store[t].version
             /\ after[t].version = store[t].version => after[t] = store[t]
             /\ after[t].status = "completed" <=> store[t].status = "completed"
             /\ after[t].status = "in_progress" <=> store[t].status = "in_progress"
             /\ after[t].status = "pending"
                  => DependenciesComplete(store, store[t].deps)
  <2>1. store[t] \in TaskRecord
    OBVIOUS
  <2>2. CASE /\ after[t] = store[t]
             /\ store[t].status = "pending"
                  => DependenciesComplete(store, store[t].deps)
    BY <2>1, <2>2 DEF TaskRecord
  <2>3. CASE /\ store[t].status \in {"pending", "blocked"}
             /\ \E s \in {"pending", "blocked"} :
                  /\ after[t] = WithStatus(store[t], s)
                  /\ s = "pending" => DependenciesComplete(store, store[t].deps)
    <3>1. PICK s \in {"pending", "blocked"} :
            /\ after[t] = WithStatus(store[t], s)
            /\ s = "pending" => DependenciesComplete(store, store[t].deps)
      BY <2>3
    <3>2. s \in Status
      BY DEF Status
    <3>3. /\ after[t] \in TaskRecord
          /\ after[t].deps = store[t].deps
          /\ after[t].assignee = store[t].assignee
          /\ after[t].status = s
          /\ after[t].version = store[t].version + 1
          /\ after[t].version > store[t].version
      BY <2>1, <3>1, <3>2, WithStatusType
    <3>4. store[t].version \in Nat /\ after[t].version \in Nat
      BY <2>1, <3>3 DEF TaskRecord
    <3> HIDE DEF after
    <3> QED BY <2>3, <3>1, <3>3, <3>4
  <2> QED BY <1>1, <2>2, <2>3
<1>3. after \in [D -> TaskRecord]
  BY <1>1, <1>2
<1> QED BY <1>2, <1>3 DEF after

\* A call's patch gives a record of the list, one version on.
LEMMA PatchedType ==
  ASSUME NEW r \in TaskRecord, NEW patch \in Patch, patch.status \in Status \cup {None}
  PROVE  LET b == Patched(r, patch) IN
         /\ b \in TaskRecord
         /\ b.version = r.version + 1 /\ b.version > r.version
         /\ patch.deps = None => b.deps = r.deps
<1> DEFINE a == IF patch.assignee = None THEN r.assignee ELSE patch.assignee
           s == IF patch.status = None THEN r.status ELSE patch.status
           d == IF patch.deps = None THEN r.deps ELSE patch.deps
           v == r.version + 1
           b == Patched(r, patch)
<1>1. /\ a \in Member \cup {None} /\ s \in Status /\ d \in SUBSET Task
      /\ r.version \in Nat /\ v \in Nat /\ v = r.version + 1
      /\ patch.deps = None => d = r.deps
  BY DEF Patch, TaskRecord
<1>2. b = [r EXCEPT !.assignee = a, !.status = s, !.deps = d, !.version = v]
  BY DEF Patched
<1> HIDE DEF a, s, d, v, b
<1>3. b \in TaskRecord /\ b.version = v /\ b.deps = d
  BY <1>1, <1>2 DEF TaskRecord
<1> QED BY <1>1, <1>3 DEF b

\* A set of tasks without a cycle stays without one when a task nobody
\* depends on is added.
LEMMA AcyclicExtended ==
  ASSUME NEW D, NEW g, DOMAIN g = D, Acyclic(g),
         \A u \in D : g[u] \subseteq D,
         NEW t, t \notin D, NEW deps \in SUBSET D,
         NEW larger, DOMAIN larger = D \cup {t},
         \A u \in D : larger[u] = g[u], larger[t] = deps
  PROVE  Acyclic(larger)
<1> SUFFICES ASSUME NEW S \in SUBSET (D \cup {t}), S # {}
             PROVE  \E u \in S : larger[u] \cap S = {}
  BY DEF Acyclic
<1>1. CASE S \ {t} = {}
  <2>1. S = {t} /\ deps \cap S = {}
    BY <1>1
  <2> QED BY <2>1
<1>2. CASE S \ {t} # {}
  <2>1. PICK u \in S \ {t} : g[u] \cap (S \ {t}) = {}
    BY <1>2 DEF Acyclic
  <2>2. u \in D /\ larger[u] = g[u] /\ t \notin g[u]
    BY <2>1
  <2> QED BY <2>1, <2>2
<1> QED BY <1>1, <1>2

\* ... and when tasks are taken out.
LEMMA AcyclicRestricted ==
  ASSUME NEW g, Acyclic(g), NEW smaller,
         DOMAIN smaller \subseteq DOMAIN g,
         \A u \in DOMAIN smaller : smaller[u] = g[u]
  PROVE  Acyclic(smaller)
<1> SUFFICES ASSUME NEW S \in SUBSET (DOMAIN smaller), S # {}
             PROVE  \E u \in S : smaller[u] \cap S = {}
  BY DEF Acyclic
<1>1. S \in SUBSET (DOMAIN g)
  OBVIOUS
<1>2. PICK u \in S : g[u] \cap S = {}
  BY <1>1 DEF Acyclic
<1> QED BY <1>2

-----------------------------------------------------------------------------
(* The effect of a call to update() that goes through. *)
LEMMA UpdateEffect ==
  ASSUME TypeOK, PendingIsReady, DependenciesExist,
         NEW c \in Caller, NEW patch \in Patch, Update(c, patch)
  PROVE  /\ seen[c] \in Reading /\ seen[c].id \in DOMAIN tasks
         /\ tasks' \in [DOMAIN tasks -> TaskRecord]
         /\ DOMAIN tasks' = DOMAIN tasks
         /\ \A t \in DOMAIN tasks :
              /\ tasks'[t].version >= tasks[t].version
              /\ tasks'[t].version = tasks[t].version => tasks'[t] = tasks[t]
              /\ tasks'[t].deps \subseteq DOMAIN tasks
         /\ DependenciesAcyclic'
         /\ PendingIsReady'
<1> DEFINE D == DOMAIN tasks
           u == seen[c].id
           mid == [tasks EXCEPT ![u] = Patched(@, patch)]
<1>1. seen[c] \in Reading /\ u \in D /\ tasks \in [D -> TaskRecord]
  BY DEF TypeOK, Update, UpdateError
<1>2. tasks' = RefreshBlocked(mid)
  BY DEF Update, Updated
<1>3. UpdateError(u, seen[c].task.version, patch) = "ok"
  BY DEF Update
<1>p. patch.status \in Status \cup {None}
  <2> SUFFICES ASSUME patch.status # None PROVE patch.status \in Status
    OBVIOUS
  <2>1. tasks[u] \in TaskRecord
    BY <1>1
  <2>2. Patched(tasks[u], patch).status = patch.status
    BY <2>1 DEF Patched, TaskRecord
  <2> QED BY <1>1, <1>3, <2>2 DEF UpdateError
<1>4. /\ mid \in [D -> TaskRecord]
      /\ \A t \in D : t # u => mid[t] = tasks[t]
      /\ mid[u] = Patched(tasks[u], patch)
      /\ mid[u].version > tasks[u].version
  BY <1>1, <1>p, PatchedType
<1>5. /\ tasks' \in [D -> TaskRecord]
      /\ \A t \in D : /\ tasks'[t].deps = mid[t].deps
                      /\ tasks'[t].version >= mid[t].version
                      /\ tasks'[t].version = mid[t].version => tasks'[t] = mid[t]
                      /\ tasks'[t].status = "completed" <=> mid[t].status = "completed"
      /\ \A t \in D : tasks'[t].status = "pending"
                        => DependenciesComplete(mid, mid[t].deps)
  <2>1. mid \in [D -> TaskRecord]
    BY <1>4
  <2> HIDE DEF mid, D
  <2> QED BY <1>2, <2>1, RefreshKeeps
<1>6. DependencyError(tasks, u, mid[u].deps) = "ok"
  BY <1>1, <1>3, <1>4 DEF UpdateError
<1>7. /\ mid[u].deps \subseteq D
      /\ Acyclic([DependencyGraph(tasks) EXCEPT ![u] = mid[u].deps])
  BY <1>6 DEF DependencyError
<1> HIDE DEF mid
<1>8. \A t \in D : tasks'[t].deps \subseteq D
  <2> SUFFICES ASSUME NEW t \in D
               PROVE  mid[t].deps \subseteq D
    BY <1>5
  <2> QED BY <1>4, <1>7 DEF DependenciesExist
<1>9. DependenciesAcyclic'
  <2>1. DependencyGraph(tasks)' = [DependencyGraph(tasks) EXCEPT ![u] = mid[u].deps]
    BY <1>1, <1>4, <1>5 DEF DependencyGraph
  <2> QED BY <1>7, <2>1 DEF DependenciesAcyclic, Acyclic
<1>10. PendingIsReady'
  <2> SUFFICES ASSUME NEW t \in D, tasks'[t].status = "pending"
               PROVE  DependenciesComplete(tasks', tasks'[t].deps)
    BY <1>5 DEF PendingIsReady, DependenciesComplete
  <2>1. DependenciesComplete(mid, mid[t].deps) /\ tasks'[t].deps = mid[t].deps
    BY <1>5
  <2>2. DOMAIN mid = D /\ DOMAIN tasks' = D
    BY <1>4, <1>5
  <2> QED BY <1>5, <2>1, <2>2 DEF DependenciesComplete
<1>11. ASSUME NEW t \in D
       PROVE  /\ tasks'[t].version >= tasks[t].version
              /\ tasks'[t].version = tasks[t].version => tasks'[t] = tasks[t]
  <2>1. /\ tasks[t].version \in Nat /\ mid[t].version \in Nat
        /\ tasks'[t].version \in Nat
    BY <1>1, <1>4, <1>5 DEF TaskRecord
  <2> QED BY <1>4, <1>5, <2>1
<1> QED BY <1>1, <1>5, <1>8, <1>9, <1>10, <1>11

-----------------------------------------------------------------------------
(* The invariant, action by action. *)

LEMMA InitIInv == Init => IInv
BY DEF Init, IInv, TypeOK, DependenciesExist, DependenciesAcyclic, Acyclic,
       DependencyGraph, PendingIsReady, VersionTellsChange, SeenUsed, TaskRecord

LEMMA ReadIInv ==
  ASSUME IInv, NEW c \in Caller, NEW t \in Task, Read(c, t)
  PROVE  IInv'
<1> USE DEF IInv
<1>1. tasks' = tasks /\ used' = used
  BY DEF Read
<1>2. tasks[t] \in TaskRecord /\ tasks[t].version \in Nat /\ t \in used
  BY DEF TypeOK, Read, TaskRecord
<1>3. seen' = [seen EXCEPT ![c] = [id |-> t, task |-> tasks[t]]]
  BY DEF Read
<1>4. TypeOK'
  BY <1>1, <1>2, <1>3 DEF TypeOK, Reading
<1>5. DependenciesExist' /\ DependenciesAcyclic' /\ PendingIsReady'
  BY <1>1 DEF DependenciesExist, DependenciesAcyclic, Acyclic, DependencyGraph,
              PendingIsReady, DependenciesComplete
<1>6. VersionTellsChange' /\ SeenUsed'
  BY <1>1, <1>2, <1>3 DEF TypeOK, VersionTellsChange, SeenUsed
<1> QED BY <1>4, <1>5, <1>6

LEMMA CreateIInv ==
  ASSUME IInv, NEW t \in Task, NEW deps \in SUBSET Task, Create(t, deps)
  PROVE  IInv'
<1> USE DEF IInv
<1> DEFINE D == DOMAIN tasks
<1>1. /\ t \notin D /\ t \notin used /\ deps \subseteq D
      /\ used' = used \cup {t} /\ seen' = seen
      /\ DOMAIN tasks' = D \cup {t}
      /\ tasks' = [u \in D \cup {t} |-> IF u = t THEN NewTask(deps) ELSE tasks[u]]
      /\ \A u \in D : tasks'[u] = tasks[u]
      /\ tasks'[t] = NewTask(deps)
  BY DEF Create, CreateError, TypeOK
<1>2. NewTask(deps) \in TaskRecord /\ NewTask(deps).deps = deps
  BY DEF NewTask, TaskRecord, Status
<1>3. TypeOK'
  BY <1>1, <1>2 DEF TypeOK
<1>4. DependenciesExist'
  BY <1>1, <1>2 DEF DependenciesExist
<1>5. DependenciesAcyclic'
  <2>1. /\ DOMAIN DependencyGraph(tasks) = D
        /\ Acyclic(DependencyGraph(tasks))
        /\ \A u \in D : DependencyGraph(tasks)[u] \subseteq D
    BY DEF DependenciesAcyclic, DependencyGraph, DependenciesExist
  <2>2. /\ DOMAIN DependencyGraph(tasks)' = D \cup {t}
        /\ \A u \in D : DependencyGraph(tasks)'[u] = DependencyGraph(tasks)[u]
        /\ DependencyGraph(tasks)'[t] = deps
    BY <1>1, <1>2 DEF DependencyGraph
  <2>3. Acyclic(DependencyGraph(tasks)')
    <3> DEFINE g == DependencyGraph(tasks)
               h == DependencyGraph(tasks)'
    <3>1. /\ DOMAIN g = D /\ Acyclic(g) /\ \A u \in D : g[u] \subseteq D
          /\ DOMAIN h = D \cup {t} /\ \A u \in D : h[u] = g[u]
          /\ h[t] = deps /\ t \notin D /\ deps \in SUBSET D
      BY <1>1, <2>1, <2>2
    <3> HIDE DEF g, h, D
    <3>2. Acyclic(h)
      BY <3>1, AcyclicExtended
    <3> QED BY <3>2 DEF h
  <2> QED BY <2>3 DEF DependenciesAcyclic, Acyclic
<1>6. PendingIsReady'
  <2> SUFFICES ASSUME NEW u \in D \cup {t}, tasks'[u].status = "pending"
               PROVE  DependenciesComplete(tasks', tasks'[u].deps)
    BY <1>1 DEF PendingIsReady, DependenciesComplete
  <2>1. CASE u = t
    <3>1. tasks'[u].deps = {}
      BY <1>1, <2>1 DEF NewTask
    <3> QED BY <3>1 DEF DependenciesComplete
  <2>2. CASE u \in D
    BY <1>1, <2>2 DEF PendingIsReady, DependenciesComplete
  <2> QED BY <2>1, <2>2
<1>7. VersionTellsChange'
  BY <1>1 DEF VersionTellsChange, SeenUsed
<1>8. SeenUsed'
  BY <1>1 DEF SeenUsed
<1> QED BY <1>3, <1>4, <1>5, <1>6, <1>7, <1>8

LEMMA UpdateIInv ==
  ASSUME IInv, NEW c \in Caller, NEW patch \in Patch, Update(c, patch)
  PROVE  IInv'
<1> USE DEF IInv
<1>1. /\ used' = used /\ seen' = seen
      /\ tasks' \in [DOMAIN tasks -> TaskRecord]
      /\ DOMAIN tasks' = DOMAIN tasks
      /\ \A t \in DOMAIN tasks :
           /\ tasks'[t].version >= tasks[t].version
           /\ tasks'[t].version = tasks[t].version => tasks'[t] = tasks[t]
           /\ tasks'[t].deps \subseteq DOMAIN tasks
      /\ DependenciesAcyclic' /\ PendingIsReady'
  BY UpdateEffect DEF Update
<1>2. TypeOK'
  BY <1>1 DEF TypeOK
<1>3. DependenciesExist'
  BY <1>1 DEF DependenciesExist
<1>4. VersionTellsChange'
  <2> SUFFICES ASSUME NEW d \in Caller, seen[d] # None, seen[d].id \in DOMAIN tasks
               PROVE  /\ seen[d].task.version <= tasks'[seen[d].id].version
                      /\ seen[d].task.version = tasks'[seen[d].id].version
                           => seen[d].task = tasks'[seen[d].id]
    BY <1>1 DEF VersionTellsChange
  <2> DEFINE t == seen[d].id
  <2>1. /\ seen[d].task.version \in Nat /\ tasks[t].version \in Nat
        /\ tasks'[t].version \in Nat
    BY <1>1 DEF TypeOK, Reading, TaskRecord
  <2>2. /\ seen[d].task.version <= tasks[t].version
        /\ seen[d].task.version = tasks[t].version => seen[d].task = tasks[t]
    BY DEF VersionTellsChange
  <2>3. /\ tasks'[t].version >= tasks[t].version
        /\ tasks'[t].version = tasks[t].version => tasks'[t] = tasks[t]
    BY <1>1
  <2> HIDE DEF t
  <2>4. /\ seen[d].task.version <= tasks'[t].version
        /\ seen[d].task.version = tasks'[t].version => seen[d].task = tasks'[t]
    BY <2>1, <2>2, <2>3
  <2> QED BY <2>4 DEF t
<1>5. SeenUsed'
  BY <1>1 DEF SeenUsed
<1> QED BY <1>1, <1>2, <1>3, <1>4, <1>5

LEMMA DeleteIInv ==
  ASSUME IInv, Delete
  PROVE  IInv'
<1> USE DEF IInv
<1> DEFINE t == seen[Lead].id
           E == DOMAIN tasks \ {t}
<1>1. /\ used' = used /\ seen' = seen
      /\ tasks' = [u \in E |-> tasks[u]]
      /\ DOMAIN tasks' = E
      /\ \A u \in E : tasks'[u] = tasks[u]
      /\ \A u \in DOMAIN tasks : t \notin tasks[u].deps
  BY DEF Delete, DeleteError
<1>2. TypeOK'
  BY <1>1 DEF TypeOK
<1>3. DependenciesExist'
  BY <1>1 DEF DependenciesExist
<1>4. DependenciesAcyclic'
  <2> DEFINE g == DependencyGraph(tasks)
             h == DependencyGraph(tasks)'
  <2>1. /\ Acyclic(g) /\ DOMAIN h \subseteq DOMAIN g
        /\ \A u \in DOMAIN h : h[u] = g[u]
    BY <1>1 DEF DependenciesAcyclic, DependencyGraph
  <2> HIDE DEF g, h
  <2>2. Acyclic(h)
    BY <2>1, AcyclicRestricted
  <2> QED BY <2>2 DEF h, DependenciesAcyclic, Acyclic
<1>5. PendingIsReady'
  BY <1>1 DEF PendingIsReady, DependenciesComplete
<1>6. VersionTellsChange' /\ SeenUsed'
  BY <1>1 DEF VersionTellsChange, SeenUsed
<1> QED BY <1>2, <1>3, <1>4, <1>5, <1>6

\* Every action but reads, creations and deletions is update() with a patch.
LEMMA PatchForms ==
  /\ \A s \in Status \cup {"other", None} : [Keep EXCEPT !.status = s] \in Patch
  /\ \A deps \in SUBSET Task : [Keep EXCEPT !.deps = deps] \in Patch
  /\ \A m \in Member : [Keep EXCEPT !.assignee = m] \in Patch
  /\ \A m \in Member :
       [Keep EXCEPT !.assignee = m, !.status = "in_progress"] \in Patch
BY DEF Keep, Patch, Status

LEMMA NextForms ==
  ASSUME Next
  PROVE  \/ \E c \in Caller, t \in Task : Read(c, t)
         \/ \E t \in Task, deps \in SUBSET Task : Create(t, deps)
         \/ \E c \in Caller, patch \in Patch : Update(c, patch)
         \/ Delete
<1>1. Lead \in Caller
  BY DEF Caller
<1>2. CASE \E c \in Caller, s \in Status \cup {"other", None} : SetStatus(c, s)
  BY <1>2, PatchForms DEF SetStatus
<1>3. CASE \E deps \in SUBSET Task : SetDependencies(deps)
  BY <1>1, <1>3, PatchForms DEF SetDependencies
<1>4. CASE \E c \in Caller, m \in Member : Claim(c, m)
  BY <1>4, PatchForms DEF Claim
<1>5. CASE \E m \in Member : Assign(m)
  BY <1>1, <1>5, PatchForms DEF Assign
<1> QED BY <1>2, <1>3, <1>4, <1>5 DEF Next

LEMMA NextIInv == IInv /\ [Next]_vars => IInv'
<1> SUFFICES ASSUME IInv, [Next]_vars PROVE IInv'
  OBVIOUS
<1>1. CASE UNCHANGED vars
  BY <1>1 DEF vars, IInv, TypeOK, DependenciesExist, DependenciesAcyclic, Acyclic,
              DependencyGraph, PendingIsReady, DependenciesComplete,
              VersionTellsChange, SeenUsed
<1>2. CASE Next
  BY <1>2, NextForms, ReadIInv, CreateIInv, UpdateIInv, DeleteIInv
<1> QED BY <1>1, <1>2

THEOREM Inductive == Spec => []IInv
<1>1. Init => IInv
  BY InitIInv
<1>2. IInv /\ [Next]_vars => IInv'
  BY NextIInv
<1> QED BY <1>1, <1>2, PTL DEF Spec

\* The list holds well-formed records of tasks that were created.
THEOREM TypeCorrect == Spec => []TypeOK
<1>1. IInv => TypeOK
  BY DEF IInv
<1> QED BY <1>1, Inductive, PTL

\* The dependencies of the listed tasks form a finite order over listed
\* tasks, for every interleaving of creations, updates and deletions.
THEOREM DependencyOrder == Spec => [](DependenciesExist /\ DependenciesAcyclic)
<1>1. IInv => DependenciesExist /\ DependenciesAcyclic
  BY DEF IInv
<1> QED BY <1>1, Inductive, PTL

\* A pending task can be started: its dependencies are completed.
THEOREM Readiness == Spec => []PendingIsReady
<1>1. IInv => PendingIsReady
  BY DEF IInv
<1> QED BY <1>1, Inductive, PTL

\* A caller whose version matches knows the task as it is.
THEOREM NoSilentOverwrite == Spec => []VersionTellsChange
<1>1. IInv => VersionTellsChange
  BY DEF IInv
<1> QED BY <1>1, Inductive, PTL

\* No step changes a listed task without raising its version.
THEOREM VersionsRise == Spec => VersionRises
<1> DEFINE Rises == \A t \in DOMAIN tasks \cap DOMAIN tasks' :
                      tasks'[t] # tasks[t] => tasks'[t].version > tasks[t].version
<1>1. IInv /\ [Next]_vars => [Rises]_vars
  <2> SUFFICES ASSUME IInv, Next PROVE Rises
    OBVIOUS
  <2>1. CASE \E c \in Caller, t \in Task : Read(c, t)
    BY <2>1 DEF Read
  <2>2. CASE \E t \in Task, deps \in SUBSET Task : Create(t, deps)
    BY <2>2 DEF Create, IInv, TypeOK
  <2>3. ASSUME NEW c \in Caller, NEW patch \in Patch, Update(c, patch)
        PROVE  Rises
    <3>1. /\ tasks' \in [DOMAIN tasks -> TaskRecord]
          /\ \A t \in DOMAIN tasks :
               /\ tasks'[t].version >= tasks[t].version
               /\ tasks'[t].version = tasks[t].version => tasks'[t] = tasks[t]
      BY <2>3, UpdateEffect DEF IInv
    <3>2. \A t \in DOMAIN tasks : tasks[t].version \in Nat /\ tasks'[t].version \in Nat
      BY <3>1 DEF IInv, TypeOK, TaskRecord
    <3> QED BY <3>1, <3>2
  <2>4. CASE Delete
    BY <2>4 DEF Delete
  <2> QED BY <2>1, <2>2, <2>3, <2>4, NextForms
<1> QED BY <1>1, Inductive, PTL DEF Spec, VersionRises

-----------------------------------------------------------------------------
(***************************************************************************)
(* The search for a cycle                                                  *)
(***************************************************************************)

Frame == [node : Node, children : SUBSET Node]

\* The active calls: each visits a child of its caller, and a child that is
\* neither due nor done is the one being visited.
Calls(s, g, done) ==
  /\ \A i \in 1 .. Len(s) : s[i].children \subseteq g[s[i].node]
  /\ \A i \in 1 .. Len(s) : i < Len(s) => s[i + 1].node \in g[s[i].node]
  /\ \A i \in 1 .. Len(s) : \A c \in g[s[i].node] :
       c \in s[i].children \cup done \/ (i < Len(s) /\ c = s[i + 1].node)
  /\ \A i, j \in 1 .. Len(s) : s[i].node = s[j].node => i = j
Called(s) == {s[i].node : i \in 1 .. Len(s)}

\* What was returned from is closed and has no cycle.
Done(done, g) ==
  /\ \A n \in done : g[n] \subseteq done
  /\ \A S \in SUBSET done : S # {} => \E n \in S : g[n] \cap S = {}

SearchShape ==
  /\ graph \in [Node -> SUBSET Node] /\ roots \subseteq Node
  /\ frames \in Seq(Frame) /\ visited \subseteq Node
  /\ outcome \in {"searching", "ok", "dependency_cycle"}
SearchInv ==
  /\ SearchShape
  /\ visiting = Called(frames) /\ visited \cap visiting = {}
  /\ Calls(frames, graph, visited) /\ Done(visited, graph)
  /\ Node \subseteq roots \cup visiting \cup visited
  /\ AnswerIsRight

LEMMA Popped ==
  ASSUME NEW s \in Seq(Frame), s # <<>>
  PROVE  LET t == SubSeq(s, 1, Len(s) - 1) IN
         /\ t \in Seq(Frame) /\ Len(t) = Len(s) - 1
         /\ \A i \in 1 .. Len(s) - 1 : t[i] = s[i]
<1> DEFINE k == Len(s) - 1
           t == SubSeq(s, 1, k)
<1>1. k \in Nat /\ \A i \in 1 .. k : s[i] \in Frame
  OBVIOUS
<1> HIDE DEF k
<1>2. /\ t \in Seq(Frame) /\ Len(t) = (IF 1 <= k THEN k - 1 + 1 ELSE 0)
      /\ \A i \in 1 .. k - 1 + 1 : t[i] = s[1 + i - 1]
  BY <1>1, SubSeqProperties
<1> HIDE DEF t
<1>3. Len(t) = k
  BY <1>1, <1>2
<1>4. \A i \in 1 .. k : i \in 1 .. k - 1 + 1 /\ 1 + i - 1 = i
  BY <1>1
<1>5. \A i \in 1 .. k : t[i] = s[i]
  BY <1>2, <1>4
<1> QED BY <1>2, <1>3, <1>5 DEF t, k

LEMMA Replaced ==
  ASSUME NEW s \in Seq(Frame), s # <<>>, NEW f \in Frame
  PROVE  LET t == Append(SubSeq(s, 1, Len(s) - 1), f) IN
         /\ t \in Seq(Frame) /\ Len(t) = Len(s) /\ t[Len(s)] = f
         /\ \A i \in 1 .. Len(s) - 1 : t[i] = s[i]
<1> DEFINE front == SubSeq(s, 1, Len(s) - 1)
<1>1. Len(s) \in Nat /\ Len(s) > 0
  OBVIOUS
<1>2. front \in Seq(Frame) /\ Len(front) = Len(s) - 1
      /\ \A i \in 1 .. Len(s) - 1 : front[i] = s[i]
  BY Popped
<1> HIDE DEF front
<1>3. /\ Append(front, f) \in Seq(Frame) /\ Len(Append(front, f)) = Len(s)
      /\ Append(front, f)[Len(s)] = f
      /\ \A i \in 1 .. Len(s) - 1 : Append(front, f)[i] = front[i]
  BY <1>1, <1>2
<1> QED BY <1>2, <1>3 DEF front

LEMMA Pushed ==
  ASSUME NEW s \in Seq(Frame), NEW f \in Frame
  PROVE  LET t == Append(s, f) IN
         /\ t \in Seq(Frame) /\ Len(t) = Len(s) + 1 /\ t[Len(s) + 1] = f
         /\ \A i \in 1 .. Len(s) : t[i] = s[i]
OBVIOUS

LEMMA FrameFacts ==
  ASSUME NEW s \in Seq(Frame), NEW i \in 1 .. Len(s)
  PROVE  s[i] \in Frame /\ s[i].node \in Node /\ s[i].children \subseteq Node
<1>1. s[i] \in Frame
  OBVIOUS
<1> QED BY <1>1 DEF Frame

\* The topmost call has visited the child n, which is done already.
LEMMA ChildDone ==
  ASSUME NEW g \in [Node -> SUBSET Node], NEW s \in Seq(Frame), s # <<>>, NEW done,
         NEW n \in s[Len(s)].children \cap done, Calls(s, g, done)
  PROVE  LET t == Append(SubSeq(s, 1, Len(s) - 1),
                         [s[Len(s)] EXCEPT !.children = @ \ {n}]) IN
         t \in Seq(Frame) /\ Calls(t, g, done) /\ Called(t) = Called(s)
<1> DEFINE m == Len(s)
           f == [s[m] EXCEPT !.children = @ \ {n}]
           t == Append(SubSeq(s, 1, m - 1), f)
<1>1. m \in Nat /\ m > 0 /\ m \in 1 .. m
  OBVIOUS
<1>2. s[m] \in Frame
  BY <1>1
<1>3. f \in Frame /\ f.node = s[m].node /\ f.children = s[m].children \ {n}
  BY <1>2 DEF Frame
<1> HIDE DEF f
<1>4. /\ t \in Seq(Frame) /\ Len(t) = m /\ t[m] = f
      /\ \A i \in 1 .. m - 1 : t[i] = s[i]
  BY <1>3, Replaced
<1> HIDE DEF t, m
<1>5. \A i \in 1 .. m : t[i].node = s[i].node
  BY <1>1, <1>3, <1>4
<1>6. \A i \in 1 .. m : i = m \/ i \in 1 .. m - 1
  BY <1>1
<1>7. Called(t) = Called(s)
  BY <1>4, <1>5 DEF Called, m
<1>8. /\ \A i \in 1 .. m : s[i].children \subseteq g[s[i].node]
      /\ \A i \in 1 .. m : i < m => s[i + 1].node \in g[s[i].node]
      /\ \A i \in 1 .. m : \A c \in g[s[i].node] :
           c \in s[i].children \cup done \/ (i < m /\ c = s[i + 1].node)
      /\ \A i, j \in 1 .. m : s[i].node = s[j].node => i = j
  BY DEF Calls, m
<1>9. \A i \in 1 .. m : t[i].children \subseteq g[t[i].node]
  BY <1>3, <1>4, <1>5, <1>6, <1>8
<1>10. \A i \in 1 .. m : i < m => t[i + 1].node \in g[t[i].node]
  <2> SUFFICES ASSUME NEW i \in 1 .. m, i < m PROVE t[i + 1].node \in g[t[i].node]
    OBVIOUS
  <2>1. i + 1 \in 1 .. m
    BY <1>1
  <2> QED BY <1>5, <1>8, <2>1
<1>11. ASSUME NEW i \in 1 .. m, NEW c \in g[t[i].node]
       PROVE  c \in t[i].children \cup done \/ (i < m /\ c = t[i + 1].node)
  <2>1. c \in s[i].children \cup done \/ (i < m /\ c = s[i + 1].node)
    BY <1>5, <1>8
  <2>2. s[i].children \subseteq t[i].children \cup done
    BY <1>3, <1>4, <1>6
  <2>3. i < m => t[i + 1].node = s[i + 1].node
    BY <1>1, <1>5
  <2> QED BY <2>1, <2>2, <2>3
<1>12. \A i, j \in 1 .. m : t[i].node = t[j].node => i = j
  BY <1>5, <1>8
<1>13. Calls(t, g, done)
  BY <1>4, <1>9, <1>10, <1>11, <1>12 DEF Calls
<1> QED BY <1>4, <1>7, <1>13 DEF t, f, m

\* ... or is new: its call begins.
LEMMA ChildCalled ==
  ASSUME NEW g \in [Node -> SUBSET Node], NEW s \in Seq(Frame), s # <<>>, NEW done,
         NEW n \in s[Len(s)].children, n \notin Called(s), Calls(s, g, done)
  PROVE  LET t == Append(Append(SubSeq(s, 1, Len(s) - 1),
                                [s[Len(s)] EXCEPT !.children = @ \ {n}]),
                         [node |-> n, children |-> g[n]]) IN
         t \in Seq(Frame) /\ Calls(t, g, done) /\ Called(t) = Called(s) \cup {n}
<1> DEFINE m == Len(s)
           f == [s[m] EXCEPT !.children = @ \ {n}]
           e == [node |-> n, children |-> g[n]]
           r == Append(SubSeq(s, 1, m - 1), f)
           t == Append(r, e)
<1>1. m \in Nat /\ m > 0 /\ m \in 1 .. m
  OBVIOUS
<1>2. s[m] \in Frame
  BY <1>1
<1>3. f \in Frame /\ f.node = s[m].node /\ f.children = s[m].children \ {n}
  BY <1>2 DEF Frame
<1>4. n \in Node /\ n \in s[m].children
  BY <1>2 DEF Frame
<1>5. e \in Frame /\ e.node = n /\ e.children = g[n]
  BY <1>4 DEF Frame
<1> HIDE DEF f, e
<1>6. /\ r \in Seq(Frame) /\ Len(r) = m /\ r[m] = f
      /\ \A i \in 1 .. m - 1 : r[i] = s[i]
  BY <1>3, Replaced
<1> HIDE DEF r
<1>7. /\ t \in Seq(Frame) /\ Len(t) = m + 1 /\ t[m + 1] = e
      /\ \A i \in 1 .. m : t[i] = r[i]
  BY <1>5, <1>6, Pushed
<1> HIDE DEF t, m
<1>8. \A i \in 1 .. m : i = m \/ i \in 1 .. m - 1
  BY <1>1
<1>9. \A i \in 1 .. m : t[i].node = s[i].node
  BY <1>1, <1>3, <1>6, <1>7, <1>8
<1>10. t[m + 1].node = n /\ t[m + 1].children = g[n]
  BY <1>5, <1>7
<1>11. \A i \in 1 .. m + 1 : i = m + 1 \/ i \in 1 .. m
  BY <1>1
<1>12. Called(t) = Called(s) \cup {n}
  <2>1. Called(s) = {s[i].node : i \in 1 .. m} /\ Called(t) = {t[i].node : i \in 1 .. m + 1}
    BY <1>7 DEF Called, m
  <2>2. m + 1 \in 1 .. m + 1 /\ \A i \in 1 .. m : i \in 1 .. m + 1
    BY <1>1
  <2> QED BY <1>9, <1>10, <1>11, <2>1, <2>2
<1>13. /\ \A i \in 1 .. m : s[i].children \subseteq g[s[i].node]
       /\ \A i \in 1 .. m : i < m => s[i + 1].node \in g[s[i].node]
       /\ \A i \in 1 .. m : \A c \in g[s[i].node] :
            c \in s[i].children \cup done \/ (i < m /\ c = s[i + 1].node)
       /\ \A i, j \in 1 .. m : s[i].node = s[j].node => i = j
  BY DEF Calls, m
<1>14. \A i \in 1 .. m + 1 : t[i].children \subseteq g[t[i].node]
  <2> SUFFICES ASSUME NEW i \in 1 .. m + 1 PROVE t[i].children \subseteq g[t[i].node]
    OBVIOUS
  <2>1. CASE i = m + 1
    BY <1>10, <2>1
  <2>2. CASE i \in 1 .. m
    <3>1. t[i] = r[i] /\ t[i].node = s[i].node /\ s[i].children \subseteq g[s[i].node]
      BY <1>7, <1>9, <1>13, <2>2
    <3>2. r[i].children \subseteq s[i].children
      BY <1>3, <1>6, <1>8, <2>2
    <3> QED BY <3>1, <3>2
  <2> QED BY <1>11, <2>1, <2>2
<1>15. ASSUME NEW i \in 1 .. m + 1, i < m + 1 PROVE t[i + 1].node \in g[t[i].node]
  <2>1. i \in 1 .. m
    BY <1>1, <1>15
  <2>2. CASE i = m
    <3>1. n \in g[s[m].node]
      BY <1>1, <1>4, <1>13
    <3> QED BY <1>1, <1>9, <1>10, <2>2, <3>1
  <2>3. CASE i < m
    <3>1. i + 1 \in 1 .. m
      BY <1>1, <2>1, <2>3
    <3> QED BY <1>9, <1>13, <2>1, <2>3, <3>1
  <2>4. i = m \/ i < m
    BY <1>1, <2>1
  <2> QED BY <2>2, <2>3, <2>4
<1>16. ASSUME NEW i \in 1 .. m + 1, NEW c \in g[t[i].node]
       PROVE  c \in t[i].children \cup done \/ (i < m + 1 /\ c = t[i + 1].node)
  <2>1. CASE i = m + 1
    BY <1>10, <2>1
  <2>2. CASE i \in 1 .. m
    <3>1. c \in s[i].children \cup done \/ (i < m /\ c = s[i + 1].node)
      BY <1>9, <1>13, <2>2
    <3>2. i < m + 1
      BY <1>1, <2>2
    <3>3. CASE i = m
      <4>1. t[i].children = s[m].children \ {n}
        BY <1>1, <1>3, <1>6, <1>7, <3>3
      <4>2. t[i + 1].node = n
        BY <1>10, <3>3
      <4>3. c \in s[m].children \cup done
        BY <1>1, <3>1, <3>3
      <4> QED BY <3>2, <4>1, <4>2, <4>3
    <3>4. CASE i < m
      <4>1. i + 1 \in 1 .. m /\ i \in 1 .. m - 1
        BY <1>1, <2>2, <3>4
      <4>2. t[i + 1].node = s[i + 1].node /\ t[i] = s[i]
        BY <1>6, <1>7, <1>9, <2>2, <4>1
      <4> QED BY <3>1, <3>2, <4>2
    <3>5. i = m \/ i < m
      BY <1>1, <2>2
    <3> QED BY <3>3, <3>4, <3>5
  <2> QED BY <1>11, <2>1, <2>2
<1>17. ASSUME NEW i \in 1 .. m + 1, NEW j \in 1 .. m + 1, t[i].node = t[j].node
       PROVE  i = j
  <2>1. \A h \in 1 .. m : t[h].node # n
    BY <1>9 DEF Called, m
  <2>2. CASE i = m + 1 \/ j = m + 1
    BY <1>10, <1>11, <1>17, <2>1, <2>2
  <2>3. CASE i \in 1 .. m /\ j \in 1 .. m
    BY <1>9, <1>13, <1>17, <2>3
  <2> QED BY <1>11, <2>2, <2>3
<1>18. Calls(t, g, done)
  BY <1>7, <1>14, <1>15, <1>16, <1>17 DEF Calls
<1> QED BY <1>7, <1>12, <1>18 DEF t, r, e, f, m

\* A call without children due returns: its node is done.
LEMMA CallReturns ==
  ASSUME NEW g \in [Node -> SUBSET Node], NEW s \in Seq(Frame), s # <<>>, NEW done,
         s[Len(s)].children = {}, Calls(s, g, done), done \cap Called(s) = {},
         Done(done, g)
  PROVE  LET t == SubSeq(s, 1, Len(s) - 1)
             n == s[Len(s)].node IN
         /\ t \in Seq(Frame) /\ Calls(t, g, done \cup {n}) /\ Done(done \cup {n}, g)
         /\ n \in Node /\ n \in Called(s) /\ Called(t) = Called(s) \ {n}
<1> DEFINE m == Len(s)
           n == s[m].node
           t == SubSeq(s, 1, m - 1)
<1>1. m \in Nat /\ m > 0 /\ m \in 1 .. m
  OBVIOUS
<1>2. t \in Seq(Frame) /\ Len(t) = m - 1 /\ \A i \in 1 .. m - 1 : t[i] = s[i]
  BY Popped
<1>3. n \in Node /\ n \in Called(s)
  BY <1>1, FrameFacts DEF Called
<1>4. s[m].children = {}
  OBVIOUS
<1>13. /\ \A i \in 1 .. m : s[i].children \subseteq g[s[i].node]
       /\ \A i \in 1 .. m : i < m => s[i + 1].node \in g[s[i].node]
       /\ \A i \in 1 .. m : \A c \in g[s[i].node] :
            c \in s[i].children \cup done \/ (i < m /\ c = s[i + 1].node)
       /\ \A i, j \in 1 .. m : s[i].node = s[j].node => i = j
  BY DEF Calls, m
<1> HIDE DEF t, m
<1>5. Called(s) = {s[i].node : i \in 1 .. m} /\ Called(t) = {s[i].node : i \in 1 .. m - 1}
  BY <1>2 DEF Called, m
<1>6. \A i \in 1 .. m : i = m \/ i \in 1 .. m - 1
  BY <1>1
<1>7. \A i \in 1 .. m - 1 : i \in 1 .. m /\ i # m
  BY <1>1
<1>8. Called(t) = Called(s) \ {n}
  BY <1>1, <1>5, <1>6, <1>7, <1>13
<1>9. g[n] \subseteq done
  BY <1>1, <1>4, <1>13
<1>10. n \notin done
  BY <1>3
<1> HIDE DEF n
<1>11. Done(done \cup {n}, g)
  <2>1. \A u \in done \cup {n} : g[u] \subseteq done \cup {n}
    BY <1>9 DEF Done
  <2>2. ASSUME NEW S \in SUBSET (done \cup {n}), S # {}
        PROVE  \E u \in S : g[u] \cap S = {}
    <3>1. CASE S \ {n} = {}
      <4>1. S = {n} /\ g[n] \cap {n} = {}
        BY <1>9, <1>10, <2>2, <3>1
      <4> QED BY <4>1
    <3>2. CASE S \ {n} # {}
      <4>1. S \ {n} \in SUBSET done
        OBVIOUS
      <4>2. PICK u \in S \ {n} : g[u] \cap (S \ {n}) = {}
        BY <3>2, <4>1 DEF Done
      <4>3. g[u] \subseteq done
        BY <4>1, <4>2 DEF Done
      <4> QED BY <1>10, <4>2, <4>3
    <3> QED BY <3>1, <3>2
  <2> QED BY <2>1, <2>2 DEF Done
<1>12. Calls(t, g, done \cup {n})
  <2>1. \A i \in 1 .. m - 1 : t[i].children \subseteq g[t[i].node]
    BY <1>2, <1>7, <1>13
  <2>2. ASSUME NEW i \in 1 .. m - 1, i < m - 1 PROVE t[i + 1].node \in g[t[i].node]
    <3>1. i + 1 \in 1 .. m - 1 /\ i \in 1 .. m /\ i < m
      BY <1>1, <2>2
    <3> QED BY <1>2, <1>13, <3>1
  <2>3. ASSUME NEW i \in 1 .. m - 1, NEW c \in g[t[i].node]
        PROVE  \/ c \in t[i].children \cup (done \cup {n})
               \/ i < m - 1 /\ c = t[i + 1].node
    <3>1. t[i] = s[i] /\ i \in 1 .. m
      BY <1>2, <1>7
    <3>2. c \in s[i].children \cup done \/ c = s[i + 1].node
      BY <1>13, <3>1
    <3>3. CASE i = m - 1
      <4>1. i + 1 = m
        BY <1>1, <3>3
      <4>2. s[i + 1].node = n
        BY <4>1 DEF n
      <4> QED BY <3>1, <3>2, <4>2
    <3>4. CASE i # m - 1
      <4>1. i < m - 1 /\ i + 1 \in 1 .. m - 1
        BY <1>1, <3>4
      <4>2. t[i + 1] = s[i + 1]
        BY <1>2, <4>1
      <4> QED BY <3>1, <3>2, <4>1, <4>2
    <3> QED BY <3>3, <3>4
  <2>4. \A i, j \in 1 .. m - 1 : t[i].node = t[j].node => i = j
    BY <1>2, <1>7, <1>13
  <2> QED BY <1>2, <2>1, <2>2, <2>3, <2>4 DEF Calls
<1> QED BY <1>2, <1>3, <1>8, <1>11, <1>12 DEF t, n, m

\* A child that is being visited closes a cycle of active calls.
LEMMA BackEdge ==
  ASSUME NEW g \in [Node -> SUBSET Node], NEW s \in Seq(Frame), s # <<>>, NEW done,
         NEW n \in s[Len(s)].children, n \in Called(s), Calls(s, g, done)
  PROVE  ~ CycleFree(g)
<1> DEFINE m == Len(s)
<1>1. m \in Nat /\ m > 0 /\ m \in 1 .. m
  OBVIOUS
<1>2. PICK k \in 1 .. m : s[k].node = n
  BY DEF Called
<1>3. /\ \A i \in 1 .. m : i < m => s[i + 1].node \in g[s[i].node]
      /\ n \in g[s[m].node]
  BY <1>1 DEF Calls
<1>5. \A i \in 1 .. m : s[i].node \in Node
  BY FrameFacts
<1> DEFINE S == {s[i].node : i \in k .. m}
<1> HIDE DEF m
<1>4. k \in k .. m /\ \A i \in k .. m : i \in 1 .. m
  BY <1>1, <1>2
<1>6. S \in SUBSET DOMAIN g /\ S # {}
  BY <1>4, <1>5
<1>7. ASSUME NEW u \in S PROVE g[u] \cap S # {}
  <2>1. PICK i \in k .. m : u = s[i].node
    OBVIOUS
  <2>2. CASE i = m
    BY <1>2, <1>3, <1>4, <2>1, <2>2
  <2>3. CASE i # m
    <3>1. i \in 1 .. m /\ i < m /\ i + 1 \in k .. m
      BY <1>1, <1>2, <2>3
    <3> QED BY <1>3, <2>1, <3>1
  <2> QED BY <2>2, <2>3
<1> HIDE DEF S
<1> QED BY <1>6, <1>7 DEF CycleFree

LEMMA SearchStarts ==
  SearchInit => SearchInv
<1> SUFFICES ASSUME SearchInit PROVE SearchInv
  OBVIOUS
<1>1. SearchShape /\ AnswerIsRight
  BY DEF SearchInit, SearchShape, AnswerIsRight
<1>2. frames = <<>> /\ visiting = {} /\ visited = {} /\ roots = Node
  BY DEF SearchInit
<1>3. Called(<<>>) = {} /\ Calls(<<>>, graph, {})
  BY DEF Called, Calls
<1>4. Done({}, graph)
  BY DEF Done
<1> QED BY <1>1, <1>2, <1>3, <1>4 DEF SearchInv

LEMMA VisitRootKeeps ==
  ASSUME SearchInv, NEW n \in Node, VisitRoot(n) PROVE SearchInv'
<1>1. frames = <<>> /\ visiting = {} /\ outcome = "searching" /\ graph' = graph
      /\ roots' = roots \ {n}
  BY DEF VisitRoot, SearchInv, Called
<1>2. CASE n \in visited /\ frames' = <<>> /\ UNCHANGED <<visiting, visited, outcome>>
  BY <1>1, <1>2 DEF SearchInv, SearchShape, AnswerIsRight
<1>3. CASE /\ n \notin visited
           /\ visiting' = {n} /\ frames' = <<[node |-> n, children |-> graph[n]]>>
           /\ UNCHANGED <<visited, outcome>>
  <2> DEFINE e == [node |-> n, children |-> graph[n]]
             t == <<e>>
  <2>1. e \in Frame /\ e.node = n /\ e.children = graph[n]
    BY DEF Frame, SearchInv, SearchShape
  <2> HIDE DEF e
  <2>2. t \in Seq(Frame) /\ Len(t) = 1 /\ t[1] = e
    BY <2>1
  <2>3. 1 .. 1 = {1}
    OBVIOUS
  <2> HIDE DEF t
  <2>4. Called(t) = {n}
    BY <2>1, <2>2, <2>3 DEF Called
  <2>5. Calls(t, graph, visited)
    BY <2>1, <2>2, <2>3 DEF Calls
  <2>6. frames' = t
    BY <1>3 DEF t, e
  <2>7. SearchShape' /\ AnswerIsRight'
    BY <1>1, <1>3, <2>2, <2>6 DEF SearchInv, SearchShape, AnswerIsRight
  <2>8. Calls(frames', graph', visited') /\ Called(frames') = {n}
    BY <1>1, <1>3, <2>4, <2>5, <2>6
  <2>9. Done(visited', graph')
    BY <1>1, <1>3 DEF SearchInv
  <2>10. Node \subseteq roots' \cup visiting' \cup visited'
    BY <1>1, <1>3 DEF SearchInv
  <2>11. visited' \cap visiting' = {}
    BY <1>3
  <2> QED BY <1>3, <2>7, <2>8, <2>9, <2>10, <2>11 DEF SearchInv
<1>4. Append(<<>>, [node |-> n, children |-> graph[n]]) = <<[node |-> n, children |-> graph[n]]>>
  OBVIOUS
<1> QED BY <1>1, <1>2, <1>3, <1>4 DEF VisitRoot, Enter

LEMMA VisitChildKeeps ==
  ASSUME SearchInv, NEW n \in Node, VisitChild(n) PROVE SearchInv'
<1> DEFINE below == Append(Callers, [Top EXCEPT !.children = @ \ {n}])
           more == Append(below, [node |-> n, children |-> graph[n]])
<1>1. /\ frames # <<>> /\ n \in frames[Len(frames)].children /\ outcome = "searching"
      /\ graph' = graph /\ roots' = roots /\ Enter(n, below)
  BY DEF VisitChild, Top
<1>2. /\ graph \in [Node -> SUBSET Node] /\ frames \in Seq(Frame)
      /\ Calls(frames, graph, visited) /\ visiting = Called(frames)
  BY DEF SearchInv, SearchShape
<1>3. CASE n \in visiting /\ outcome' = "dependency_cycle"
           /\ UNCHANGED <<frames, visiting, visited>>
  <2>1. ~ CycleFree(graph)
    BY <1>1, <1>2, <1>3, BackEdge
  <2> QED BY <1>1, <1>3, <2>1 DEF SearchInv, SearchShape, AnswerIsRight
<1>4. CASE n \in visited /\ frames' = below /\ UNCHANGED <<visiting, visited, outcome>>
  <2>1. below \in Seq(Frame) /\ Calls(below, graph, visited) /\ Called(below) = Called(frames)
    BY <1>1, <1>2, <1>4, ChildDone DEF Top, Callers
  <2> HIDE DEF below
  <2> QED BY <1>1, <1>4, <2>1 DEF SearchInv, SearchShape, AnswerIsRight
<1>5. CASE /\ n \notin visiting \cup visited /\ visiting' = visiting \cup {n}
           /\ frames' = more /\ UNCHANGED <<visited, outcome>>
  <2>1. /\ more \in Seq(Frame) /\ Calls(more, graph, visited)
        /\ Called(more) = Called(frames) \cup {n}
    <3>1. n \notin Called(frames) /\ n \in frames[Len(frames)].children
      BY <1>1, <1>2, <1>5
    <3> HIDE DEF Called, Calls
    <3> QED BY <1>1, <1>2, <3>1, ChildCalled DEF Top, Callers
  <2> HIDE DEF more
  <2> QED BY <1>1, <1>5, <2>1 DEF SearchInv, SearchShape, AnswerIsRight
<1> QED BY <1>1, <1>3, <1>4, <1>5 DEF Enter

LEMMA ReturnKeeps ==
  ASSUME SearchInv, Return PROVE SearchInv'
<1> DEFINE n == frames[Len(frames)].node
           t == SubSeq(frames, 1, Len(frames) - 1)
<1>1. /\ frames # <<>> /\ frames[Len(frames)].children = {} /\ outcome = "searching"
      /\ visiting' = visiting \ {n} /\ visited' = visited \cup {n} /\ frames' = t
      /\ UNCHANGED <<graph, roots, outcome>>
  BY DEF Return, Top, Callers
<1>2. /\ t \in Seq(Frame) /\ Calls(t, graph, visited \cup {n}) /\ Done(visited \cup {n}, graph)
      /\ n \in Node /\ n \in Called(frames) /\ Called(t) = Called(frames) \ {n}
  BY <1>1, CallReturns DEF SearchInv, SearchShape
<1> HIDE DEF n, t
<1> QED BY <1>1, <1>2 DEF SearchInv, SearchShape, AnswerIsRight

LEMMA FinishKeeps ==
  ASSUME SearchInv, Finish PROVE SearchInv'
<1>1. frames = <<>> /\ roots = {} /\ outcome' = "ok"
      /\ UNCHANGED <<graph, roots, frames, visiting, visited>>
  BY DEF Finish
<1>2. visiting = {}
  BY <1>1 DEF SearchInv, Called
<1>3. visited = Node /\ DOMAIN graph = Node
  BY <1>1, <1>2 DEF SearchInv, SearchShape
<1>4. CycleFree(graph)
  BY <1>3 DEF SearchInv, Done, CycleFree
<1> QED BY <1>1, <1>4 DEF SearchInv, SearchShape, AnswerIsRight

\* teams/tasks.py, _validate_dependencies: on every graph of any size the
\* search refuses a cycle and nothing else.
THEOREM AnswerIsRightTheorem ==
  SearchSpec => []AnswerIsRight
<1>1. SearchInit => SearchInv
  BY SearchStarts
<1>2. SearchInv /\ [SearchNext]_searchVars => SearchInv'
  <2> SUFFICES ASSUME SearchInv, [SearchNext]_searchVars PROVE SearchInv'
    OBVIOUS
  <2>1. CASE \E n \in Node : VisitRoot(n) \/ VisitChild(n)
    BY <2>1, VisitRootKeeps, VisitChildKeeps
  <2>2. CASE Return
    BY <2>2, ReturnKeeps
  <2>3. CASE Finish
    BY <2>3, FinishKeeps
  <2>4. CASE UNCHANGED searchVars
    BY <2>4 DEF searchVars, SearchInv, SearchShape, AnswerIsRight
  <2> QED BY <2>1, <2>2, <2>3, <2>4 DEF SearchNext
<1>3. SearchInv => AnswerIsRight
  BY DEF SearchInv
<1> QED BY <1>1, <1>2, <1>3, PTL DEF SearchSpec

\* What TeamTasks takes for granted is what the search says.
THEOREM SearchSaysAcyclic ==
  SearchSpec => [](/\ outcome = "dependency_cycle" => ~ Acyclic(graph)
                   /\ outcome = "ok" => Acyclic(graph))
<1>1. AnswerIsRight => /\ outcome = "dependency_cycle" => ~ Acyclic(graph)
                       /\ outcome = "ok" => Acyclic(graph)
  BY DEF AnswerIsRight, Acyclic, CycleFree
<1> QED BY <1>1, AnswerIsRightTheorem, PTL
=============================================================================
