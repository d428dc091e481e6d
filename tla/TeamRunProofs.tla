---------------------------- MODULE TeamRunProofs ----------------------------
(***************************************************************************)
(* Proofs about the lead and the members at work, for every set of tasks   *)
(* and members, every dependency graph and every bound: whoever works on a *)
(* task is its assignee, and what needs an approval has one.               *)
(***************************************************************************)
EXTENDS TeamRun, TLAPS

Status == {"pending", "blocked", "in_progress", "completed", "failed"}
Holding == {"get", "claim", "work", "effect", "reread", "finish"}

\* A thread that is at a task has one.
TaskIsHeld == \A m \in Member : thread[m].at \in Holding => thread[m].task \in Task

\* The assign call that still has to send its message was counted.
SendIsCounted == lead.call = "send" => spent["assigns"] \in 1..MaxAssigns

\* The version a member claims at is one the task has had, and if the task
\* still has it, the task is pending as it was when it was read.
ClaimIsCurrent ==
  \A m \in Member : thread[m].at = "claim" =>
    /\ thread[m].version <= tasks[thread[m].task].version
    /\ tasks[thread[m].task].version = thread[m].version
         => tasks[thread[m].task].status = "pending"

IInv == /\ TypeOK /\ TaskIsHeld /\ SendIsCounted /\ ClaimIsCurrent
        /\ ResultIsAssignees /\ EffectsApproved

-----------------------------------------------------------------------------
(* What a call of the task list does *)

Moved(r, s) == [r EXCEPT !.status = s, !.version = @ + 1]

LEMMA RecordSet ==
  ASSUME NEW r \in TaskRecord, NEW s \in Status
  PROVE  LET b == Moved(r, s) IN
         /\ b \in TaskRecord /\ b.status = s
         /\ b.assignee = r.assignee /\ b.version = r.version + 1
<1>1. r.version \in Nat /\ r.version + 1 \in Nat
  BY DEF TaskRecord
<1> QED BY <1>1 DEF TaskRecord, Status, Moved

\* _refresh_blocked changes only tasks that wait, and their version with them.
LEMMA RefreshKeeps ==
  ASSUME NEW store \in [Task -> TaskRecord]
  PROVE  LET after == RefreshBlocked(store) IN
         /\ after \in [Task -> TaskRecord]
         /\ \A t \in Task :
              \/ after[t] = store[t]
              \/ /\ store[t].status \in {"pending", "blocked"}
                 /\ after[t].status \in {"pending", "blocked"}
                 /\ after[t].assignee = store[t].assignee
                 /\ after[t].version = store[t].version + 1
<1> DEFINE after == RefreshBlocked(store)
<1>1. ASSUME NEW t \in Task
      PROVE  \/ after[t] = store[t]
             \/ /\ store[t].status \in {"pending", "blocked"}
                /\ \E s \in {"pending", "blocked"} :
                     after[t] = Moved(store[t], s)
  BY DEF RefreshBlocked, Moved
<1>2. after = [t \in Task |-> after[t]]
  BY DEF RefreshBlocked
<1> HIDE DEF after
<1>3. ASSUME NEW t \in Task
      PROVE  /\ after[t] \in TaskRecord
             /\ \/ after[t] = store[t]
                \/ /\ store[t].status \in {"pending", "blocked"}
                   /\ after[t].status \in {"pending", "blocked"}
                   /\ after[t].assignee = store[t].assignee
                   /\ after[t].version = store[t].version + 1
  <2>1. store[t] \in TaskRecord
    OBVIOUS
  <2>2. CASE after[t] = store[t]
    BY <2>1, <2>2
  <2>3. CASE /\ store[t].status \in {"pending", "blocked"}
             /\ \E s \in {"pending", "blocked"} :
                  after[t] = Moved(store[t], s)
    <3>1. PICK s \in {"pending", "blocked"} :
            after[t] = Moved(store[t], s)
      BY <2>3
    <3>2. s \in Status
      BY DEF Status
    <3>3. /\ after[t] \in TaskRecord /\ after[t].status = s
          /\ after[t].assignee = store[t].assignee
          /\ after[t].version = store[t].version + 1
      BY <2>1, <3>1, <3>2, RecordSet
    <3> QED BY <2>3, <3>3
  <2> QED BY <1>1, <2>2, <2>3
<1> QED BY <1>2, <1>3 DEF after

LEMMA SavedKeeps ==
  ASSUME TypeOK, NEW t \in Task, NEW a \in Member \cup {None}, NEW s \in Status
  PROVE  LET after == Saved(t, a, s) IN
         /\ after \in [Task -> TaskRecord]
         /\ after[t].assignee = a /\ after[t].version > tasks[t].version
         /\ s \notin {"pending", "blocked"} => after[t].status = s
         /\ \A u \in Task \ {t} :
              \/ after[u] = tasks[u]
              \/ /\ tasks[u].status \in {"pending", "blocked"}
                 /\ after[u].status \in {"pending", "blocked"}
                 /\ after[u].assignee = tasks[u].assignee
                 /\ after[u].version = tasks[u].version + 1
<1> DEFINE new == [status |-> s, assignee |-> a, version |-> tasks[t].version + 1]
           store == [tasks EXCEPT ![t] = new]
           after == Saved(t, a, s)
<1>1. tasks \in [Task -> TaskRecord]
  BY DEF TypeOK
<1>2. tasks[t].version \in Nat
  BY <1>1 DEF TaskRecord
<1>3. new \in TaskRecord /\ new.assignee = a /\ new.status = s
      /\ new.version = tasks[t].version + 1
  BY <1>2 DEF TaskRecord, Status
<1>4. after = RefreshBlocked(store)
  BY DEF Saved
<1> HIDE DEF new
<1>5. store \in [Task -> TaskRecord] /\ store[t] = new
      /\ \A u \in Task \ {t} : store[u] = tasks[u]
  BY <1>1, <1>3
<1> HIDE DEF store, after
<1>6. /\ after \in [Task -> TaskRecord]
      /\ \A u \in Task :
           \/ after[u] = store[u]
           \/ /\ store[u].status \in {"pending", "blocked"}
              /\ after[u].status \in {"pending", "blocked"}
              /\ after[u].assignee = store[u].assignee
              /\ after[u].version = store[u].version + 1
  BY <1>4, <1>5, RefreshKeeps
<1>7. after[t].assignee = a /\ after[t].version > tasks[t].version
  BY <1>2, <1>3, <1>5, <1>6
<1>8. s \notin {"pending", "blocked"} => after[t].status = s
  BY <1>3, <1>5, <1>6
<1> QED BY <1>5, <1>6, <1>7, <1>8 DEF after

\* A call that changes a task nobody works on (or that a model's update is
\* charged for) keeps what members rely on.
LEMMA SaveKeeps ==
  ASSUME IInv, NEW t \in Task, NEW a \in Member \cup {None}, NEW s \in Status,
         tasks' = Saved(t, a, s)
  PROVE  /\ tasks' \in [Task -> TaskRecord]
         /\ tasks'[t].assignee = a
         /\ s \notin {"pending", "blocked"} => tasks'[t].status = s
         /\ \A u \in Task : tasks[u].version \in Nat /\ tasks'[u].version \in Nat
         /\ \A u \in Task : tasks'[u].version >= tasks[u].version
         /\ tasks'[t].version # tasks[t].version
         /\ \A u \in Task : tasks'[u].version = tasks[u].version => tasks'[u] = tasks[u]
         /\ \A u \in Task \ {t} : tasks[u].status = "in_progress" => tasks'[u] = tasks[u]
<1>1. TypeOK
  BY DEF IInv
<1> DEFINE after == Saved(t, a, s)
<1>a. /\ after \in [Task -> TaskRecord]
      /\ after[t].assignee = a /\ after[t].version > tasks[t].version
      /\ s \notin {"pending", "blocked"} => after[t].status = s
      /\ \A u \in Task \ {t} :
           \/ after[u] = tasks[u]
           \/ /\ tasks[u].status \in {"pending", "blocked"}
              /\ after[u].status \in {"pending", "blocked"}
              /\ after[u].assignee = tasks[u].assignee
              /\ after[u].version = tasks[u].version + 1
  BY <1>1, SavedKeeps
<1>b. tasks' = after
  OBVIOUS
<1> HIDE DEF after
<1>2. /\ tasks' \in [Task -> TaskRecord]
      /\ tasks'[t].assignee = a /\ tasks'[t].version > tasks[t].version
      /\ s \notin {"pending", "blocked"} => tasks'[t].status = s
      /\ \A u \in Task \ {t} :
           \/ tasks'[u] = tasks[u]
           \/ /\ tasks[u].status \in {"pending", "blocked"}
              /\ tasks'[u].version = tasks[u].version + 1
  BY <1>a, <1>b
<1>3. \A u \in Task : tasks[u].version \in Nat /\ tasks'[u].version \in Nat
  BY <1>1, <1>2 DEF TypeOK, TaskRecord
<1>4. tasks'[t].version # tasks[t].version
  BY <1>2, <1>3
<1>5. \A u \in Task : /\ tasks'[u].version >= tasks[u].version
                      /\ tasks'[u].version = tasks[u].version => tasks'[u] = tasks[u]
  BY <1>2, <1>3
<1> QED BY <1>2, <1>3, <1>4, <1>5

LEMMA SpendKeeps ==
  ASSUME TypeOK, NEW w \in {"assigns", "updates", "timeouts"}, Spend(w)
  PROVE  /\ spent' \in [{"assigns", "updates", "timeouts"} -> Nat]
         /\ spent'["updates"] = 0 => spent["updates"] = 0 /\ w # "updates"
         /\ w = "assigns" => spent'["assigns"] = spent["assigns"] + 1
         /\ w # "assigns" => spent'["assigns"] = spent["assigns"]
BY DEF TypeOK, Spend

-----------------------------------------------------------------------------
(* What steps have in common *)

Working == {"work", "effect", "reread", "finish"}

\* The parts of the invariant that do not speak of types.
ThreadInv == TaskIsHeld /\ ClaimIsCurrent /\ ResultIsAssignees /\ EffectsApproved

\* A call on the task list by a model or by the lead: nobody works on the
\* task, or the call is a model's update.
LEMMA LeadSaves ==
  ASSUME IInv, NEW t \in Task, NEW a \in Member \cup {None}, NEW s \in Status,
         tasks' = Saved(t, a, s), UNCHANGED <<thread, plan>>,
         spent'["updates"] = 0 =>
           spent["updates"] = 0 /\ tasks[t].status \in {"pending", "blocked"}
  PROVE  ThreadInv'
<1>1. /\ \A u \in Task : tasks[u].version \in Nat /\ tasks'[u].version \in Nat
      /\ \A u \in Task : tasks'[u].version >= tasks[u].version
      /\ \A u \in Task : tasks'[u].version = tasks[u].version => tasks'[u] = tasks[u]
      /\ \A u \in Task \ {t} : tasks[u].status = "in_progress" => tasks'[u] = tasks[u]
  BY SaveKeeps
<1>2. TaskIsHeld'
  BY DEF IInv, TaskIsHeld
<1>3. ClaimIsCurrent'
  <2> SUFFICES ASSUME NEW m \in Member, thread[m].at = "claim"
               PROVE  /\ thread[m].version <= tasks'[thread[m].task].version
                      /\ tasks'[thread[m].task].version = thread[m].version
                           => tasks'[thread[m].task].status = "pending"
    BY DEF ClaimIsCurrent
  <2>1. thread[m].task \in Task /\ thread[m].version \in Nat
    BY DEF IInv, TaskIsHeld, Holding, TypeOK, Thread
  <2>2. /\ thread[m].version <= tasks[thread[m].task].version
        /\ tasks[thread[m].task].version = thread[m].version
             => tasks[thread[m].task].status = "pending"
    BY DEF IInv, ClaimIsCurrent
  <2> QED BY <1>1, <2>1, <2>2
<1>4. ResultIsAssignees'
  <2> SUFFICES ASSUME spent'["updates"] = 0, NEW m \in Member, Executing(m)
               PROVE  /\ tasks'[thread[m].task].status = "in_progress"
                      /\ tasks'[thread[m].task].assignee = m
    BY DEF ResultIsAssignees, Executing
  <2>1. thread[m].task \in Task
    BY DEF IInv, TaskIsHeld, Holding, Executing
  <2>2. /\ tasks[thread[m].task].status = "in_progress"
        /\ tasks[thread[m].task].assignee = m
    BY DEF IInv, ResultIsAssignees
  <2>3. thread[m].task # t
    BY <2>2
  <2> QED BY <1>1, <2>1, <2>2, <2>3
<1>5. EffectsApproved'
  BY DEF IInv, EffectsApproved
<1> QED BY <1>2, <1>3, <1>4, <1>5 DEF ThreadInv

\* A thread moves on while the task list stays as it is.
LEMMA ThreadMoves ==
  ASSUME IInv, NEW m \in Member, NEW new \in Thread,
         thread' = [thread EXCEPT ![m] = new],
         UNCHANGED tasks, spent'["updates"] = 0 => spent["updates"] = 0,
         \A n \in Member, t \in Task : n # m => plan'[n][t] = plan[n][t],
         new.at \in Holding => new.task \in Task,
         new.at = "claim" => /\ new.version <= tasks[new.task].version
                             /\ tasks[new.task].version = new.version
                                  => tasks[new.task].status = "pending",
         new.at \in Working => thread[m].at \in Working /\ new.task = thread[m].task,
         new.at = "effect" /\ m \in Approval => plan'[m][new.task] = "allowed"
  PROVE  thread' \in [Member -> Thread] /\ ThreadInv'
<1>1. thread \in [Member -> Thread]
  BY DEF IInv, TypeOK
<1>2. thread' \in [Member -> Thread]
  BY <1>1
<1>3. \A n \in Member : thread'[n] = IF n = m THEN new ELSE thread[n]
  BY <1>1
<1>4. TaskIsHeld'
  BY <1>3 DEF IInv, TaskIsHeld
<1>5. ClaimIsCurrent'
  BY <1>3 DEF IInv, ClaimIsCurrent
<1>6. ResultIsAssignees'
  BY <1>3 DEF IInv, ResultIsAssignees, Executing, Working
<1>7. EffectsApproved'
  <2> SUFFICES ASSUME NEW n \in Approval, thread'[n].at = "effect"
               PROVE  plan'[n][thread'[n].task] = "allowed"
    BY DEF EffectsApproved
  <2>1. n \in Member
    BY NamesAssumption
  <2>2. CASE n = m
    BY <1>3, <2>1, <2>2
  <2>3. CASE n # m
    BY <1>3, <2>1, <2>3 DEF IInv, EffectsApproved, TaskIsHeld, Holding
  <2> QED BY <2>2, <2>3
<1> QED BY <1>2, <1>4, <1>5, <1>6, <1>7 DEF ThreadInv

\* The lead's step leaves threads, tasks and plans of members alone.
LEMMA ThreadsStay ==
  ASSUME IInv, UNCHANGED <<tasks, thread>>,
         spent'["updates"] = 0 => spent["updates"] = 0,
         \A n \in Member, t \in Task :
           plan[n][t] = "allowed" => plan'[n][t] = "allowed"
  PROVE  ThreadInv'
<1>1. TaskIsHeld' /\ ClaimIsCurrent'
  BY DEF IInv, TaskIsHeld, ClaimIsCurrent
<1>2. ResultIsAssignees'
  BY DEF IInv, ResultIsAssignees, Executing
<1>3. EffectsApproved'
  BY NamesAssumption DEF IInv, EffectsApproved, TaskIsHeld, Holding
<1> QED BY <1>1, <1>2, <1>3 DEF ThreadInv

-----------------------------------------------------------------------------
(* One lemma per action of the lead *)

LEMMA AssignKeeps ==
  ASSUME IInv, NEW t \in Task, NEW m \in Member, Assign(t, m)
  PROVE  IInv'
<1>1. TypeOK
  BY DEF IInv
<1>2. tasks' = Saved(t, m, tasks[t].status) /\ tasks[t].status \in Status
      /\ tasks[t].status \in {"pending", "blocked"}
  BY DEF Assign, Status
<1>3. /\ spent' \in [{"assigns", "updates", "timeouts"} -> Nat]
      /\ spent'["updates"] = 0 => spent["updates"] = 0
      /\ spent'["assigns"] = spent["assigns"] + 1
  BY <1>1, SpendKeeps DEF Assign
<1>4. tasks' \in [Task -> TaskRecord]
  BY <1>2, SaveKeeps
<1>5. TypeOK'
  BY <1>1, <1>3, <1>4 DEF Assign, TypeOK
<1>6. SendIsCounted'
  BY <1>1, <1>3, BoundsAssumption DEF Assign, SendIsCounted, TypeOK
<1>7. ThreadInv'
  BY <1>2, <1>3, LeadSaves DEF Assign
<1> QED BY <1>5, <1>6, <1>7 DEF IInv, ThreadInv

LEMMA SetStatusKeeps ==
  ASSUME IInv, NEW t \in Task, NEW s \in {"pending", "failed"}, SetStatus(t, s)
  PROVE  IInv'
<1>1. TypeOK
  BY DEF IInv
<1>2. tasks' = Saved(t, tasks[t].assignee, s) /\ s \in Status
      /\ tasks[t].assignee \in Member \cup {None}
  BY <1>1 DEF SetStatus, Status, TypeOK, TaskRecord
<1>3. /\ spent' \in [{"assigns", "updates", "timeouts"} -> Nat]
      /\ spent'["updates"] # 0
      /\ spent'["assigns"] = spent["assigns"]
  BY <1>1, SpendKeeps DEF SetStatus
<1>4. tasks' \in [Task -> TaskRecord]
  BY <1>2, SaveKeeps
<1>5. TypeOK'
  BY <1>1, <1>3, <1>4 DEF SetStatus, TypeOK
<1>6. SendIsCounted'
  BY <1>3 DEF SetStatus, SendIsCounted, IInv
<1>7. ThreadInv'
  BY <1>2, <1>3, LeadSaves DEF SetStatus
<1> QED BY <1>5, <1>6, <1>7 DEF IInv, ThreadInv

LEMMA ModelClaimKeeps ==
  ASSUME IInv, NEW t \in Task, NEW m \in Member, ModelClaim(t, m)
  PROVE  IInv'
<1>1. TypeOK
  BY DEF IInv
<1>2. tasks' = Saved(t, m, "in_progress") /\ "in_progress" \in Status
  BY DEF ModelClaim, Status
<1>3. /\ spent' \in [{"assigns", "updates", "timeouts"} -> Nat]
      /\ spent'["updates"] # 0
      /\ spent'["assigns"] = spent["assigns"]
  BY <1>1, SpendKeeps DEF ModelClaim
<1>4. tasks' \in [Task -> TaskRecord]
  BY <1>2, SaveKeeps
<1>5. TypeOK'
  BY <1>1, <1>3, <1>4 DEF ModelClaim, TypeOK
<1>6. SendIsCounted'
  BY <1>3 DEF ModelClaim, SendIsCounted, IInv
<1>7. ThreadInv'
  BY <1>2, <1>3, LeadSaves DEF ModelClaim
<1> QED BY <1>5, <1>6, <1>7 DEF IInv, ThreadInv

LEMMA SendAssignmentKeeps ==
  ASSUME IInv, SendAssignment
  PROVE  IInv'
<1>1. TypeOK /\ spent["assigns"] \in 1..MaxAssigns
  BY DEF IInv, SendIsCounted, SendAssignment
<1>2. lead.task \in Task /\ lead.member \in Member
  BY <1>1 DEF TypeOK, SendAssignment
<1>3. <<lead.task, spent["assigns"]>> \in Message
  BY <1>1, <1>2 DEF Message
<1>4. TypeOK'
  BY <1>1, <1>2, <1>3 DEF SendAssignment, TypeOK
<1>5. SendIsCounted'
  BY DEF SendAssignment, SendIsCounted
<1>6. ThreadInv'
  BY ThreadsStay DEF SendAssignment
<1> QED BY <1>4, <1>5, <1>6 DEF IInv, ThreadInv

LEMMA DecideKeeps ==
  ASSUME IInv, NEW m \in Member, NEW t \in Task, NEW d \in {"allowed", "denied"},
         Decide(m, t, d)
  PROVE  IInv'
<1>1. TypeOK
  BY DEF IInv
<1>2. TypeOK'
  BY <1>1 DEF Decide, TypeOK
<1>3. SendIsCounted'
  BY DEF IInv, Decide, SendIsCounted
<1>4. \A n \in Member, u \in Task : plan[n][u] = "allowed" => plan'[n][u] = "allowed"
  BY <1>1 DEF Decide, TypeOK
<1>5. ThreadInv'
  BY <1>4, ThreadsStay DEF Decide
<1> QED BY <1>2, <1>3, <1>5 DEF IInv, ThreadInv

LEMMA SendTimeoutKeeps ==
  ASSUME IInv, SendTimeout
  PROVE  IInv'
<1>1. TypeOK
  BY DEF IInv
<1>2. /\ spent' \in [{"assigns", "updates", "timeouts"} -> Nat]
      /\ spent'["updates"] = 0 => spent["updates"] = 0
  BY <1>1, SpendKeeps DEF SendTimeout
<1>3. roster' \in [Member -> {"idle", "working", "waiting_approval", "failed", "stopped"}]
  BY <1>1 DEF SendTimeout, TypeOK
<1>4. TypeOK'
  BY <1>1, <1>2, <1>3 DEF SendTimeout, TypeOK
<1>5. SendIsCounted'
  BY DEF SendTimeout, SendIsCounted
<1>6. ThreadInv'
  BY <1>2, ThreadsStay DEF SendTimeout
<1> QED BY <1>4, <1>5, <1>6 DEF IInv, ThreadInv

LEMMA StoppingKeeps ==
  ASSUME IInv, (\E m \in Member : Stop(m)) \/ SendStop \/ StopBackend \/ Join
  PROVE  IInv'
<1>1. TypeOK
  BY DEF IInv
<1>2. UNCHANGED <<tasks, plan, thread, spent>> /\ lead'.call # "send"
  BY DEF Stop, SendStop, StopBackend, Join
<1>3. TypeOK'
  <2>1. CASE \E m \in Member : Stop(m)
    BY <1>1, <2>1 DEF Stop, TypeOK
  <2>2. CASE SendStop
    BY <1>1, <2>2 DEF SendStop, TypeOK, Message
  <2>3. CASE StopBackend
    BY <1>1, <2>3 DEF StopBackend, TypeOK
  <2>4. CASE Join
    BY <1>1, <2>4 DEF Join, TypeOK
  <2> QED BY <2>1, <2>2, <2>3, <2>4
<1>4. SendIsCounted'
  BY <1>2 DEF SendIsCounted
<1>5. ThreadInv'
  BY <1>2, ThreadsStay
<1> QED BY <1>3, <1>4, <1>5 DEF IInv, ThreadInv

-----------------------------------------------------------------------------
(* One lemma per action of a member's thread *)

LEMMA PollKeeps ==
  ASSUME IInv, NEW m \in Member, Poll(m)
  PROVE  IInv'
<1>1. TypeOK /\ thread[m] \in Thread
  BY DEF IInv, TypeOK
<1>2. PICK new \in Thread : /\ thread' = [thread EXCEPT ![m] = new]
                            /\ new.at \in {"exited", "list", "next"}
  <2>1. CASE Go(m, "exited")
    <3> DEFINE new == [thread[m] EXCEPT !.at = "exited"]
    <3>1. new \in Thread /\ new.at = "exited"
      BY <1>1 DEF Thread, At
    <3>2. thread' = [thread EXCEPT ![m] = new]
      BY <2>1 DEF Go
    <3> HIDE DEF new
    <3> QED BY <3>1, <3>2
  <2>2. CASE /\ StopMessage \notin mail[m]
             /\ thread' = [thread EXCEPT ![m].at = IF mail[m] = {} THEN "list" ELSE "next",
                                         ![m].batch = mail[m]]
    <3> DEFINE new == [thread[m] EXCEPT !.at = IF mail[m] = {} THEN "list" ELSE "next",
                                        !.batch = mail[m]]
    <3>1. mail[m] \subseteq Task \X (0..MaxAssigns)
      BY <1>1, <2>2 DEF TypeOK, Message
    <3>2. new \in Thread /\ new.at \in {"list", "next"}
      BY <1>1, <3>1 DEF Thread, At
    <3>3. thread' = [thread EXCEPT ![m] = new]
      BY <2>2
    <3> HIDE DEF new
    <3> QED BY <3>2, <3>3
  <2> QED BY <2>1, <2>2 DEF Poll
<1>3. thread' \in [Member -> Thread] /\ ThreadInv'
  BY <1>2, ThreadMoves DEF Poll, Holding, Working
<1>4. mail' \in [Member -> SUBSET Message] /\ stopping' \in [Member -> BOOLEAN]
  <2>1. mail \in [Member -> SUBSET Message] /\ stopping \in [Member -> BOOLEAN]
    BY <1>1 DEF TypeOK
  <2>2. mail' \in [Member -> SUBSET Message]
    BY <2>1 DEF Poll
  <2>3. stopping' \in [Member -> BOOLEAN]
    BY <2>1 DEF Poll
  <2> QED BY <2>2, <2>3
<1>5. TypeOK'
  BY <1>1, <1>3, <1>4 DEF Poll, TypeOK
<1>6. SendIsCounted'
  BY DEF IInv, SendIsCounted, Poll
<1> QED BY <1>3, <1>5, <1>6 DEF IInv, ThreadInv

LEMMA ListOwnKeeps ==
  ASSUME IInv, NEW m \in Member, ListOwn(m)
  PROVE  IInv'
<1>1. TypeOK /\ thread[m] \in Thread
  BY DEF IInv, TypeOK
<1> DEFINE own == {t \in Task : tasks[t].assignee = m /\ tasks[t].status = "pending"}
           new == [thread[m] EXCEPT !.at = IF own = {} THEN "poll" ELSE "self",
                                    !.batch = own \X {0}]
<1>2. own \X {0} \subseteq Task \X (0..MaxAssigns)
  BY BoundsAssumption
<1>3. thread' = [thread EXCEPT ![m] = new]
  BY DEF ListOwn
<1>4. new \in Thread /\ new.at \in {"poll", "self"}
  <2> HIDE DEF own
  <2> QED BY <1>1, <1>2 DEF Thread, At
<1> HIDE DEF new
<1>5. thread' \in [Member -> Thread] /\ ThreadInv'
  BY <1>3, <1>4, ThreadMoves DEF ListOwn, Holding, Working
<1>6. TypeOK'
  BY <1>1, <1>5 DEF ListOwn, TypeOK
<1>7. SendIsCounted'
  BY DEF IInv, SendIsCounted, ListOwn
<1> QED BY <1>5, <1>6, <1>7 DEF IInv, ThreadInv

LEMMA TakeOwnKeeps ==
  ASSUME IInv, NEW m \in Member, TakeOwn(m)
  PROVE  IInv'
<1>1. TypeOK /\ thread[m] \in Thread
  BY DEF IInv, TypeOK
<1>2. PICK new \in Thread : /\ thread' = [thread EXCEPT ![m] = new]
                            /\ new.at \in {"poll", "get"}
                            /\ new.at = "get" => new.task \in Task
  <2>1. CASE Go(m, "poll")
    <3> DEFINE new == [thread[m] EXCEPT !.at = "poll"]
    <3>1. new \in Thread /\ new.at = "poll"
      BY <1>1 DEF Thread, At
    <3>2. thread' = [thread EXCEPT ![m] = new]
      BY <2>1 DEF Go
    <3> HIDE DEF new
    <3> QED BY <3>1, <3>2
  <2>2. CASE \E item \in thread[m].batch :
               thread' = [thread EXCEPT ![m].at = "get", ![m].from = "self",
                                        ![m].task = item[1], ![m].batch = @ \ {item}]
    <3>1. PICK item \in thread[m].batch :
            thread' = [thread EXCEPT ![m].at = "get", ![m].from = "self",
                                     ![m].task = item[1], ![m].batch = @ \ {item}]
      BY <2>2
    <3> DEFINE rest == thread[m].batch \ {item}
               new == [thread[m] EXCEPT !.at = "get", !.from = "self",
                                        !.task = item[1], !.batch = rest]
    <3>2. item[1] \in Task /\ rest \subseteq Task \X (0..MaxAssigns)
      BY <1>1 DEF Thread
    <3>3. thread' = [thread EXCEPT ![m] = new]
      BY <3>1
    <3> HIDE DEF rest
    <3>4. new \in Thread /\ new.at = "get" /\ new.task \in Task
      BY <1>1, <3>2 DEF Thread, At
    <3> HIDE DEF new
    <3> QED BY <3>3, <3>4
  <2> QED BY <2>1, <2>2 DEF TakeOwn
<1>3. thread' \in [Member -> Thread] /\ ThreadInv'
  BY <1>2, ThreadMoves DEF TakeOwn, Holding, Working
<1>4. TypeOK'
  BY <1>1, <1>3 DEF TakeOwn, TypeOK
<1>5. SendIsCounted'
  BY DEF IInv, SendIsCounted, TakeOwn
<1> QED BY <1>3, <1>4, <1>5 DEF IInv, ThreadInv

LEMMA NextMessageKeeps ==
  ASSUME IInv, NEW m \in Member, NextMessage(m)
  PROVE  IInv'
<1>1. TypeOK /\ thread[m] \in Thread /\ thread[m].at = "next"
  BY DEF IInv, TypeOK, NextMessage
<1>2. PICK new \in Thread : /\ thread' = [thread EXCEPT ![m] = new]
                            /\ new.at \in {"poll", "next", "get"}
                            /\ new.at = "get" => new.task \in Task
  <2>1. CASE Go(m, "poll")
    <3> DEFINE new == [thread[m] EXCEPT !.at = "poll"]
    <3>1. new \in Thread /\ new.at = "poll"
      BY <1>1 DEF Thread, At
    <3>2. thread' = [thread EXCEPT ![m] = new]
      BY <2>1 DEF Go
    <3> HIDE DEF new
    <3> QED BY <3>1, <3>2
  <2>2. ASSUME NEW msg \in thread[m].batch,
               thread' = [thread EXCEPT ![m].batch = @ \ {msg}]
        PROVE  \E new \in Thread : /\ thread' = [thread EXCEPT ![m] = new]
                                   /\ new.at = "next"
    <3> DEFINE rest == thread[m].batch \ {msg}
               new == [thread[m] EXCEPT !.batch = rest]
    <3>1. rest \subseteq Task \X (0..MaxAssigns)
      BY <1>1 DEF Thread
    <3>2. thread' = [thread EXCEPT ![m] = new]
      BY <2>2
    <3> HIDE DEF rest
    <3>3. new \in Thread /\ new.at = "next"
      BY <1>1, <3>1 DEF Thread
    <3> HIDE DEF new
    <3> QED BY <3>2, <3>3
  <2>3. ASSUME NEW msg \in thread[m].batch,
               thread' = [[thread EXCEPT ![m].batch = @ \ {msg}]
                            EXCEPT ![m].at = "get", ![m].from = "next", ![m].task = msg[1]]
        PROVE  \E new \in Thread : /\ thread' = [thread EXCEPT ![m] = new]
                                   /\ new.at = "get" /\ new.task \in Task
    <3> DEFINE rest == thread[m].batch \ {msg}
               new == [thread[m] EXCEPT !.batch = rest, !.at = "get", !.from = "next",
                                        !.task = msg[1]]
    <3>1. rest \subseteq Task \X (0..MaxAssigns) /\ msg[1] \in Task
      BY <1>1 DEF Thread
    <3>2. thread' = [thread EXCEPT ![m] = new]
      BY <1>1, <2>3 DEF TypeOK
    <3> HIDE DEF rest
    <3>3. new \in Thread /\ new.at = "get" /\ new.task \in Task
      BY <1>1, <3>1 DEF Thread, At
    <3> HIDE DEF new
    <3> QED BY <3>2, <3>3
  <2>4. CASE ~ Go(m, "poll")
    <3>1. PICK msg \in thread[m].batch :
            \/ thread' = [[thread EXCEPT ![m].batch = @ \ {msg}]
                            EXCEPT ![m].at = "get", ![m].from = "next", ![m].task = msg[1]]
            \/ thread' = [thread EXCEPT ![m].batch = @ \ {msg}]
      BY <2>4 DEF NextMessage
    <3> QED BY <2>2, <2>3, <3>1
  <2> QED BY <2>1, <2>4
<1>3. /\ \A n \in Member, t \in Task : n # m => plan'[n][t] = plan[n][t]
      /\ plan' \in [Member -> [Task -> {"none", "pending", "allowed", "denied"}]]
      /\ mail' \in [Member -> SUBSET Message]
      /\ roster' \in [Member -> {"idle", "working", "waiting_approval", "failed", "stopped"}]
  <2>1. /\ plan \in [Member -> [Task -> {"none", "pending", "allowed", "denied"}]]
        /\ mail \in [Member -> SUBSET Message]
        /\ roster \in [Member -> {"idle", "working", "waiting_approval", "failed", "stopped"}]
        /\ \A msg \in thread[m].batch : msg[1] \in Task
    BY <1>1 DEF TypeOK, Thread
  <2>2. mail' \in [Member -> SUBSET Message]
    BY <2>1 DEF NextMessage
  <2>3. roster' \in [Member -> {"idle", "working", "waiting_approval", "failed", "stopped"}]
    BY <2>1 DEF NextMessage
  <2>4. \/ UNCHANGED plan
        \/ \E t \in Task : plan' = [plan EXCEPT ![m][t] = "pending"]
    BY <2>1 DEF NextMessage
  <2>5. plan' \in [Member -> [Task -> {"none", "pending", "allowed", "denied"}]]
    BY <2>1, <2>4
  <2>6. \A n \in Member, t \in Task : n # m => plan'[n][t] = plan[n][t]
    BY <2>1, <2>4
  <2> QED BY <2>2, <2>3, <2>5, <2>6
<1>4. thread' \in [Member -> Thread] /\ ThreadInv'
  BY <1>2, <1>3, ThreadMoves DEF NextMessage, Holding, Working
<1>5. TypeOK'
  BY <1>1, <1>3, <1>4 DEF NextMessage, TypeOK
<1>6. SendIsCounted'
  BY DEF IInv, SendIsCounted, NextMessage
<1> QED BY <1>4, <1>5, <1>6 DEF IInv, ThreadInv

LEMMA GetTaskKeeps ==
  ASSUME IInv, NEW m \in Member, GetTask(m)
  PROVE  IInv'
<1>1. TypeOK /\ thread[m] \in Thread /\ thread[m].at = "get" /\ thread[m].task \in Task
  BY DEF IInv, TypeOK, GetTask, TaskIsHeld, Holding
<1>2. tasks[thread[m].task].version \in Nat
  BY <1>1 DEF TypeOK, TaskRecord
<1>3. PICK new \in Thread :
        /\ thread' = [thread EXCEPT ![m] = new]
        /\ \/ /\ new.at = "claim" /\ new.task = thread[m].task
              /\ new.version = tasks[new.task].version
              /\ tasks[new.task].status = "pending"
           \/ new.at \in {"self", "next"}
  <2>1. CASE tasks[thread[m].task].status = "pending"
    <3> DEFINE new == [thread[m] EXCEPT !.at = "claim",
                                        !.version = tasks[thread[m].task].version]
    <3>1. new \in Thread /\ new.at = "claim" /\ new.task = thread[m].task
          /\ new.version = tasks[thread[m].task].version
      BY <1>1, <1>2 DEF Thread, At
    <3>2. thread' = [thread EXCEPT ![m] = new]
      BY <2>1 DEF GetTask
    <3> HIDE DEF new
    <3> QED BY <2>1, <3>1, <3>2
  <2>2. CASE tasks[thread[m].task].status # "pending"
    <3> DEFINE new == [thread[m] EXCEPT !.at = thread[m].from, !.task = None]
    <3>1. new \in Thread /\ new.at \in {"self", "next"}
      BY <1>1 DEF Thread, At
    <3>2. thread' = [thread EXCEPT ![m] = new]
      BY <2>2 DEF GetTask
    <3> HIDE DEF new
    <3> QED BY <3>1, <3>2
  <2> QED BY <2>1, <2>2
<1>a. /\ new.at \in Holding => new.task \in Task
      /\ new.at \notin Working
      /\ new.at = "claim" => /\ new.version <= tasks[new.task].version
                             /\ tasks[new.task].version = new.version
                                  => tasks[new.task].status = "pending"
  BY <1>1, <1>2, <1>3 DEF Holding, Working
<1>4. thread' \in [Member -> Thread] /\ ThreadInv'
  BY <1>3, <1>a, ThreadMoves DEF GetTask, Working
<1>5. TypeOK'
  BY <1>1, <1>4 DEF GetTask, TypeOK
<1>6. SendIsCounted'
  BY DEF IInv, SendIsCounted, GetTask
<1> QED BY <1>4, <1>5, <1>6 DEF IInv, ThreadInv

LEMMA EffectStepsKeep ==
  ASSUME IInv, NEW m \in Member, StartEffect(m) \/ EndEffect(m) \/ Finishing(m)
  PROVE  IInv'
<1>1. TypeOK /\ thread[m] \in Thread /\ thread[m].at \in {"work", "effect"}
      /\ thread[m].task \in Task
  BY DEF IInv, TypeOK, StartEffect, EndEffect, Finishing, EndWork, TaskIsHeld, Holding
<1>2. PICK new \in Thread :
        /\ thread' = [thread EXCEPT ![m] = new]
        /\ new.at \in {"work", "effect", "reread"} /\ new.task = thread[m].task
        /\ new.at = "effect" => MayExecute(m, new.task)
  <2>1. CASE StartEffect(m)
    <3> DEFINE new == [thread[m] EXCEPT !.at = "effect"]
    <3>1. new \in Thread /\ new.at = "effect" /\ new.task = thread[m].task
      BY <1>1 DEF Thread, At
    <3>2. thread' = [thread EXCEPT ![m] = new] /\ MayExecute(m, thread[m].task)
      BY <2>1 DEF StartEffect, Go
    <3> HIDE DEF new
    <3> QED BY <3>1, <3>2
  <2>2. CASE EndEffect(m)
    <3> DEFINE new == [thread[m] EXCEPT !.at = "work"]
    <3>1. new \in Thread /\ new.at = "work" /\ new.task = thread[m].task
      BY <1>1 DEF Thread, At
    <3>2. thread' = [thread EXCEPT ![m] = new]
      BY <2>2 DEF EndEffect, Go
    <3> HIDE DEF new
    <3> QED BY <3>1, <3>2
  <2>3. CASE Finishing(m)
    <3>1. PICK ok \in BOOLEAN :
            thread' = [thread EXCEPT ![m].at = "reread", ![m].ok = ok]
      BY <2>3 DEF Finishing, EndWork
    <3> DEFINE new == [thread[m] EXCEPT !.at = "reread", !.ok = ok]
    <3>2. new \in Thread /\ new.at = "reread" /\ new.task = thread[m].task
      BY <1>1 DEF Thread, At
    <3>3. thread' = [thread EXCEPT ![m] = new]
      BY <3>1
    <3> HIDE DEF new
    <3> QED BY <3>2, <3>3
  <2> QED BY <2>1, <2>2, <2>3
<1>3. UNCHANGED <<tasks, mail, plan, roster, stopping, lead, spent>>
  BY DEF StartEffect, EndEffect, Finishing, EndWork
<1>4. new.at = "effect" /\ m \in Approval => plan'[m][new.task] = "allowed"
  BY <1>2, <1>3 DEF MayExecute
<1>5. thread' \in [Member -> Thread] /\ ThreadInv'
  BY <1>1, <1>2, <1>3, <1>4, ThreadMoves DEF Working
<1>6. TypeOK'
  BY <1>1, <1>3, <1>5 DEF TypeOK
<1>7. SendIsCounted'
  BY <1>3 DEF IInv, SendIsCounted
<1> QED BY <1>5, <1>6, <1>7 DEF IInv, ThreadInv

LEMMA RequestPlanKeeps ==
  ASSUME IInv, NEW m \in Member, RequestPlan(m)
  PROVE  IInv'
<1>1. TypeOK /\ thread[m] \in Thread /\ thread[m].at = "work" /\ thread[m].task \in Task
  BY DEF IInv, TypeOK, RequestPlan, TaskIsHeld, Holding
<1>2. plan \in [Member -> [Task -> {"none", "pending", "allowed", "denied"}]]
  BY <1>1 DEF TypeOK
<1>3. /\ plan' \in [Member -> [Task -> {"none", "pending", "allowed", "denied"}]]
      /\ \A n \in Member, t \in Task : n # m => plan'[n][t] = plan[n][t]
  BY <1>1, <1>2 DEF RequestPlan
<1>4. thread' = [thread EXCEPT ![m] = thread[m]]
  BY <1>1 DEF RequestPlan, TypeOK
<1>5. ThreadInv'
  BY <1>1, <1>3, <1>4, ThreadMoves DEF RequestPlan, Working
<1>6. TypeOK'
  BY <1>1, <1>3 DEF RequestPlan, TypeOK
<1>7. SendIsCounted'
  BY DEF IInv, SendIsCounted, RequestPlan
<1> QED BY <1>5, <1>6, <1>7 DEF IInv, ThreadInv

LEMMA RereadKeeps ==
  ASSUME IInv, NEW m \in Member, Reread(m)
  PROVE  IInv'
<1>1. TypeOK /\ thread[m] \in Thread /\ thread[m].at = "reread" /\ thread[m].task \in Task
  BY DEF IInv, TypeOK, Reread, TaskIsHeld, Holding
<1>2. tasks[thread[m].task].version \in Nat
  BY <1>1 DEF TypeOK, TaskRecord
<1> DEFINE new == [thread[m] EXCEPT !.at = "finish",
                                    !.version = tasks[thread[m].task].version]
<1>3. new \in Thread /\ new.at = "finish" /\ new.task = thread[m].task
  BY <1>1, <1>2 DEF Thread, At
<1>4. thread' = [thread EXCEPT ![m] = new]
  BY DEF Reread
<1> HIDE DEF new
<1>5. thread' \in [Member -> Thread] /\ ThreadInv'
  BY <1>1, <1>3, <1>4, ThreadMoves DEF Reread, Working
<1>6. TypeOK'
  BY <1>1, <1>5 DEF Reread, TypeOK
<1>7. SendIsCounted'
  BY DEF IInv, SendIsCounted, Reread
<1> QED BY <1>5, <1>6, <1>7 DEF IInv, ThreadInv

\* A thread dies, whatever else the step has done.
LEMMA DieMoves ==
  ASSUME NEW m \in Member, thread[m] \in Thread, Die(m)
  PROVE  \E new \in Thread : thread' = [thread EXCEPT ![m] = new] /\ new.at = "died"
<1> DEFINE new == [thread[m] EXCEPT !.at = "died"]
<1>1. new \in Thread /\ new.at = "died"
  BY DEF Thread, At
<1>2. thread' = [thread EXCEPT ![m] = new]
  BY DEF Die, Go
<1> HIDE DEF new
<1> QED BY <1>1, <1>2

\* A member saves its task while nobody else works on it.
LEMMA ThreadSaves ==
  ASSUME IInv, NEW m \in Member, NEW new \in Thread,
         NEW t \in Task, NEW a \in Member \cup {None}, NEW s \in Status,
         thread' = [thread EXCEPT ![m] = new],
         tasks' = Saved(t, a, s), UNCHANGED plan,
         spent'["updates"] = 0 => spent["updates"] = 0,
         spent["updates"] = 0 =>
           \A n \in Member : n # m /\ thread[n].at \in Working => thread[n].task # t,
         new.at \in Holding => new.at = "work" /\ new.task = t /\ a = m /\ s = "in_progress"
  PROVE  tasks' \in [Task -> TaskRecord] /\ thread' \in [Member -> Thread] /\ ThreadInv'
<1>1. thread \in [Member -> Thread]
  BY DEF IInv, TypeOK
<1>2. thread' \in [Member -> Thread]
  BY <1>1
<1>3. \A n \in Member : thread'[n] = IF n = m THEN new ELSE thread[n]
  BY <1>1
<1>4. /\ tasks' \in [Task -> TaskRecord]
      /\ tasks'[t].assignee = a
      /\ s \notin {"pending", "blocked"} => tasks'[t].status = s
      /\ \A u \in Task : tasks[u].version \in Nat /\ tasks'[u].version \in Nat
      /\ \A u \in Task : tasks'[u].version >= tasks[u].version
      /\ \A u \in Task : tasks'[u].version = tasks[u].version => tasks'[u] = tasks[u]
      /\ \A u \in Task \ {t} : tasks[u].status = "in_progress" => tasks'[u] = tasks[u]
  BY SaveKeeps
<1>5. TaskIsHeld'
  BY <1>3 DEF IInv, TaskIsHeld
<1>6. ClaimIsCurrent'
  <2> SUFFICES ASSUME NEW n \in Member, thread'[n].at = "claim"
               PROVE  /\ thread'[n].version <= tasks'[thread'[n].task].version
                      /\ tasks'[thread'[n].task].version = thread'[n].version
                           => tasks'[thread'[n].task].status = "pending"
    BY DEF ClaimIsCurrent
  <2>1. thread'[n] = thread[n]
    BY <1>3 DEF Holding
  <2>2. thread[n].task \in Task /\ thread[n].version \in Nat
    BY <1>1, <2>1 DEF IInv, TaskIsHeld, Holding, Thread
  <2>3. /\ thread[n].version <= tasks[thread[n].task].version
        /\ tasks[thread[n].task].version = thread[n].version
             => tasks[thread[n].task].status = "pending"
    BY <2>1 DEF IInv, ClaimIsCurrent
  <2> QED BY <1>4, <2>1, <2>2, <2>3
<1>7. ResultIsAssignees'
  <2> SUFFICES ASSUME spent'["updates"] = 0, NEW n \in Member, thread'[n].at \in Working
               PROVE  /\ tasks'[thread'[n].task].status = "in_progress"
                      /\ tasks'[thread'[n].task].assignee = n
    BY DEF ResultIsAssignees, Executing, Working
  <2>1. CASE n = m
    BY <1>3, <1>4, <2>1 DEF Holding, Working
  <2>2. CASE n # m
    <3>1. thread'[n] = thread[n] /\ thread[n].task # t
      BY <1>3, <2>2
    <3>2. /\ thread[n].task \in Task
          /\ tasks[thread[n].task].status = "in_progress"
          /\ tasks[thread[n].task].assignee = n
      BY <3>1 DEF IInv, TaskIsHeld, Holding, Working, ResultIsAssignees, Executing
    <3> QED BY <1>4, <3>1, <3>2
  <2> QED BY <2>1, <2>2
<1>8. EffectsApproved'
  BY <1>3, NamesAssumption DEF IInv, EffectsApproved, Holding
<1> QED BY <1>2, <1>4, <1>5, <1>6, <1>7, <1>8 DEF ThreadInv

LEMMA ClaimTaskKeeps ==
  ASSUME IInv, NEW m \in Member, ClaimTask(m)
  PROVE  IInv'
<1> DEFINE t == thread[m].task
<1>1. TypeOK /\ thread[m] \in Thread /\ thread[m].at = "claim" /\ t \in Task
  BY DEF IInv, TypeOK, ClaimTask, TaskIsHeld, Holding
<1>2. UNCHANGED <<mail, plan, stopping, lead, spent>>
  BY DEF ClaimTask
<1>3. /\ tasks' \in [Task -> TaskRecord] /\ thread' \in [Member -> Thread] /\ ThreadInv'
      /\ roster' \in [Member -> {"idle", "working", "waiting_approval", "failed", "stopped"}]
  <2>1. CASE tasks[t].version = thread[m].version
    <3> DEFINE new == [thread[m] EXCEPT !.at = "work"]
    <3>1. new \in Thread /\ new.at = "work" /\ new.task = t
      BY <1>1 DEF Thread, At
    <3>2. thread' = [thread EXCEPT ![m] = new] /\ tasks' = Saved(t, m, "in_progress")
          /\ roster' = [roster EXCEPT ![m] = "working"]
      BY <2>1 DEF ClaimTask, Go
    <3>3. tasks[t].status = "pending"
      BY <1>1, <2>1 DEF IInv, ClaimIsCurrent
    <3>4. spent["updates"] = 0 =>
            \A n \in Member : n # m /\ thread[n].at \in Working => thread[n].task # t
      BY <3>3 DEF IInv, ResultIsAssignees, Executing, Working
    <3>5. "in_progress" \in Status
      BY DEF Status
    <3> HIDE DEF new
    <3>6. tasks' \in [Task -> TaskRecord] /\ thread' \in [Member -> Thread] /\ ThreadInv'
      BY <1>1, <1>2, <3>1, <3>2, <3>4, <3>5, ThreadSaves
    <3> QED BY <1>1, <3>2, <3>6 DEF TypeOK
  <2>2. CASE tasks[t].version # thread[m].version
    <3>1. Die(m) /\ UNCHANGED <<tasks, roster>>
      BY <2>2 DEF ClaimTask
    <3>2. PICK new \in Thread : thread' = [thread EXCEPT ![m] = new] /\ new.at = "died"
      BY <1>1, <3>1, DieMoves
    <3>3. thread' \in [Member -> Thread] /\ ThreadInv'
      BY <1>2, <3>1, <3>2, ThreadMoves DEF Holding, Working
    <3> QED BY <1>1, <3>1, <3>3 DEF TypeOK
  <2> QED BY <2>1, <2>2
<1>4. TypeOK'
  BY <1>1, <1>2, <1>3 DEF TypeOK
<1>5. SendIsCounted'
  BY <1>2 DEF IInv, SendIsCounted
<1> QED BY <1>3, <1>4, <1>5 DEF IInv, ThreadInv

\* What a saved result rests on.
LEMMA ResultSavedFacts ==
  ASSUME IInv, NEW m \in Member, thread[m].at = "finish", ResultSaved(m)
  PROVE  /\ thread[m].task \in Task
         /\ spent["updates"] = 0 =>
              \A n \in Member : n # m /\ thread[n].at \in Working
                                  => thread[n].task # thread[m].task
         /\ \E a \in Member \cup {None}, s \in Status : tasks' = Saved(thread[m].task, a, s)
<1>1. thread[m].task \in Task
  BY DEF IInv, TaskIsHeld, Holding
<1>2. tasks[thread[m].task].assignee \in Member \cup {None}
  BY <1>1 DEF IInv, TypeOK, TaskRecord
<1>3. \E a \in Member \cup {None}, s \in Status : tasks' = Saved(thread[m].task, a, s)
  BY <1>2 DEF ResultSaved, Status
<1>4. spent["updates"] = 0 =>
        \A n \in Member : n # m /\ thread[n].at \in Working
                            => thread[n].task # thread[m].task
  BY DEF IInv, ResultIsAssignees, Executing, Working
<1> QED BY <1>1, <1>3, <1>4

LEMMA FinishTaskKeeps ==
  ASSUME IInv, NEW m \in Member, FinishTask(m)
  PROVE  IInv'
<1>1. TypeOK /\ thread[m] \in Thread /\ thread[m].at = "finish"
  BY DEF IInv, TypeOK, FinishTask
<1>2. UNCHANGED <<mail, plan, stopping, lead, spent>>
  BY DEF FinishTask
<1>3. /\ tasks' \in [Task -> TaskRecord] /\ thread' \in [Member -> Thread] /\ ThreadInv'
      /\ roster' \in [Member -> {"idle", "working", "waiting_approval", "failed", "stopped"}]
  <2>1. CASE /\ ResultSaved(m)
             /\ roster' = [roster EXCEPT ![m] = "idle"]
             /\ thread' = [thread EXCEPT ![m].at = thread[m].from, ![m].task = None]
    <3> DEFINE new == [thread[m] EXCEPT !.at = thread[m].from, !.task = None]
    <3>1. new \in Thread /\ new.at \in {"self", "next"}
      BY <1>1 DEF Thread, At
    <3>2. thread' = [thread EXCEPT ![m] = new]
      BY <2>1
    <3> HIDE DEF new
    <3>3. PICK a \in Member \cup {None}, s \in Status : tasks' = Saved(thread[m].task, a, s)
      BY <1>1, <2>1, ResultSavedFacts
    <3>4. /\ thread[m].task \in Task
          /\ spent["updates"] = 0 =>
               \A n \in Member : n # m /\ thread[n].at \in Working
                                   => thread[n].task # thread[m].task
      BY <1>1, <2>1, ResultSavedFacts
    <3>5. new.at \notin Holding
      BY <3>1 DEF Holding
    <3>6. tasks' \in [Task -> TaskRecord] /\ thread' \in [Member -> Thread] /\ ThreadInv'
      BY <1>2, <3>1, <3>2, <3>3, <3>4, <3>5, ThreadSaves
    <3> QED BY <1>1, <2>1, <3>6 DEF TypeOK
  <2>2. CASE Die(m) /\ UNCHANGED <<tasks, roster>>
    <3>1. PICK new \in Thread : thread' = [thread EXCEPT ![m] = new] /\ new.at = "died"
      BY <1>1, <2>2, DieMoves
    <3>2. thread' \in [Member -> Thread] /\ ThreadInv'
      BY <1>2, <2>2, <3>1, ThreadMoves DEF Holding, Working
    <3> QED BY <1>1, <2>2, <3>2 DEF TypeOK
  <2> QED BY <2>1, <2>2 DEF FinishTask
<1>4. TypeOK'
  BY <1>1, <1>2, <1>3 DEF TypeOK
<1>5. SendIsCounted'
  BY <1>2 DEF IInv, SendIsCounted
<1> QED BY <1>3, <1>4, <1>5 DEF IInv, ThreadInv

LEMMA LockTimeoutKeeps ==
  ASSUME IInv, NEW m \in Member, LockTimeout(m)
  PROVE  IInv'
<1>1. TypeOK /\ thread[m] \in Thread
  BY DEF IInv, TypeOK
<1>2. PICK new \in Thread : thread' = [thread EXCEPT ![m] = new] /\ new.at = "died"
  BY <1>1, DieMoves DEF LockTimeout
<1>3. /\ spent' \in [{"assigns", "updates", "timeouts"} -> Nat]
      /\ spent'["updates"] = 0 => spent["updates"] = 0
      /\ spent'["assigns"] = spent["assigns"]
  BY <1>1, SpendKeeps DEF LockTimeout
<1>4. /\ tasks' \in [Task -> TaskRecord] /\ thread' \in [Member -> Thread] /\ ThreadInv'
      /\ plan' \in [Member -> [Task -> {"none", "pending", "allowed", "denied"}]]
  <2>1. CASE thread[m].at = "finish" /\ ResultSaved(m) /\ UNCHANGED plan
    <3>1. PICK a \in Member \cup {None}, s \in Status : tasks' = Saved(thread[m].task, a, s)
      BY <2>1, ResultSavedFacts
    <3>2. /\ thread[m].task \in Task
          /\ spent["updates"] = 0 =>
               \A n \in Member : n # m /\ thread[n].at \in Working
                                   => thread[n].task # thread[m].task
      BY <2>1, ResultSavedFacts
    <3>3. new.at \notin Holding
      BY <1>2 DEF Holding
    <3>4. tasks' \in [Task -> TaskRecord] /\ thread' \in [Member -> Thread] /\ ThreadInv'
      BY <1>2, <1>3, <2>1, <3>1, <3>2, <3>3, ThreadSaves
    <3> QED BY <1>1, <2>1, <3>4 DEF TypeOK
  <2>2. CASE /\ UNCHANGED tasks
             /\ \/ UNCHANGED plan
                \/ \E t \in Task : plan' = [plan EXCEPT ![m][t] = "pending"]
    <3>1. plan \in [Member -> [Task -> {"none", "pending", "allowed", "denied"}]]
          /\ tasks \in [Task -> TaskRecord]
      BY <1>1 DEF TypeOK
    <3>2. plan' \in [Member -> [Task -> {"none", "pending", "allowed", "denied"}]]
      BY <2>2, <3>1
    <3>3. \A n \in Member, t \in Task : n # m => plan'[n][t] = plan[n][t]
      BY <2>2, <3>1
    <3>4. thread' \in [Member -> Thread] /\ ThreadInv'
      BY <1>2, <1>3, <2>2, <3>3, ThreadMoves DEF Holding, Working
    <3> QED BY <2>2, <3>1, <3>2, <3>4
  <2>3. \A msg \in thread[m].batch : msg[1] \in Task
    BY <1>1 DEF Thread
  <2> QED BY <2>1, <2>2, <2>3 DEF LockTimeout
<1>5. TypeOK'
  BY <1>1, <1>3, <1>4 DEF LockTimeout, TypeOK
<1>6. SendIsCounted'
  BY <1>3 DEF LockTimeout, IInv, SendIsCounted
<1> QED BY <1>4, <1>5, <1>6 DEF IInv, ThreadInv

-----------------------------------------------------------------------------
LEMMA InitInv == Init => IInv
<1> SUFFICES ASSUME Init PROVE IInv
  OBVIOUS
<1>1. TypeOK
  <2>1. tasks \in [Task -> TaskRecord]
    BY DEF Init, TaskRecord
  <2>2. thread \in [Member -> Thread]
    BY BoundsAssumption DEF Init, Thread, At
  <2> QED BY <2>1, <2>2 DEF Init, TypeOK
<1>2. TaskIsHeld /\ SendIsCounted /\ ClaimIsCurrent
  BY DEF Init, TaskIsHeld, SendIsCounted, ClaimIsCurrent, Holding
<1>3. ResultIsAssignees /\ EffectsApproved
  BY NamesAssumption DEF Init, ResultIsAssignees, Executing, EffectsApproved
<1> QED BY <1>1, <1>2, <1>3 DEF IInv

LEMMA NextInv == IInv /\ [Next]_vars => IInv'
<1> SUFFICES ASSUME IInv, [Next]_vars PROVE IInv'
  OBVIOUS
<1>1. CASE Lead
  BY <1>1, AssignKeeps, SetStatusKeeps, ModelClaimKeeps, SendAssignmentKeeps,
     DecideKeeps, SendTimeoutKeeps, StoppingKeeps DEF Lead
<1>2. ASSUME NEW m \in Member, Loop(m)
      PROVE  IInv'
  BY <1>2, PollKeeps, ListOwnKeeps, TakeOwnKeeps, NextMessageKeeps, GetTaskKeeps,
     ClaimTaskKeeps, EffectStepsKeep, RereadKeeps, FinishTaskKeeps DEF Loop
<1>3. ASSUME NEW m \in Member,
             Finishing(m) \/ StartEffect(m) \/ RequestPlan(m) \/ LockTimeout(m)
      PROVE  IInv'
  BY <1>3, EffectStepsKeep, RequestPlanKeeps, LockTimeoutKeeps
<1>4. CASE UNCHANGED vars
  BY <1>4 DEF vars, IInv, TypeOK, TaskIsHeld, SendIsCounted, ClaimIsCurrent,
     ResultIsAssignees, Executing, EffectsApproved
<1> QED BY <1>1, <1>2, <1>3, <1>4 DEF Next

\* The inductive invariant holds in every behaviour of the team.
THEOREM TeamRunInvariant == Spec => []IInv
BY InitInv, NextInv, PTL DEF Spec

\* However often a task is reassigned while members read, claim and save, the
\* member at work is the assignee of a task in progress, so no two members
\* work on one task (TeamMemberRunner._execute, TaskStore.claim).
THEOREM ResultIsAssigneesTheorem == Spec => []ResultIsAssignees
<1>1. IInv => ResultIsAssignees
  BY DEF IInv
<1> QED BY <1>1, TeamRunInvariant, PTL

\* Whatever the lead decides and a member requests, a member that needs an
\* approval is inside a tool with side effects only with an allowed plan.
THEOREM EffectsApprovedTheorem == Spec => []EffectsApproved
<1>1. IInv => EffectsApproved
  BY DEF IInv
<1> QED BY <1>1, TeamRunInvariant, PTL

=============================================================================
