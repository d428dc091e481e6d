----------------------------- MODULE TeamRoster -----------------------------
(* The roster of a team (huicode/teams/manager.py): a file that the lead's    *)
(* operations and every member's thread read, change and write back as a      *)
(* whole, with no lock between the reading and the writing.  Members run as   *)
(* threads of the lead's process (CoroutineBackend), which may die and resume *)
(* the team.  A thread ends when it is told to, when it reads a message that  *)
(* told it so before a death, and when a store fails under it.  Left out:     *)
(* tasks and the other messages (TeamTasks, Mailbox, TeamRun), worktrees      *)
(* (Worktrees), the terminal backends.                                        *)
EXTENDS Naturals, FiniteSets

CONSTANTS Member, MaxMembers,
          MaxReports,   \* bound: statuses that members report
          MaxResumes    \* bound: resumes of the team

ASSUME RosterAssumption == MaxMembers \in Nat

VARIABLES
  roster,     \* roster.json: the listed members and their statuses
  registry,   \* NameRegistry
  handles,    \* _handles: the members with a backend
  runners,    \* threads of each member
  stopping,   \* members whose stop_event is set
  stops,      \* members with an unread stop message, which outlives the process
  saving,     \* the roster a member's thread is about to write: <<>> or one
  lead,       \* the lead's operation: op, the member, the roster to write, the rest,
              \* and whether a stop is part of a closing
  team,       \* "active", "closed", "deleted"; "detached" until a resume
  calm,       \* history: no writes overlapped, no stop or write of the lead failed,
              \* no second resume
  gone,       \* history: members that ended by themselves, or that a failed resume
              \* left out, since they were last started
  reports, resumes

rosterVars == <<roster, registry, handles, runners, stopping, stops, saving, lead, team,
                calm, gone, reports, resumes>>

Over == {"stopped", "failed"}
Listed == DOMAIN roster
Running == {m \in Member : runners[m] > 0}
Active == {m \in Listed : roster[m] \notin Over}
IdleLead == [op |-> "idle", name |-> "", saw |-> <<>>, todo |-> {}, closing |-> FALSE]

RosterTypeOK ==
  /\ Listed \subseteq Member /\ registry \subseteq Member /\ handles \subseteq Member
  /\ runners \in [Member -> Nat] /\ calm \in BOOLEAN
  /\ stopping \cup stops \cup gone \subseteq Member

RosterInit ==
  /\ roster = <<>> /\ registry = {} /\ handles = {} /\ runners = [m \in Member |-> 0]
  /\ stopping = {} /\ stops = {} /\ saving = [m \in Member |-> <<>>] /\ lead = IdleLead
  /\ team = "active" /\ calm = TRUE /\ gone = {} /\ reports = 0 /\ resumes = 0

Attached == team \in {"active", "closed"}
LeadIs(op) == lead.op = op /\ Attached
With(m, status) == [n \in Listed \cup {m} |-> IF n = m THEN status ELSE roster[n]]
Put(m, status) == IF m \in Listed THEN With(m, status) ELSE roster
MembersSaving == \E m \in Member : saving[m] # <<>>

\* save_members by the lead.
LeadSaves(members) ==
  /\ roster' = members
  /\ calm' = (calm /\ ~ MembersSaving)

\* Or the store fails and the exception ends the operation of the lead.
LeadSaveFails ==
  /\ Attached /\ lead.op \in {"spawn", "launch", "launched", "stopSave", "restoreSave"}
  /\ lead' = IdleLead /\ calm' = FALSE
  /\ UNCHANGED <<roster, registry, handles, runners, stopping, stops, saving, team, gone,
                 reports, resumes>>

-----------------------------------------------------------------------------
(* spawn_member *)

SpawnBegin(m) ==
  /\ LeadIs("idle")
  /\ m \notin Listed /\ Cardinality(Listed) < MaxMembers
  /\ lead' = [IdleLead EXCEPT !.op = "spawn", !.name = m, !.saw = With(m, "starting")]
  /\ UNCHANGED <<roster, registry, handles, runners, stopping, stops, saving, team, calm,
                 gone, reports, resumes>>

\* The provisional record; a name the registry has already ends it here.
SpawnSave ==
  /\ LeadIs("spawn")
  /\ LeadSaves(lead.saw)
  /\ registry' = registry \cup {lead.name}
  /\ lead' = IF lead.name \in registry THEN IdleLead ELSE [lead EXCEPT !.op = "launch"]
  /\ UNCHANGED <<handles, runners, stopping, stops, saving, team, gone, reports, resumes>>

Launch ==
  /\ LeadIs("launch")
  /\ runners' = [runners EXCEPT ![lead.name] = @ + 1]
  /\ gone' = gone \ {lead.name}
  /\ lead' = [lead EXCEPT !.op = "launched"]
  /\ UNCHANGED <<roster, registry, handles, stopping, stops, saving, team, calm,
                 reports, resumes>>

LaunchFails ==
  /\ LeadIs("launch")
  /\ LeadSaves([lead.saw EXCEPT ![lead.name] = "failed"])
  /\ lead' = IdleLead
  /\ UNCHANGED <<registry, handles, runners, stopping, stops, saving, team, gone, reports,
                 resumes>>

SpawnEnd ==
  /\ LeadIs("launched")
  /\ LeadSaves([lead.saw EXCEPT ![lead.name] = "idle"])
  /\ handles' = handles \cup {lead.name}
  /\ lead' = IdleLead
  /\ UNCHANGED <<registry, runners, stopping, stops, saving, team, gone, reports, resumes>>

-----------------------------------------------------------------------------
(* stop_member, close_team, delete_team *)

\* The member is told by a message and by its event.
StopBegin(m) ==
  /\ LeadIs("idle") \/ (LeadIs("close") /\ m \in lead.todo)
  /\ m \in Listed
  /\ stops' = IF m \in handles THEN stops \cup {m} ELSE stops
  /\ stopping' = IF m \in handles /\ runners[m] > 0 THEN stopping \cup {m} ELSE stopping
  /\ lead' = [lead EXCEPT !.op = "stop", !.name = m,
                          !.todo = @ \ {m}, !.closing = lead.op = "close"]
  /\ UNCHANGED <<roster, registry, handles, runners, saving, team, calm, gone,
                 reports, resumes>>

\* The message cannot be sent, so the event is not set.
StopUnsent(m) ==
  /\ LeadIs("idle") \/ (LeadIs("close") /\ m \in lead.todo)
  /\ m \in Listed \cap handles
  /\ lead' = [lead EXCEPT !.op = "stopSave", !.name = m, !.saw = Put(m, "failed"),
                          !.todo = @ \ {m}, !.closing = lead.op = "close"]
  /\ calm' = FALSE
  /\ UNCHANGED <<roster, registry, handles, runners, stopping, stops, saving, team, gone,
                 reports, resumes>>

\* Mutant: the wait for the thread is left out.
StopUnwaited ==
  /\ LeadIs("stop")
  /\ lead' = [lead EXCEPT !.op = "stopSave", !.saw = Put(lead.name, "stopped")]
  /\ UNCHANGED <<roster, registry, handles, runners, stopping, stops, saving, team, calm,
                 gone, reports, resumes>>

\* backend.stop returns when the thread has ended; then the roster is read again.
StopWaited ==
  /\ LeadIs("stop") /\ lead.name \notin stopping
  /\ lead' = [lead EXCEPT !.op = "stopSave", !.saw = Put(lead.name, "stopped")]
  /\ UNCHANGED <<roster, registry, handles, runners, stopping, stops, saving, team, calm,
                 gone, reports, resumes>>

\* The wait times out.
StopFails ==
  /\ LeadIs("stop") /\ lead.name \in stopping
  /\ lead' = [lead EXCEPT !.op = "stopSave", !.saw = Put(lead.name, "failed")]
  /\ calm' = FALSE
  /\ UNCHANGED <<roster, registry, handles, runners, stopping, stops, saving, team, gone,
                 reports, resumes>>

StopSave ==
  /\ LeadIs("stopSave")
  /\ LeadSaves(lead.saw)
  /\ lead' = IF lead.closing THEN [IdleLead EXCEPT !.op = "close", !.todo = lead.todo]
             ELSE IdleLead
  /\ UNCHANGED <<registry, handles, runners, stopping, stops, saving, team, gone, reports,
                 resumes>>

CloseBegin ==
  /\ LeadIs("idle")
  /\ lead' = [IdleLead EXCEPT !.op = "close", !.todo = Active]
  /\ UNCHANGED <<roster, registry, handles, runners, stopping, stops, saving, team, calm,
                 gone, reports, resumes>>

\* Any exception, a member that is no longer listed for one, ends the closing.
CloseEnd ==
  /\ LeadIs("close")
  /\ team' \in IF lead.todo = {} THEN {team, "closed"} ELSE {team}
  /\ lead' = IdleLead
  /\ UNCHANGED <<roster, registry, handles, runners, stopping, stops, saving, calm, gone,
                 reports, resumes>>

\* All that delete_team asks of the members; tasks, approvals and messages
\* protect the team too, which only makes deletion rarer.
Delete ==
  /\ LeadIs("idle") /\ Active = {}
  /\ roster' = <<>> /\ registry' = {} /\ stops' = {} /\ team' = "deleted"
  /\ UNCHANGED <<handles, runners, stopping, saving, lead, calm, gone, reports, resumes>>

-----------------------------------------------------------------------------
(* resume, after a death or in the middle of a session *)

\* The mailboxes stay as they are: a stop message that was not read is read by
\* the next thread of its member.
Die ==
  /\ Attached /\ resumes < MaxResumes
  /\ team' = "detached" /\ lead' = IdleLead
  /\ registry' = {} /\ handles' = {} /\ stopping' = {} /\ gone' = {}
  /\ runners' = [m \in Member |-> 0] /\ saving' = [m \in Member |-> <<>>]
  /\ UNCHANGED <<roster, stops, calm, reports, resumes>>

Resume ==
  /\ LeadIs("idle") \/ team = "detached"
  /\ resumes < MaxResumes /\ resumes' = resumes + 1
  /\ team' = "active" /\ registry' = Listed
  /\ lead' = [IdleLead EXCEPT !.op = "resume", !.todo = Active]
  /\ calm' = (calm /\ Running = {})
  /\ UNCHANGED <<roster, handles, runners, stopping, stops, saving, gone, reports>>

\* _restore_member: launch, then read and write the roster.
RestoreLaunch(m) ==
  /\ LeadIs("resume") /\ m \in lead.todo
  /\ runners' = [runners EXCEPT ![m] = @ + 1]
  /\ gone' = gone \ {m}
  /\ lead' = [lead EXCEPT !.op = "restored", !.name = m, !.todo = @ \ {m}]
  /\ UNCHANGED <<roster, registry, handles, stopping, stops, saving, team, calm,
                 reports, resumes>>

RestoreRead ==
  /\ LeadIs("restored")
  /\ lead' = [lead EXCEPT !.op = "restoreSave", !.saw = Put(lead.name, "idle")]
  /\ UNCHANGED <<roster, registry, handles, runners, stopping, stops, saving, team, calm,
                 gone, reports, resumes>>

RestoreSave ==
  /\ LeadIs("restoreSave")
  /\ LeadSaves(lead.saw)
  /\ handles' = handles \cup {lead.name}
  /\ lead' = [IdleLead EXCEPT !.op = "resume", !.todo = lead.todo]
  /\ UNCHANGED <<registry, runners, stopping, stops, saving, team, gone, reports, resumes>>

\* Recovering the assignments, the worktree or the backend of a member may raise:
\* the members that are still to be restored are left out.
ResumeEnd ==
  /\ LeadIs("resume")
  /\ lead' = IdleLead
  /\ gone' = gone \cup lead.todo
  /\ UNCHANGED <<roster, registry, handles, runners, stopping, stops, saving, team, calm,
                 reports, resumes>>

-----------------------------------------------------------------------------
(* The members' threads: _set_member_status *)

StatusRead(m, status) ==
  /\ Attached /\ runners[m] > 0 /\ saving[m] = <<>> /\ reports < MaxReports
  /\ saving' = [saving EXCEPT ![m] = <<Put(m, status)>>]
  /\ reports' = reports + 1
  /\ UNCHANGED <<roster, registry, handles, runners, stopping, stops, lead, team, calm,
                 resumes, gone>>

StatusSave(m) ==
  /\ Attached /\ saving[m] # <<>>
  /\ roster' = saving[m][1]
  /\ saving' = [saving EXCEPT ![m] = <<>>]
  /\ calm' = (calm /\ lead.saw = <<>> /\ \A n \in Member \ {m} : saving[n] = <<>>)
  /\ UNCHANGED <<registry, handles, runners, stopping, stops, lead, team, gone, reports,
                 resumes>>

ThreadEnds(m) ==
  /\ runners[m] > 0 /\ runners' = [runners EXCEPT ![m] = @ - 1]
  /\ stopping' = stopping \ {m}
  /\ UNCHANGED <<roster, registry, handles, lead, team, calm, reports, resumes>>

\* The event ends the loop, or the message does and is marked as read.
RunnerEnds(m) ==
  /\ m \in stopping /\ saving[m] = <<>>
  /\ stops' \in {stops, stops \ {m}}
  /\ ThreadEnds(m)
  /\ UNCHANGED <<saving, gone>>

\* The message alone, from before the lead died or while its event is not set.
RunnerReadsStop(m) ==
  /\ m \in stops \ stopping /\ saving[m] = <<>>
  /\ stops' = stops \ {m} /\ gone' = gone \cup {m}
  /\ ThreadEnds(m)
  /\ UNCHANGED saving

\* A store raises in the loop, writing the roster for one; the record stays.
RunnerFails(m) ==
  /\ saving' = [saving EXCEPT ![m] = <<>>] /\ gone' = gone \cup {m}
  /\ ThreadEnds(m)
  /\ UNCHANGED stops

RosterNext ==
  \/ SpawnSave \/ Launch \/ LaunchFails \/ SpawnEnd \/ LeadSaveFails
  \/ StopWaited \/ StopFails \/ StopSave \/ CloseBegin \/ CloseEnd \/ Delete
  \/ Die \/ Resume \/ RestoreRead \/ RestoreSave \/ ResumeEnd
  \/ \E m \in Member : \/ SpawnBegin(m) \/ StopBegin(m) \/ RestoreLaunch(m)
                       \/ StopUnsent(m) \/ StatusSave(m)
                       \/ RunnerEnds(m) \/ RunnerReadsStop(m) \/ RunnerFails(m)
                       \/ \E status \in {"working", "idle"} : StatusRead(m, status)

RosterSpec == RosterInit /\ [][RosterNext]_rosterVars

-----------------------------------------------------------------------------
(* Properties *)

\* Not so (specs/016 N2): a member that was started is listed.  A thread that
\* read the roster before the lead added the member writes it back without.
StartedIsListed == Attached => handles \subseteq Listed

\* As long as no two writers overlapped, no stop and no write of the lead failed
\* and no team was resumed over its running members: whoever runs is listed, once,
\* and has a worker of the pool; between two operations the members that are not
\* over run, after a death and a resume too, except those that a failing store, a
\* stop message from before the death or a failing resume took away since they
\* were started, which the roster goes on to list; and a deleted team runs nowhere.
CalmRosterIsRight == calm =>
  /\ \A m \in Member : runners[m] <= 1
  /\ Attached => handles \subseteq Listed /\ Running \subseteq Listed
  /\ Cardinality(Running) <= MaxMembers
  /\ LeadIs("idle") => Running = Active \ gone
  /\ team = "deleted" => Running = {}

\* Not so: the members that are not over run.  What ends a thread by itself, or
\* a resume half way, leaves its record as it is.
ActiveMembersRun == calm /\ LeadIs("idle") => Active \subseteq Running
=============================================================================
