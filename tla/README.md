# HuiCode in TLA+

HuiCode is an AI coding agent for the terminal, written in Python. One process
runs the *main agent* (a loop of model requests and tool calls), background
*subagents*, and *teams* of members that share a task list, mailboxes and
approval records on disk. This directory holds TLA+ models of the parts in
which several actors touch the same state or in which a process may die half
way, the TLC configurations that check them, and the TLAPS proofs about them.

Paths below are relative to `huicode/` of the repository unless they begin
with `specs/`.

## Running

    tlc -config FileLock.cfg MCFileLock.tla     # one run; module and cfg are in PROJECT.json
    tlapm FilesProofs.tla                       # the proofs of one module

`PROJECT.json` lists, for machines, the components, runs, the map from
definitions to source lines, one *mutant* per checked property (a definition
with a plausible bug under which the property fails, kept beside the original
in the module), the findings, the hazards and the theorems.

## Modules

| module | models | kind |
|---|---|---|
| `TeamTasks` (`MCTeamTasks`) | `teams/tasks.py`: create, update, claim, assign, delete | state machine |
| `DependencySearch` | the recursive cycle search in `_validate_dependencies` | algorithm, step by step |
| `TeamTasksProofs` | theorems about `TeamTasks` and `DependencySearch` | proofs |
| `FileLock` (`MCFileLock`) | `teams/locking.py`, one system call per step | state machine |
| `MailboxSpec` | what a mailbox promises | abstract specification |
| `Mailbox` (`MCMailbox`) | `teams/mailbox.py` on files, with the lock and crashes | implements `MailboxSpec` |
| `TeamRun` (`MCTeamRun`) | lead, member threads, approvals, stop: `teams/member_runner.py`, `manager.py`, `approval.py`, `backends.py`, `scoping.py` | composition |
| `TeamRunProofs` | theorems about `TeamRun` | proofs |
| `TeamRoster` | the roster of `teams/manager.py`: create, spawn, stop, close, delete, death and resume, the members' statuses, threads that end by themselves | state machine |
| `TeamRecordsProofs` | theorems about `Mailbox` and `TeamRoster` | proofs |
| `TeamIntegration` | `teams/integration.py` and the baseline of task files, git and the user external | state machine |
| `ResultDelivery` | what happens to a subagent's result | abstract specification |
| `SubagentManager` | `subagents/manager.py`, `workers.py`, `tool.py` and the agent's leases | implements `ResultDelivery` |
| `SubagentManagerProofs` | theorems about `SubagentManager` | proofs |
| `Worktrees` | `worktrees/`: make, recover, use, finalize, remove, clean up; git external | state machine |
| `SessionArchive` | messages, archive lines, `memory/recovery.py` | operators |
| `ChildRuns` | what a forked subagent or an isolated skill is given of the conversation | operators over `SessionArchive` |
| `AgentSession` | `agent.py`'s loop, the recorder, crash, `/clear`, `/session resume` | state machine |
| `AgentSessionProofs` | theorems about `AgentSession` | proofs |
| `ContextManager` | `context/`: spilled results, groups, summaries, the fuse | state machine |
| `HookManager` | which hook configurations are accepted; `hooks/manager.py`: dispatch, once-rules, pool, records, close | operators, state machine |
| `McpClient` | `mcp/`: starting servers, calls of several threads over one stdio queue, close | state machine |
| `Permissions` | `permissions/`: the decision, what an answer leaves behind, a child's rules, the rule files | operators |
| `ToolAccess` | registry, selection, executor, a subagent's tools and role | operators over `Permissions` |
| `TeamScope` | lead, coordinator and members over one registry, and the isolated skills behind it; the role and permissions a member runs with | operators over `ToolAccess` |
| `Skills` | `skills/` with the part of `cli.py` that routes an input | state machine |
| `Notes` | `memory/`: updater thread, user's commands, notes and index | state machine |
| `FileTools` | `tools/files.py`, the read cache, batches of `agent.py`, changes from outside | state machine |
| `FilesProofs` | theorems about `Worktrees`, `FileTools`, `TeamIntegration`, `FileLock` | proofs |
| `ServicesProofs` | theorems about `HookManager`, `McpClient`, `Notes`, `Skills`, `ContextManager` | proofs |
| `MCServices` | composes `HookManager`, `McpClient`, `ContextManager`, `Worktrees`, `Skills`, `Notes`, `FileTools` | one service per behaviour |
| `MCAlgorithms` | composes `DependencySearch`, `TeamScope`, `ChildRuns` and what `recover_safe_messages` means | one topic per behaviour |
| `MCSafety` | composes `MCAlgorithms`, `TeamRoster`, `TeamIntegration` | one part per behaviour |
| `AlgorithmsProofs` | theorems about `MCAlgorithms` and the operators of `SessionArchive`, `ChildRuns`, `Permissions`, `ToolAccess`, `TeamScope` | proofs |

`MCServices`, `MCAlgorithms` and `MCSafety` put components that share no state into one
model. Their `Init` chooses one service, topic or part, whose specification the behaviour then
follows while the others stay as they begin; so the state space is the sum, not
the product, of the parts, and a property of one service is vacuous in the
behaviours of the others. A module of proofs extends several components in the
same way, one section for each; a theorem there is about the component's own
specification. Each part's own specification (`HooksSpec`, `McpSpec`, ...) is
in its module.

## The system: inventory

### Team task list - `teams/tasks.py`
*State.* Per task a record with status, dependencies, assignee and a version;
one JSON file under the team's lock. *Operations.* `list`, `get`, `create`,
`update`, `claim`, `assign`, `delete`. *Callers.* The lead and the members,
through the TeamTask tool and through `TeamManager` and `TeamMemberRunner`;
each reads first and later writes with the version it read. *Hard.* Everything
between the read and the write; dependencies that are completed, reopened,
replaced and deleted in any order. *Correct when* dependencies exist and are
acyclic, a pending task is ready, and a version that matches means that the
task is unchanged.

### Lock files - `teams/locking.py`
*State.* A file with a token, a pid and a time, and what each thread holds of
it. *Operations.* `__enter__` with retries, `__exit__`, breaking a stale lock.
*Hard.* Interleaving at each system call, locks that grow old while held,
processes that die, calls that raise. *Correct when* it excludes, leaves nothing behind and
always answers.

### Mailbox - `teams/mailbox.py`, `storage.py`
*State.* One JSONL file per member. *Operations.* `send` (to a list, which may
name somebody twice, or to everybody),
`inbox` (no lock), `mark_read` (deletes the file and appends every message
anew). *Hard.* A reader or a crash in the middle of the rewriting; a lock
timeout in the middle of a list. *Correct when* the mailboxes of a list get
their copies in its order, one for each name, and what was read stays read.

### Members at work - `teams/member_runner.py`, `approval.py`, `scoping.py`, `backends.py`
*State.* A thread per member with what it has read so far, the approval
records, the stop events. *Operations.* Poll, read the list, claim, execute,
save the result; submit and decide plans; stop. *Interaction.* The task list,
the mailbox, and the roster of `teams/manager.py`. *Hard.* Assignments,
decisions and stops that arrive between any two calls; errors of a store call,
which end the thread. *Correct when* a task is executed by one member, who is
its assignee; tools with side effects wait for the approval; a member shown as
stopped does nothing; an assigned task gets done.

### Roster and team lifecycle - `teams/manager.py`
*State.* `roster.json` with the members and their statuses, the names ever
used, the handles of running members, the pool. *Operations.* create, resume,
spawn, stop, close, delete; every member reports its status. *Hard.* The
roster is read, changed and saved without a lock by several threads; a stop
may time out, and its message outlives the process; a thread may end on an error
of a store, and a resume raise half way; a team may be resumed over its running
members. *Correct when* whoever runs is listed, once, whoever is listed as active
runs, and a closed or deleted team runs nowhere.

### What team agents may do - `teams/scoping.py`, `teams/tools.py`, `cli.py`
No state of its own: the scope of lead, coordinator and member, the role
named at spawn, the approval and the rules decide together about a call.
*Hard.* The scope filters one registry, an isolated skill runs on the registry
behind it; the coordinator's guard looks at a command's words. *Correct when* a
member never leads nor acts under another name, a role's and a rule's denial
binds, effects wait for an allowed plan, and the coordinator changes nothing.

### Integration - `teams/integration.py`, baseline in `teams/manager.py`
*State.* The integration record and its worktree, the branches of members, the
user's directory, `baseline.json`. *Operations.* start (merge in the roster's
order, checks), continue after a conflict, abort, publish. *Interaction.* Members
commit, a resolver works in the worktree, the user in the main directory.
*Hard.* Anything the user, a resolver or a death does between two git
commands, and calls that raise between the user's files. *Correct when* only checked commits reach the user's branch and the
user's files survive.

### Subagents - `subagents/manager.py`, `workers.py`, `tool.py`, `terminal.py`
*State.* The task table, the pool's queue, results that wait for delivery,
those leased to a request, notifications, the snapshot of the parent.
*Operations.* submit (foreground, background, by a hook), wait, move to
background, cancel, clear, close, lease / acknowledge / release.
*Interaction.* The main thread calls; worker threads execute; a pump shows
notifications; asynchronous hooks submit. *Hard.* A task that ends while
somebody waits, moves, clears or closes. *Correct when* a result reaches the
main agent at most once, is not lost by a failed request, and nothing of a
cleared conversation appears in the next one.

### A subagent's run - `subagents/catalog.py`, `filtering.py`, `history.py`, `runner.py`
Definitions of roles in three layers; a run's tools, permissions, history and
directory. *Correct when* the child can do no more than its parent, its history
has no call without a result, and its work in a worktree is not destroyed.

### Worktrees - `worktrees/`
*State.* Directories with a branch and a manifest, who is inside. *Operations.*
prepare (make or recover), enter, exit, finalize, remove, the clean-up thread.
*Hard.* Clean-up and use of one directory, deaths between adding a directory and
its manifest, a commit between the checks and the deletion, a HEAD that left its branch. *Correct when*
unpushed work and the directories of failed tasks stay.

### Agent loop - `agent.py`
*State.* The message history, counters of iterations, empty answers and
unknown tools, the batches of tool calls. *Operations.* One request, its
errors, one batch. *Interaction.* Provider, tools, hooks, subagent leases,
memory, context compression. *Hard.* Every early exit must leave a history the
provider accepts. *Correct when* each call is answered where the provider
wants it and a turn ends.

### Session archive - `memory/sessions.py`, `recovery.py`, `codec.py`, `manager.py`
*State.* One append-only JSONL file per session, the recorder's open stream.
*Operations.* append, recover, resume, clear. *Hard.* Torn lines, failed
flushes, a resume after a crash, and a second one after that. *Correct when*
what a resume restores can be sent and what could once be restored stays so.

### Notes - `memory/manager.py`, `updater.py`, `notes.py`, `index.py`
*State.* Note files of two scopes, the index, a counter of pending updates.
*Operations.* Schedule an update after a turn, run it (a model's list of creates,
updates, deletes), the user's update and rebuild, close. *Hard.* Two threads
without a lock; an update or a rebuilding broken off in the middle. *Correct when* the index
lists the notes once nothing is under way.

### Context compression - `context/`
*State.* The message history, the anchor of the token estimate, failures of
the summary and its fuse. *Operations.* Compact a result as it arrives, groups
before a request, the history when the request nears the window; manual
compaction; the retry of a request that was too long; `cli.py` takes the user's message of a
failed turn back. *Correct when* calls keep
their results, the newest messages stay, and limits are kept.

### Hooks - `hooks/`
*State.* The rules, once-rules already run, the pool's queue, futures pending and
given up. *Operations.* dispatch from any agent, schedule, callback, close with a
bounded wait. *Hard.* Actions that end while close() waits and sweeps.
*Correct when* a once-rule runs once and every action gets its record.

### MCP client - `mcp/`
*State.* Servers starting or started, one queue of lines per server, each
call's kept lines. *Operations.* start, call, timeout, close. *Hard.* Answers in
any order to several threads, late or never; bad lines. *Correct when* an answer
that came can be found by its call.

### Permissions, skills, tools - `permissions/`, `skills/`, `tools/`
*Permissions* decide a call by blacklist, sandbox, rules, mode and the user's answer,
which may be appended to a file. *Skills* are files read again before
each input while anybody edits them; an active one limits the tools. *File
tools* share a read cache, keyed by time and size. *Hard.* The rules' file has its own idea of quotes and comments. *Correct when* an answer
"always" survives a restart, catalog, commands and active skills are those of the
files, no skill widens what a run may use, and a read returns what was in the file.

### Not modelled
| part | why |
|---|---|
| `providers/`, `sse.py`, `prompts/`, `tui.py`, `agent_events.py` | formatting, parsing and drawing: no state a property could be about. The provider is an external actor of `AgentSession`, `SubagentManager`, `ContextManager` and `Notes`. |
| `config.py`, `mcp/config.py` | parsing of configuration files and their defaults, once, before anything runs; the hooks' configuration is in `HookManager`, the permissions' is in `Permissions` |
| `commands/` | most commands print what a component knows; those that change state are actions of that component |
| startup and shutdown of the program in `cli.py` | a sequence of calls; each part's own close is modelled, what an error of one does to the next is not |
| `teams/terminal_backends.py`, `cli.py` worker mode | processes in terminal panes; only the permissions such a member runs with are modelled (`TeamScope`) |
| members' session files | appended after a run, read at its start |
| `tools/search.py`, `tools/shell.py`, the HTTP transport of `mcp/` | one call to the outside each, no state |
| matching of paths and command texts in `permissions/` | string work: a call carries what its target and place are |

## What the modules say

### `TeamTasks`
The store is a function from the existing tasks to records; a critical section
of the lock is one step (that the lock gives this is `FileLock`'s business).
`seen[c]` is what caller `c` (a member, or the lead) read last, so a call with
an old version is possible and must be refused; `used` are the identifiers
handed out so far. `UpdateError`, `CreateError` and `DeleteError` are the
errors, in the order in which the code checks them; `RefreshBlocked` is the
trailing loop of an update. What members may do is what
`IdentityBoundTeamTool` lets through; a status may be any word, or none.
`SetDependencies` is wider than the tool, which never passes dependencies to an
update: the properties hold for that call of the store too. `MaxVersion` bounds the versions.

* `PendingIsReady`, `DependenciesExist`, `DependenciesAcyclic`: kept in every
  order of operations, completed tasks being reopened included.
* `VersionTellsChange`, `VersionRises`: optimistic concurrency works; also
  changes that `RefreshBlocked` makes to *other* tasks move their versions.
* `RunningIsReady` and `BlockedIsWaiting` say more than the code does: a
  dependency can be reopened under a running task, and a task created on
  completed dependencies is blocked until another change.

`DependencySearch` executes the recursive `visit` with its marks on an
explicit stack, on every graph of three nodes; `AnswerIsRight` ties its answer
to `CycleFree`, which is what `TeamTasks` calls `Acyclic`, so the abstraction
there is itself checked, and proved for every graph.

### `FileLock`
`Step` of a thread tells how far `__enter__` or `__exit__` got. The file is a
record: who wrote it, whether the content is there yet, whether it is old.
`Age` may happen at any time, because a body may take long. `IsStale` asks
whether the writer's process runs, so a slow holder is not robbed.

`CallFails` is an `OSError` of any call: caught, it costs the attempt or the
removal; elsewhere it goes up to the caller, and a file may stay.

* `ExclusiveUntilCrash` and `EnterAnswers` hold; `NoFileLeftBehind` until a
  death or such an error.
* `OneBreakerIsSafe` says that deaths, failing calls and old locks alone never
  cost the exclusion: it takes two threads about to remove one stale file
  (`collided`), and then `Exclusive` does fail: the second removes the lock that
  the first took meanwhile. It takes three threads and one death.
* `OrphanIsStale` fails for a file whose writer died before writing.

### `Mailbox`
`send` serves a list of recipients in order, each delivery with a lock of its own;
a name that is listed twice is served twice, because nothing in
`mailbox.py:41-53` or `tools.py:72` cleans the list. `send` and `mark_read` hold
the lock (abstract here: `lock` is a worker or free), but the file changes within
them line by line; what `inbox`, which takes no lock, finds at a moment is
`Inbox`. `KeepsPromise` is the refinement of `MailboxSpec`: there a message is
posted to a list, which is served name by name or given up; a marking is a single
step and marks every copy in that mailbox; the lines in the hands of the rewriting
worker count as still there, as they will be. The promise ends with the first death. After one
`CrashLosesAtMostOne` fails and for readers `InboxIsComplete` fails.

### `TeamRun`
The store calls of the task list are steps; between them everybody may act.
`thread[m]` is the place of a member's loop with the batch, task and version
it holds. `lead` is the lead's call under way: `assign` is two store calls,
`stop_member` four steps. `Deps` is fixed; creation and deletion of tasks are left
out, and each member's roster entry is a cell of its own. A word that is no status is
refused by the store and changes nothing, so `SetStatus` takes statuses only. A lock that times
out in a member's loop ends its thread (`LockTimeout`); what the roster then says is
`RunnerFails` of `TeamRoster`.

* `ResultIsAssignees`: holds whatever the lead assigns, provided
  that no model sets statuses by hand (`MaxUpdates = 0` is the guard in the
  properties, not only the bound).
* `EffectsApproved`: at every moment of a tool with side effects the plan is
  allowed. It relies on `decide` refusing a second decision and on the single
  executor of the member.
* `AssignedIsDone`: liveness, below.
* Refuted: `PlanBeforeWork`, `FailureIsVisible`, `NoForeignResult`.

### `SubagentManager`
A critical section of the manager's lock is a step. `main` is where the one
main thread is; the pool takes queued tasks in order with at most `MaxWorkers` at a
time. A cleared task is not in `known` any more but may still run.
Ctrl+C during a foreground wait cancels the task and goes up: the process ends
without `close()` (`killed`), and its daemon threads may take further steps before it is gone.
`DeliversOnce` is the refinement of `ResultDelivery`: `copies` counts both ways
a result may reach the main agent. Refuted: `MovedIsKept` (the wait ends, the task
finishes, only then is it moved) and `OnlyThisConversation` (a hook reads the snapshot,
`/clear`, the hook submits).

### `SessionArchive`, `AgentSession`
A line of the archive is a message (role, call ids, answered id), an event, a
torn end or a bad line; a record written behind a torn end is swallowed by it
(`Landed`). `SafeMessages` is the scan; `RecoveryIsLongest` compares it for every
archive of at most four lines with the *longest prefix in order*, which is
stated without a scan; what a provider accepts is `Paired`. `Those` picks what can
be read out of an archive, and the two parts of a batch.

`AgentSession` runs turns over it. `BatchOrder` puts calls without side effects
first, which is the order in which results enter history and archive. A write
may fail with its record kept in the stream's buffer or gone. A result that is too long for the
history and cannot be put on disk raises amid the calls (`SpillFails`): in an ordinary turn that
ends the process, which is `Crash`; in a turn of a command the dispatcher reports it and the program goes on
with calls that nothing answers. `/clear` may fail at its event (`ClearFails`), after the
conversation is emptied; the errors of closing and opening an archive there are left out. A crash may tear the line
being written. `RequestIsPaired` holds in every conversation but one broken off like that
(`brokenOff`, until `/clear` or a resume; `EveryRequestIsPaired` is refuted), `RestorableStays` throughout;
`ArchiveMatches` says that the archive and the history agree as long as no
write failed and the archive is in order. Three promises of specs/010 are refuted:
results recorded in batch order are not in the call order that the recovery
wants (`AgentSessionOrder`); a resumed session is appended behind the part
that was cut off, and the next resume drops it; a torn
line swallows the following record (`AgentSessionTorn`).

`ChildRuns` reads the same conversation. A forked subagent gets everything up to
the first unanswered call, of a copy taken before each request
(`agent.py:278-287`); an isolated skill the last whole segments, of the list itself,
whose last message asks for that skill. `HistoriesArePaired` ties both scans to
`Paired`, on any history with or without calls pending, and says that no more is left
out than must be.

### `ContextManager`
A message is its role, number of calls and size in tokens. `CompactGroups` and `Summarized`
are the two compressions, `Prepare` what happens before each request, with
the summary's provider failing at will until the fuse opens. A turn that ends in an error, an
interrupt or one empty answer too many is followed by `TakeBack`, what `_run_request` of `cli.py`
does with the user's message unless a summary made the history shorter than it was. `said` remembers
all messages but those, so `RecentIsKept` can say that the history is summaries and then the newest of
them, role by role and id by id, none left out in between, and at least `MinRecent` of them; between
turns one less, because the message taken back may be one of those a summary kept, and never two
less, however many turns fail (`EnoughIsKept`, without that one, is refuted); `ResultsFollow` is
what a resumed history has, because `recover_safe_messages` cut it;
`RequestKeepsPairs` says that a request never has a call without results. Refuted:
`GroupsFit` (a group of results each of which fits alone is left as it is) and
`SummaryWhenNear` (the guard of the summary looks at the messages without prompt
and tools).

### `HookManager`
`Catalog` is the acceptance of a configuration, which the assumption on `Rules`
uses. A dispatch goes rule by rule; an asynchronous action
is submitted, entered in `_pending` and given its callback in three steps, and
`close` takes its snapshot, waits and sweeps between them. `OnceRunsOnce` and
`ScheduledIsRecorded` hold; `RecordedOnce` is refuted, an action that ends between
the wait and the sweep is recorded twice.

### `McpClient`
Servers are started one after another, each step of which may fail. A call takes
lines from its server's queue, keeps those of others to itself and puts them back when
its own has come. `AnswerIsReachable` says where an answer can be as
long as no call failed; `AnswersSurviveFailures`, the same without the
condition, is refuted: a call that times out drops what it kept. That every call ends
(`EveryCallEnds`) holds when notifications are finitely many: each starts the timeout anew.

### `TeamRoster`
The lead's operations and a member's status report are read, change and save
steps on one file. A thread ends by its event or message (`RunnerEnds`), by a
message alone that a death left unread (`RunnerReadsStop`), or because a store raised
under it (`RunnerFails`, also what `LockTimeout` of `TeamRun` means here); the last two leave
the record as it is. A resume may raise half way and leave members out (`ResumeEnd`), and any
write of the lead may fail (`LeadSaveFails`, `StopUnsent`). `gone` remembers who was
taken away like that since it was started, `calm` whether two writers overlapped, a stop or a
write of the lead failed, or a team was resumed over its running members. `CalmRosterIsRight` is what then
holds between roster, handles, threads and pool: whoever runs is listed, and those
active who do not run are exactly those of `gone`. `ActiveMembersRun`, without `gone`, is refuted,
and so is `StartedIsListed` (`RosterLoses`): a member's report written back over the lead's new entry.

### `Worktrees`
Directory, manifest, uncommitted changes, unpushed commits and age of a tree;
`removing` is how far the runner's or the cleaner's `remove` has got with its
checks. An agent commits to the branch only while HEAD is on it, and may move HEAD
(`AgentMovesHead`); `has_unpushed` counts from HEAD (`Unpushed`) and the branch is what gets
deleted. `WorkIsKept` excepts the trees that the cleaner took while they
were in use, and for commits (not for retained directories) those whose agent moved HEAD off unpushed
ones (`strayed`). Without the first exception `UsedTreeIsKept`, without the second
`CommitsAreKept` is refuted.

### `TeamIntegration`
A commit is the set of changes in its history. `publish` is its steps: checks,
reading of the baseline's untracked files, their removal one by one, merge, or restoring one by one.
Each call may raise: one that cannot read ends it early, one between the files leaves the
earlier ones gone (`PublishRaises`), a git that cannot be started skips the restoring. `PublishedIsChecked` says how
the user's branch may move: to the commit that passed the checks, or to that
commit and what a resolver committed in the integration's directory after the checks;
`UserFilesSurvive` that a publish which git refuses, or which finds a changed file, leaves
every file of the user in place, and that one is away only while its text is held, or after a death or such
an error. Refuted: `ErrorsKeepFiles` (an error alone loses nothing), `PublishingKeepsFiles` (the integrated
branches do not have the file that was unlinked for them) and `MergedIsIn` (a merge given up
counts as merged).

### `Permissions`, `ToolAccess`, `TeamScope`
Pure decisions, written as operators and compared on bounded inputs.
`Evaluate` is the order blacklist, sandbox, rules, mode, answer; `Load` and
`AppendRule` are the rule file, line by line: modes, headers of the rules' and of other maps,
comments that mention the rules, rules. The pattern of a rule is a sequence of characters by kind:
quotes, `#`, spaces, line ends, anything else. `QuoteAfter` is the quote `_strip_comment`
takes itself to be in, `CutAsComment` what it cuts, `Stripped` what `parse_rule_key` leaves, `Encoded` the way around
both that a newline takes. `CallOutcome` is one call of an agent from
hooks to executor, `SubagentTools`, `ChildRegistry` and `Clone` what a subagent
has, `ScopedOutcome` a call within a team, and `Outcome` that or a call of the isolated skill that
somebody runs, whose registry is the one behind the scope (`SkillRegistry`). `ChildRunsLessThanParent`: what a
child may run, its parent could run without being asked.
`AlwaysSurvivesRestart`: an answer "always" is in force after a restart, if its target is a
plain text (`PlainText`: no space at its ends, no `#` behind a double quote, no line end, or encoded) and
where the file mentions its rules, their map is the last one. `AlwaysIsNeverLost`, without these, is
refuted: `Bash(echo "x" # note)` is cut at the `#`, and under a comment that says `rules:` the
rule is appended to whatever map is last. `TeamKeepsItsPlaces`: members, coordinator and main agent keep to
their tools and names; for a coordinator it names the ways by which files still change, an isolated
skill, an `--abort`, an `--output`, a substitution (`CoordinatorChangesNothing`, which allows for the `--abort` only,
is refuted). `LeadsRulesBind` is refuted too: members are permissive under a strict lead, and those in a terminal
know the rules of their tree only.

### `Skills`
Files change at any time; a reload reads the entries of a source, then
their fingerprint, source by source. `runStack` is the main conversation and the isolated runs
under way, each with the definitions of its active skills. `SkillsAreCurrent` relates files, catalog, commands and active skills
after any number of edits, refusals and reloads; `SkillsOnlyNarrow` says
that within a turn the tools of a run only shrink, and that a run which starts for an isolated
skill has none that the skill does not list. It says nothing of a child and its caller: the child's registry
is a copy of the whole one, and `ChildrenOnlyNarrow` is refuted. So is `ReloadsOnlyNarrow`.

### `Notes`
The updater's thread and the main thread run the same steps: ask, apply one
operation after another, list, write the index, and any of it may raise (`BadOperation`,
`RebuildFails`, which may leave the index empty). `NotesSettle` is what holds when nothing
is under way, with the two exceptions it names.

### `FileTools`
Reads of one answer run in parallel, then its writes one after the other, while
other processes change the file; the cache key is time and size. `ReadsAreFresh` holds
but for a change between the text and its entry; `ReadsAreAlwaysFresh`
and `EditsKeepOthers` are refuted.

## Runs and bounds

Passing runs:

| run | bounds | why they are enough |
|---|---|---|
| `TeamTasks` | 3 tasks (symmetric), lead and 1 member, versions up to 3 | cycles of three, a caller overtaken twice |
| `FileLock` | 3 threads in 2 processes, 1 retry | holder, breaker and third party; a process with two threads |
| `Mailbox` | 2 boxes, 2 messages, 2 workers (all symmetric), lists of up to 2, all may die | a list half way, a name twice, a writer behind a rewriting one, two messages to be put back |
| `TeamRun` | 2 members (1 with approval), 1 task, 2 assigns, 1 update, 1 timeout | a task taken over by another member, each error once, liveness; `TeamRunChain.cfg` has two tasks in a chain |
| `SubagentManager` | 3 tasks (1 by a hook), 1 worker, 1 `/clear` | queueing behind a task, everything before and after a clear |
| `AgentSession` | 2 calls (one with side effects), 2 sessions, 2 turns of 2 iterations, 1 crash, 1 failed write | crash, resume, new turn, resume |
| `MCServices` | hooks: 4 rules, 2 agents, 3 events, 2 futures, 1 worker; MCP: 2 servers, 2 callers, 2 calls, 1 notification; context: 5 messages, sizes below and above the limits; worktrees: 1 task, 2 deaths; skills: 3 places, 6 texts, 2 edits, 3 calls, depth 3; notes: 1 id in 2 scopes, 2 updates, 1 command; files: 2 reads at a time, 4 changes | a queue behind the worker and an action of close; two answers in the wrong queue order; two summaries, and a turn taken back after one; a recovery that fails, a HEAD elsewhere; an override taken back; two threads at one index; a change within each step of a read |
| `MCSafety` | roster: 2 members, 1 report, 1 resume; integration: 2 branches, 2 files, 1 act of the user, 1 attempt; all graphs of 3 nodes; archives of 4 lines over 2 calls; 3 rule files of up to 3 lines, targets of up to 4 characters; conversations of 3 segments and a pending one; one registry with an alias, an exempt and a system tool, all modes and roles with and without each denial | an overlap of writers, a stop message read after a death, a resume half way; conflict, abort, a moved target, an error at the second file; self-loops, 2- and 3-cycles; a pair with a message around it; a mode line behind rules, a comment for a header, each pair of quote and `#`; a pending group with and without results; each guard of the decision decides alone |

Violation runs, each with the smallest instance that shows a disagreement
between the code and what the repository says of it:

| run | refuted | how |
|---|---|---|
| `FileLockTwoBreakers` | `Exclusive` (specs/016-agent-team/spec.md:217) | two waiters that saw the same stale file unlink one after the other |
| `SubagentManagerMoved` | `MovedIsKept` (specs/014-subagent-system/spec.md:193) | the task finishes between the end of the wait and `move_to_background` |
| `AgentSessionOrder` | `FinishedTurnIsKept` (specs/010-memory-system/spec.md:23) | results recorded reads first, read back in call order |
| `RosterLoses` | `StartedIsListed` (specs/016-agent-team/spec.md, N2) | a member's status report overwrites the lead's new entry |

Further definitions that say more than the code does. Each is refuted by the
configuration named, or by that of a passing run with the definition in the place of its
properties:

| definition | configuration | how |
|---|---|---|
| `OrphanIsStale` (016 plan.md:179) | `FileLockEmptyFile.cfg` | death between `os.open` and `os.write`: the empty file is never stale |
| `RunningIsReady` (016 spec.md:64) | `TeamTasksReopen.cfg` | a completed dependency is set back under a running task |
| `BlockedIsWaiting` (016 plan.md:145) | `TeamTasksReopen.cfg` | `create` does not look at whether the dependencies are completed |
| `CrashLosesAtMostOne` (016 spec.md:155) | `Mailbox.cfg` | death while `mark_read` puts the messages back |
| `InboxIsComplete` (016 spec.md:154) | `Mailbox.cfg` | a reader in the middle of the rewriting |
| `PlanBeforeWork` (016 spec.md:88) | `TeamRunPlan.cfg` | a task found on the list is executed without a plan |
| `FailureIsVisible` (016 spec.md:229) | `TeamRunFailure.cfg` | a store error ends the thread, the roster stays |
| `NoForeignResult` (016 spec.md:66) | `TeamRunForeign.cfg` | the result is saved with a version read after the work |
| `OnlyThisConversation` (014 spec.md:200) | `SubagentManagerHook.cfg` | a hook reads the snapshot, `/clear`, the hook submits |
| `FinishedTurnIsKept` (010 spec.md:12) | `AgentSessionOrder.cfg` with no `SideEffect`, two turns, one crash | turns appended behind the part that a resume cut off |
| `CrashTakesOneRecord` (010 spec.md:23) | `AgentSessionTorn.cfg` | the first record after a torn line is swallowed by it |
| `EveryRequestIsPaired` | `AgentSession.cfg` | a result that cannot be put on disk ends a command's turn amid its calls |
| `GroupsFit`, `SummaryWhenNear` (009 F3, F6), `EnoughIsKept` | `MCServices.cfg` | see `ContextManager` |
| `RecordedOnce` | `MCServices.cfg` | see `HookManager` |
| `AnswersSurviveFailures` (008 F10) | `MCServices.cfg` | see `McpClient` |
| `ActiveMembersRun` | `MCSafety.cfg` | see `TeamRoster` |
| `UsedTreeIsKept`, `CommitsAreKept` | `MCServices.cfg` | see `Worktrees` |
| `MergedIsIn`, `PublishingKeepsFiles`, `ErrorsKeepFiles` | `MCSafety.cfg` | see `TeamIntegration` |
| `ReloadsOnlyNarrow`, `ChildrenOnlyNarrow` | `MCServices.cfg` | see `Skills` |
| `ReadsAreAlwaysFresh`, `EditsKeepOthers` | `MCServices.cfg` | see `FileTools` |
| `AlwaysIsNeverLost` | `MCSafety.cfg` | see `Permissions` |
| `LeadsRulesBind`, `CoordinatorChangesNothing` | `MCSafety.cfg` | see `TeamScope` |

The modules' type invariants (`TypeOK`, or with the module's name in front)
hold under the constants of their runs too; they are left out there because the
other properties would not survive a state of the wrong type.

Deadlock checking is off where the system may stop: the bounds are used up,
everybody has died or returned, or the process has ended.

## Fairness

* `FileLock`, `Mailbox`: weak fairness of each live thread's steps. `__enter__`
  sleeps between a bounded number of attempts, so nothing but its own steps is
  needed for an answer; dying needs no fairness.
* `TeamRun`: weak fairness of a member's loop; *strong* fairness of
  the end of its work, because a model that keeps calling tools is stopped by
  `max_iterations`, so it cannot do so for ever; weak fairness of the remaining
  steps of a lead's call. That the lead assigns, decides or stops is never
  assumed.
* `SubagentManager`: a wait ends (it has a timeout), a worker takes a queued
  task, a runner ends (bounded iterations).
* `AgentSession`: the agent goes on; a request ends by an answer or its timeout.
  Users and crashes are free.
* `HookManager`: a thread that has begun to schedule goes on, a worker takes and
  ends its action (each has a timeout), callbacks run, and `close`, once begun, goes on.
  That anybody dispatches or closes is not assumed.
* `McpClient`: a waiting call takes a line or times out. Servers owe nothing.
* The other services are checked for safety only and state no fairness.

## What is proved

With TLAPS, for every value of the constants.

`TeamTasksProofs`, from the assumptions of `TeamTasks` only. The inductive
invariant `IInv` joins the types, the existence and acyclicity of dependencies,
`PendingIsReady`, `VersionTellsChange`, and `SeenUsed`: what somebody has read
was created, so its identifier never comes back.
Acyclicity is needed in no step but those that change dependencies: there the
code checks the graph *with* the new edges, and a created task has nobody
depending on it, which a lemma turns into acyclicity of the larger graph.
`VersionTellsChange` says that a reading never has a version above the
task's and is equal to the task if the versions agree; it is inductive because
every change, that of `RefreshBlocked` included, raises the version. Theorems: `TypeCorrect`,
`DependencyOrder`, `Readiness`, `NoSilentOverwrite`, `VersionsRise`.

The same module proves `AnswerIsRight` for every graph, finite or not.
`SearchInv`: the active calls form a path, each a child of its caller; what a
call has not left to visit it has visited or is visiting; and the returned
nodes are closed under dependencies and have no cycle among them, which is
what a return adds one node to. A child that is being visited closes a cycle of
active calls; and when the last root returns, the returned nodes are all.
`SearchSaysAcyclic` restates the answer with the operator of `TeamTasks`.

`TeamRunProofs`. `IInv` joins the types and the two properties with
`TaskIsHeld` (a thread that is at a task has one), `SendIsCounted`, and
`ClaimIsCurrent`: the version a member is about to claim at is not above the
task's, and if it is the task's, the task is pending as it was when it was
read. Without it `ResultIsAssignees` is not inductive at the claim: this is where
the optimistic version is what keeps two members from one task.
`EffectsApproved` needs that a decided plan stays decided.

`TeamRecordsProofs` has two sections. The mailbox: until somebody dies, the files
implement `MailboxSpec`.
`MailboxInv` adds to the types, while nobody has died, `Guarded` (who is
between the ends of a critical section holds its lock, and the file is as it was
read) and `Theirs` (whoever is sending a message is the one who began to send
it). Each step is then one of the abstract mailbox, or a stutter on `View`: `Owed`
is the rest of the list in the sender's call, which an append serves at its
head, once for each time a name is listed, and which a lock that cannot be had
gives up. `Contents` counts the lines in a rewriter's memory as already marked
(`RewrittenLines`), so each line put back maps to a stutter (`LinePutBack`).

The roster: `CalmRosterIsRight` with `RosterInv`: while nothing
overlapped, those who run are the active members but for the one the lead is
busy with (`Away`) and those whose thread ended by itself (`gone`; `RunInv`), what the lead and the members are about to write
differs from the file in one entry only (`SawInv`, `SavingInv`), and who runs can be
stopped (`HandlesInv`). It is the one-entry difference that a second writer breaks. A
thread that ends by itself, on a store error or on a stop message it finds after a
restart, only adds to `gone` (`ThreadEndsKeeps`), and a resume that raises leaves the team
detached, where nobody runs.

`AlgorithmsProofs` has a section for each family of pure operators. Each first proves what the
operators do for all their arguments, then the property of `MCAlgorithms` by
showing that the inputs of the run (`InputTypeInvariant`) are such arguments.

* *Recovery.* The scan of `SafeMessages` is a recursive function. That such a
  function is defined at all, and what it computes, is shown by a least (or, for
  one that runs backwards, a greatest) counterexample: `Forwards`, `Backwards`.
  `SafeAt` says without the scan where it stops, by whole groups, and all the rest follows from
  that: what it returns is in order and as long as it can be
  (`RecoveryScanIsLongest`), grows with the archive (`SafeGrows`), and stays broken
  once something else follows a broken group (`BrokenStays`).
* *Histories of child runs.* A conversation is open at `b` (`OpenAt`) if what is in front of
  `b` is paired and from `b` on there is nothing, or one message with calls and results of some but not all of
  them. `ForkHistory` is what is in front (`Forks` says what the scan is without
  recursion, `OpenEnds` that it drops the open part, `ForkOfPrefix` and
  `GroupIsWhole` that it drops nothing else). For `SkillHistory`, `Segmented` says where
  segments begin and end, `SegmentsAreFinished` that the segments it may choose from
  are the groups in front of `b`, `SkillHistoryIsTheEnd` that those it chooses,
  joined again (`FlattenFirst`), are an end of the conversation, and
  `SuffixIsPaired` that an end which begins with no result is paired.
  Together: `ChildrenAreGivenWhatIsFinished`, of any conversation and any length asked for.
* *Rules and their files.* `SubagentsAreNarrower` compares what a subagent runs with
  what its parent, with nobody to ask, would have run: narrowing the mode and copying the rules never
  turns a refusal into a permission (`CloneNarrows`), and the child's registry
  resolves a name as the parent's does (`CloneResolves`). `AlwaysIsStillInForce` assumes what
  the code needs: the text of the call survives the file, that is nothing of it is
  stripped or cut as a comment (`Survives`), and the map of the rules is the last one of
  the local file. `PlainTextSurvives`: texts of any length survive
  that neither begin nor end with a blank, break no line, and have no `#` behind a double
  quote; it follows the quote toggle along the line (`QuoteAfter`). The theorem follows the
  appended line: `Load` is a recursive function over the lines
  (`LoadIsDefined`), an appended rule is put last or replaces the one of its key, and since the call was asked about, no rule in
  force before it matched.
* *Teams.* `TeamAgentsKeepTheirPlaces` says what lead, members and coordinators cannot
  do, by a call of their own (`OwnCallsAreInPlace`) or by one that an isolated skill
  makes for them over the unscoped registry (`SkillRegistryResolves`): a member has
  no skill to do it in its stead, and none leads to an agent, but a coordinator
  has one that writes, and `InItsPlace` says so. It holds for any registry that is in order, as `create_default_registry` makes them: system tools are
  tools, no alias is the name of a tool (`RegistryInOrder`; `None` is the model's
  name for no tool). `MembersCanAsk` is its counterpart: a gated member can
  submit its plan, so the gate is not a dead end; `AsksForPlan` names what that needs,
  a mode that is not strict and no rule about the call.

Theorems of the run's specification: `RecoveryIsLongestTheorem`, `HistoriesArePairedTheorem`,
`ChildRunsLessThanParentTheorem`, `AlwaysSurvivesRestartTheorem`, `TeamKeepsItsPlacesTheorem`.
The first is about archives of any length, which the run bounds; the inputs of the others are
the families the run enumerates, and it is the general theorems that go beyond them.

`AgentSessionProofs`, on top of it, from `NoCallAssumption`, `SideEffectAssumption` and
`LimitsAssumption` (the limits are numbers, and at least one unknown tool is
allowed, which is what the code's only value gives).

* `RequestIsPaired` with `SessionInv`: between the turns and at a request the
  history is paired, unless an error that nothing catches, as of a spilled result that
  cannot be written, has broken a turn off amid its calls (`brokenOff`); while tools run, what came back and what the queue still
  holds are together the calls of one message at the end of a paired history,
  each once (`InBatch`, `NoneTwice`), in whatever order they come. The last message of a user can be
  taken back because no call can claim it (`PairedFront`).
* `RestorableStays`: each step leaves of every archive a start of what can be read
  of it (`Grown`), a torn end and the line that lands on it included.
* `ArchiveMatches` with `ArchiveInv`: history and archive agree but for messages
  of users, or the archive is not in order, either for good or until the next
  message makes it so (`Told`). The last case is the one right after a resume cut
  something off; without it the invariant is not inductive at `ResumeSession`.
* `ChildrenGetWhatIsFinished`, a consequence of the same `SessionInv`: whenever a
  child run can start, the conversation is open at its end or at the response whose calls are
  running (`BatchIsOpen`), so a fork gets all that is finished and an isolated
  skill an end of it that is paired.

`FilesProofs` has four sections.

* `Worktrees`, from `CleanerAssumption`. `WorkIsKept` follows from what
  holds between the commands of a removal: a runner removes its own directory only,
  after leaving it (`RunnerInv`); a cleaner that did not meet the task in use is at
  a directory that exists or whose task is past waiting, so nobody makes it anew
  underneath (`CleanerInv`); what is being removed is not retained and, once its
  commits were asked for, has none that HEAD counts (`NothingToLose`); and unpushed
  commits that HEAD is not on were left by their agent, which moved HEAD away
  (`StrayInv`), the one case in which `git branch -D` loses them. Theorem: `WorktreeWorkIsKept`.
* `FileTools`. `ReadsAreFresh` with `FilesInv`: no read is under way
  while a call writes (`WritesAlone`), what was read was not older than the read
  (`TextIsCurrent`), the cache's entry is not of the future and, while a file is
  being filled, of the past (`EntryIsPast`), so a key that is found belongs to
  the text there is (`EntryIsRight`).
* `TeamIntegration`. `UserFilesSurvive` and `PublishedIsChecked` with
  `IntegInv`: a file is away only between release and end of a publish that
  holds its text in `backups`, or for good after a death, or an unlink or a restoration that
  failed midway (`GoneInv`), only a ready record is published (`PublishingInv`), and a ready
  branch is what was checked, or that and a late commit (`ReadyInv`). The proof
  showed that an earlier form of `PublishedIsChecked`, without the late commit,
  held for one attempt only; with two it is false, and so would be the claim
  that exactly the checked commit is published.
* `FileLock`. Unless two threads were about to remove one stale file
  (`collided`), a thread past its create owns the file there is (`FileIsOwn`), and who is
  about to break a lock is alone at it and has a stale one before it
  (`BreakerIsRight`): the owner of that file is dead, so the removal robs nobody.
  Mutual exclusion follows because there is one file. Before the first
  death nobody breaks anything (`NothingToBreak`); and while no call failed either, every
  file has a thread that will remove it (`Tended`). Theorems: `MutualExclusion`,
  `OneBreakerIsSafeTheorem`, `NothingLeftBehind`.

`ServicesProofs` has five.

* `HookManager`, from `RulesAssumption` (the catalog was accepted). The
  inductive invariant `OnceInv`: dispatches look only at rules of the catalog, and a
  once-rule has not run, or has run once and is entered in `_once`. Because an
  accepted catalog names each rule once, the run of another rule does not count
  against it; because entering is one step under the lock, a rule that is entered
  is not started again, in the dispatch or in the pool. Theorem: `OnceRulesRunOnce`.
* `McpClient`, from `McpAssumption`. `AnswerIsReachable` becomes inductive
  with `IdsInv`: the calls under way have identifiers of their own, all given out
  already. So the line that is a call's answer is nobody else's, and a call that ends
  well loses nothing when it puts back what it kept; that an answer is in the
  queue once is not needed. Theorem: `AnswersAreReachable`.
* `Notes`, from `NotesAssumption`. `NotesSettle` with `NotesInv`: the
  count of pending updates is never above those that are outstanding, although its two
  writers race (`PendingIsCovered`), so a count of zero means that none is; who
  has changed a note is between its first operation and its index
  (`ChangedIsUnderWay`); and what was listed, and the index when nobody is under
  way, are of the notes there are (`ListedIsCurrent`, `IndexIsCurrent`), unless
  the other thread came between or the rebuilding itself failed (`broken.index`).
* `Skills`, from `SkillsAssumption`. A stamp rises with every write, so
  two states of the files with the same fingerprint are equal in all that is
  merged (`FingerprintTells`): this is why a check that compares fingerprints is
  enough. `SkillsInv` says that the catalog is that of one past state,
  fingerprint and all (`CatalogIsPast`), that a reload under way has merged and stamped its
  first sources as they were when it began (`ReloadIsRight`), that every definition,
  command and active skill has the name it is found by (`NamesAreRight`,
  `RunsFollow`), and that the routed input meets the catalog of the last check
  (`CatalogIsCurrent`). Theorems: `SkillsAreCurrentTheorem`, and
  `SkillsOnlyNarrowTheorem`: skills wished for within a run only narrow it, and an isolated run that
  is started is shown only what its own skill lists (which may be more than its
  caller is shown: its registry is a copy of the unscoped one).
* `ContextManager`, from `ContextAssumption` (sizes are numbers, and what is
  restored is what `recover_safe_messages` left). `ContextInv`: in every stage calls have
  their results right behind them and nothing else does (`ResultsFollow`),
  the newest messages are there, one fewer between the turns (`Least`), and what a
  failed request takes back is the message of its user, never a summary
  (`LastIsSaid`). Spilling changes no role, id or number of calls (`Alike`); a
  cut where a segment starts parts no call from its result
  (`SummarizedAnswered`) and leaves `MinRecent` messages (`SummarizedKeeps`),
  also when it falls among older summaries; what an
  answer adds is complete in itself (`CallsAreAnswered`). Theorems:
  `RequestKeepsPairsTheorem`, `RecentIsKeptTheorem`.

Where a proof needs the greatest element of a bounded set, or an induction along a
list of sources, it takes a least counterexample (`LeastNatural`, from the
well-foundedness of the numbers): the library's induction rules take an operator
as a parameter, which the provers do not instantiate.

`SubagentManagerProofs`, from `SubagentManager`'s assumptions; the number of
workers is not used, so the results do not depend on who runs first. `IInv` joins
the types with

* `QueueInv`: a task is in the pool's queue once, and not in it while a worker
  executes it, so `_run_task` runs once for each task;
* `NewInv`: nothing happened to a task before it was submitted;
* `TableInv`: a task that a worker still has was ended, if at all, by a
  cancellation that the worker will find. This is why a late runner cannot
  change a final status (`FinalIsFinal`) and why a result is queued once;
* `MainInv`: during the foreground wait the task is in the table, is neither
  background nor cancelled, and its result went nowhere;
* `LeaseInv`: the lease is exactly what the request under way took;
* `HookInv`: snapshots are of this or an earlier conversation, and between the
  two steps of `/clear` only hooks' tasks of earlier ones can be in the table:
  without it `Announced` is not inductive, `ClearNotes` would empty the
  announcements of a new result.

There is one lemma for each action and one step for each part of the
invariant. `Refinement` maps the end of a background task to `Finish`,
`wait_foreground`'s answer to `Answer`, an acknowledged request to `Inject`,
`/clear` to `Drop`, and everything else to a stutter of `ResultDelivery`.
Theorems: `TypeCorrect`, `ResultsAreKept`, `LeasesEnd`, `CloseIsFinal`,
`ResultsAreAnnounced`, `StatusIsFinal`, `Refinement`.

Only model-checked:

* all liveness (`EnterAnswers`, `AssignedIsDone`, `EveryTaskEnds`, `TurnEnds`,
  `ScheduledIsRecorded`): the prover handles neither fairness nor ENABLED here;
* the violation runs, which are counterexamples.

## What the models leave out, on purpose

* Power loss and reordered disk writes: a crash is the death of a process.
* A process id reused by another process (`_pid_alive` then takes the lock for
  alive); the check errs on the side of waiting.
* Texts, names, times and token counts, except where a guard looks at them.
* `TeamRun`: creating and deleting tasks, the roster file (`TeamRoster`), process backends.
* `TeamTasks`, `TeamRun`: a word that is no status is refused and changes nothing, so the
  `TeamTask` tool is given the statuses only. `SetDependencies` is the store's operation; the tools pass
  dependencies only when a task is created.
* `AgentSession`: that `/clear` fails at closing or opening a recorder (its append may
  fail), context summaries (`ContextManager`), hooks (`HookManager`), notes (`Notes`), plan mode (`ToolAccess`). Ctrl+C during a tool
  batch is a failed call; during a request it is `FailRequest`.
* `Mailbox`: a line torn by a death inside a single append.
* `Worktrees`, `TeamIntegration`: git is what the code asks of it; its own failures
  are the errors the code handles. In `TeamIntegration` the member branches are
  commits only, whatever directory they are made in.
* `ContextManager`: a spilled result that cannot be written as it arrives breaks the turn off;
  this is in `AgentSession`, where the pairs depend on it.
* `McpClient`, `HookManager`: what servers and actions do; a server may answer
  anything at any time, an action may end in any way.
* `Permissions`: how a path is resolved and a command split; a call says where its
  target lies and of what kind its parts are.
* The services of `MCServices` do not interact there: a hook that submits a
  subagent is in `SubagentManager`, a summary within a turn is not composed with the archive.

## Plan

Done: every component of the inventory modelled and checked, and every safety
and action property of the passing runs proved, those of the state machines and
those of the decisions. Next:

1. `DeliversOnce` and `KeepsPromise` composed: a result injected into a turn whose process dies.
2. `ContextManager` composed with `SessionArchive`: a session resumed after a summary.
3. Deletion of tasks under members in `TeamRun`, and `TeamRoster` composed with it.
