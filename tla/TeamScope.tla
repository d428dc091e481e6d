----------------------------- MODULE TeamScope -----------------------------
(* What the agents of a team may do: the scope of the lead, the coordinator   *)
(* and the members over one registry (teams/scoping.py), the team tools that  *)
(* act under the name of their caller (teams/tools.py), the role a member is  *)
(* given when it is spawned (teams/manager.py), the permissions its backend   *)
(* runs it with, and the registry an isolated skill works on, which is the    *)
(* one behind the scope (cli.py, skills/runner.py).                           *)
(*                                                                            *)
(* An identity is the record of its scope, its name, whether it coordinates,  *)
(* whether its plans need approval, the states of the plans it has submitted  *)
(* for its task, oldest first, and its role: the mode it asks for, the tools  *)
(* it is allowed ({} for no role, or the one set it names) and those it is    *)
(* denied.                                                                    *)
EXTENDS ToolAccess

TeamTools == {"Team", "TeamTask", "TeamMessage",
              "TeamPlanRequest", "TeamPlanDecision", "TeamIntegrate"}
LeadTools == TeamTools \ {"TeamPlanRequest"}
MemberTools == {"TeamTask", "TeamMessage", "TeamPlanRequest"}

-----------------------------------------------------------------------------
(* Identities *)

NoRole == [requested |-> "none", allowed |-> {}, denied |-> {}]

\* spawn_member: the role of a definition of that name, or none.
RoleOf(definition) ==
  IF definition = NoDefinition THEN NoRole
  ELSE [requested |-> definition.permission, allowed |-> {ToSet(definition.allowed)},
        denied |-> ToSet(definition.denied)]

Identity(scope, name, coordinator) ==
  [scope |-> scope, name |-> name, coordinator |-> coordinator,
   gated |-> FALSE, plans |-> <<>>, role |-> NoRole]

\* current_identity of the main agent: it coordinates when the configuration
\* and the environment both say so.
CurrentIdentity(hasTeam, enabled, wished) ==
  IF hasTeam THEN Identity("lead", "lead", enabled /\ wished)
             ELSE Identity("main", "nobody", FALSE)

MemberIdentity(name, gated, plans, definition) ==
  [Identity("member", name, FALSE) EXCEPT
     !.gated = gated, !.plans = plans, !.role = RoleOf(definition)]

\* allows_side_effect: only the last plan for the task counts.
AllowsSideEffect(identity) ==
  ~ identity.gated \/ (identity.plans # <<>> /\ Last(identity.plans) = "allowed")

-----------------------------------------------------------------------------
(* ScopedToolRegistry *)

ScopeNames(registry, identity) == LET plain == ToolNames(registry) \ TeamTools IN
  CASE identity.scope = "main"   -> plain \cup {"Team"}
    [] identity.scope = "lead"   -> (plain \cup LeadTools) \ {"Agent"}
    [] identity.scope = "member" -> (plain \cup MemberTools) \ {"Agent", "Skill"}
    [] OTHER                     -> plain

HasSideEffect(registry, name) == name \in ToolNames(registry) => registry.tools[name].sideEffect

RoleLeaves(registry, role, names) ==
  {n \in names : n \in MemberTools \/
     /\ \A wanted \in role.allowed : n \in NormalizeNames(registry, wanted)
     /\ n \notin NormalizeNames(registry, role.denied)}

\* Mutant: the plan is asked for once only, whatever becomes of later ones.
VisibleOnceApproved(registry, identity) ==
  RoleLeaves(registry, identity.role,
    {n \in ScopeNames(registry, identity) :
       /\ \/ ~ identity.gated \/ "allowed" \in ToSet(identity.plans)
          \/ n \in MemberTools \/ ~ HasSideEffect(registry, n)
       /\ ~ (identity.coordinator /\ n \in {"Write", "Edit"})})

\* _visible.  The role is empty but for a member.
Visible(registry, identity) ==
  RoleLeaves(registry, identity.role,
    {n \in ScopeNames(registry, identity) :
       /\ AllowsSideEffect(identity) \/ n \in MemberTools \/ ~ HasSideEffect(registry, n)
       /\ ~ (identity.coordinator /\ n \in {"Write", "Edit"})})

\* As the agent loop and the executor see it; it is asked again at every use.
ScopedRegistry(registry, identity) == CloneRegistry(registry, Visible(registry, identity))

\* CoordinatorGitTool.run: one command of git, by the name of a reading one or
\* with --abort.  The rest of its words are not looked at, nor a substitution.
GitAllowed == {"status", "log", "diff", "show", "branch", "rev-parse", "worktree", "merge"}
GitReads == {"status", "log", "diff", "show", "rev-parse"}
CoordinatorMayRun(command) ==
  /\ ~ command.chained /\ Len(command.parts) = 1
  /\ command.git \in GitAllowed
  /\ command.git \in GitReads \/ command.abort

\* IdentityBoundTeamTool.run
MemberActions == {"list", "get", "claim", "update"}
Bound(identity, name, call) ==
  IF name \in {"TeamMessage", "TeamPlanRequest"}
     \/ (identity.scope = "member" /\ name = "TeamTask" /\ call.action = "claim")
  THEN [call EXCEPT !.as = identity.name] ELSE call

-----------------------------------------------------------------------------
(* The tools *)

Actions ==
  [Team |-> {"create", "resume", "list", "status", "spawn", "stop", "close", "delete"},
   TeamTask |-> {"create", "list", "get", "claim", "update", "delete", "assign", "wait"},
   TeamMessage |-> {"send", "broadcast", "inbox", "read"},
   TeamPlanRequest |-> {"submit"}, TeamPlanDecision |-> {"decide"},
   TeamIntegrate |-> {"start", "status", "continue", "publish", "abort"}]

\* run of the team tools; an assignment names its member.
TeamToolRuns(name, call) ==
  IF call.action \notin Actions[name] \/ (call.action = "assign" /\ call.as = "nobody")
  THEN "invalid_request" ELSE "ran"

\* get and run: the tool behind the scope.
RunScoped(identity, name, call) ==
  IF identity.coordinator /\ name = "Bash"
  THEN IF CoordinatorMayRun(call.command) THEN "ran" ELSE "coordinator_denied" ELSE
  IF identity.scope = "member" /\ name = "TeamTask" /\ call.action \notin MemberActions
  THEN "team_scope_denied" ELSE
  IF name \in TeamTools THEN TeamToolRuns(name, Bound(identity, name, call)) ELSE "ran"

\* A call that the agent makes itself.
ScopedOutcome(registry, identity, call, context, mode, answer) ==
  LET outcome == CallOutcome(ScopedRegistry(registry, identity), call, context, mode,
                             FALSE, answer) IN
  IF outcome = "ran" THEN RunScoped(identity, ResolveName(registry, call.name), call)
                     ELSE outcome

\* run_isolated_skill and SkillRunner.run: the run an isolated skill starts has
\* every tool but Agent, with a Skill of its own, under no scope.
OwnSkill == [sideEffect |-> FALSE, exempt |-> TRUE]
SkillRegistry(registry) ==
  Register(CloneRegistry(registry, ToolNames(registry) \ {"Skill", "Agent"}),
           "Skill", OwnSkill, TRUE)
SkillRunOutcome(registry, call, context, mode, answer) ==
  LET outcome == CallOutcome(SkillRegistry(registry), call, context, mode, FALSE, answer)
      tool == ResolveName(registry, call.name) IN
  IF outcome = "ran" /\ tool \in TeamTools THEN TeamToolRuns(tool, call) ELSE outcome

\* A call of the agent, by itself or through an isolated skill that it runs.
Outcome(registry, identity, through, call, context, mode, answer) ==
  IF through = "itself" THEN ScopedOutcome(registry, identity, call, context, mode, answer) ELSE
  IF "Skill" \in Visible(registry, identity)
  THEN SkillRunOutcome(registry, call, context, mode, answer) ELSE "unknown_tool"

-----------------------------------------------------------------------------
(* The member's permissions *)

\* execute_team_assignment and _run_team_worker: strict if its role says so,
\* and otherwise permissive, however strict its lead is.
MemberPermission(parent, requested) == LET child == Clone(parent, requested) IN
  IF requested = "strict" THEN child ELSE [child EXCEPT !.mode = "permissive"]

\* _run_team_worker: a member in a terminal reads the files of its own tree
\* and not those of its lead, and has fewer tools.
WorkerContext(user, project, local) == LET loaded == LoadAll(user, project, local) IN
  [mode |-> loaded.mode, rules |-> loaded.rules, sessionRules |-> <<>>, confirmer |-> TRUE]
WorkerRegistry(registry, default) == CloneRegistry(registry, default \cup MemberTools)
=============================================================================
