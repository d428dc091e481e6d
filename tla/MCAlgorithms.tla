---------------------------- MODULE MCAlgorithms ----------------------------
(* The algorithms that keep no state between calls, each on every input of a *)
(* bounded family: a behaviour is about one topic, chosen at the start.      *)
EXTENDS DependencySearch, SessionArchive, TeamScope, ChildRuns, FiniteSetsExt

CONSTANT MaxLines       \* bound: the longest archive looked at

VARIABLES topic, input, archive

Tool(side, exempt) == [sideEffect |-> side, exempt |-> exempt]
Plain == <<"t">>
TheRegistry ==
  [tools |-> [Find |-> Tool(FALSE, FALSE), Write |-> Tool(TRUE, FALSE),
              Bash |-> Tool(TRUE, FALSE), Agent |-> Tool(TRUE, TRUE)],
   aliases |-> [Glob |-> "Find"], system |-> {"Agent"}]

Command(dangerous, parts) ==
  [dangerous |-> dangerous, parts |-> parts, chained |-> FALSE, leavesWorkspace |-> FALSE]
ToolCall(name, target, place, command) ==
  [name |-> name, target |-> target, place |-> place, isObject |-> TRUE, command |-> command]
TheCalls ==
  {ToolCall(name, Plain, place, Command(FALSE, <<>>)) :
     name \in {"Find", "Glob", "Write", "Agent"}, place \in {"inside", "outside", "state"}}
  \cup {ToolCall("Bash", Plain, place, Command(dangerous, <<part>>)) :
     place \in {"none", "state"}, dangerous \in BOOLEAN, part \in {"reader", "other"}}

TheRule(tool, pattern, action) == [tool |-> tool, pattern |-> pattern, action |-> action]
TheRules == {<<>>, <<TheRule("Write", Plain, "allow")>>, <<TheRule("Bash", Star, "deny")>>,
             <<TheRule("Glob", Plain, "deny"), TheRule("Find", Star, "allow")>>}
Contexts == {NoContext} \cup
  [mode : Modes, rules : TheRules, sessionRules : TheRules, confirmer : {TRUE}]
Role(permission, denied, iterations) ==
  [name |-> "role", readable |-> TRUE, unknownFields |-> {}, model |-> "inherit",
   named |-> TRUE, body |-> TRUE, isolation |-> "shared", iterations |-> iterations,
   permission |-> permission, allowed |-> <<"Glob", "Write", "Bash">>, denied |-> denied]
BuiltinLayer == <<Role("default", <<"Write">>, 50)>>
Layers == {<<>>} \cup
  {<<BuiltinLayer, <<Role(permission, denied, iterations)>>>> :
     permission \in Modes, denied \in {<<>>, <<"Bash">>}, iterations \in {50, 51}}

AccessInputs ==
  [visible : {{"Find", "Bash", "Agent"}, {"Glob", "Write", "Bash"}}, layers : Layers,
   background : BOOLEAN, mode : {"default", "plan"}, parent : Contexts, call : TheCalls]

\* Files of every shape with a plain target, and plain files with every text.
TheLines == {ModeLine("strict"), Header, Comment, OtherMap,
             RuleLine(TheRule("Write", Plain, "deny")), RuleLine(TheRule("Write", Star, "deny"))}
FilesOf(most) == UNION {[1 .. n -> TheLines] : n \in 0 .. most}
Characters == {"t", "#"} \cup Quotes \cup Space
Texts == UNION {[1 .. n -> Characters] : n \in 0 .. 4}
FileInputs ==
  [user : {<<>>, <<ModeLine("strict")>>}, project : FilesOf(2), local : FilesOf(3),
   target : {Plain}]
  \cup [user : {<<>>}, project : {<<>>}, local : {<<>>, <<Header>>}, target : Texts]

TheTeamRegistry ==
  [tools |-> [Find |-> Tool(FALSE, FALSE), Write |-> Tool(TRUE, FALSE),
              Bash |-> Tool(TRUE, FALSE), Agent |-> Tool(TRUE, TRUE),
              Skill |-> Tool(TRUE, FALSE), Team |-> Tool(TRUE, FALSE),
              TeamTask |-> Tool(TRUE, TRUE), TeamMessage |-> Tool(TRUE, TRUE),
              TeamPlanRequest |-> Tool(FALSE, FALSE), TeamPlanDecision |-> Tool(TRUE, TRUE),
              TeamIntegrate |-> Tool(TRUE, FALSE)],
   aliases |-> [Glob |-> "Find"], system |-> {"Agent", "Skill"}]

\* Plans as submissions and decisions leave them: only the last one is open.
ThePlans == {<<>>, <<"pending">>, <<"allowed">>, <<"denied">>, <<"superseded", "pending">>,
             <<"allowed", "pending">>, <<"denied", "allowed">>, <<"allowed", "denied">>}
TheIdentities ==
  {CurrentIdentity(hasTeam, enabled, wished) :
     hasTeam \in BOOLEAN, enabled \in BOOLEAN, wished \in BOOLEAN}
  \cup {MemberIdentity("m1", gated, plans, definition) :
     gated \in BOOLEAN, plans \in ThePlans,
     definition \in {NoDefinition, Role("strict", <<>>, 50), Role("default", <<"Find">>, 50)}}

\* A command of git: its subcommand and what it is given.  It changes something
\* unless it is a diff that is shown only.
GitCommand(sub, option, chained) ==
  [dangerous |-> FALSE, chained |-> chained, leavesWorkspace |-> FALSE, git |-> sub,
   abort |-> option = "abort", changes |-> sub # "diff" \/ option # "none" \/ chained,
   option |-> option,
   parts |-> <<IF sub = "diff" /\ option # "output" THEN "git_status" ELSE "other">>]
TeamCall(name, place, command, action, as) ==
  [name |-> name, target |-> Plain, place |-> place, isObject |-> TRUE, command |-> command,
   action |-> action, as |-> as]
NoCommand == GitCommand("none", "none", FALSE)
TheTeamCalls ==
  {TeamCall(name, place, NoCommand, "none", "nobody") :
     name \in {"Glob", "Write", "Agent", "Skill"}, place \in {"inside", "outside"}}
  \cup {TeamCall("Bash", "none", GitCommand(sub, option, chained), "none", "nobody") :
     sub \in {"none", "diff", "merge", "push"},
     option \in {"none", "abort", "output", "substitution"}, chained \in BOOLEAN}
  \cup UNION {{TeamCall(name, "none", NoCommand, action, as) :
     action \in Actions[name], as \in {"lead", "m2"}} : name \in TeamTools}
TeamContexts ==
  [mode : Modes, sessionRules : {<<>>}, confirmer : {TRUE},
   rules : {<<>>, <<TheRule("Write", Star, "deny")>>, <<TheRule("TeamTask", Star, "deny")>>}]
\* A member in a terminal takes the rules of its tree, every other agent those
\* of the lead; tree is the one file they may stand in.
TheTrees == {<<>>, <<ModeLine("strict")>>, <<Header, RuleLine(TheRule("Write", Star, "deny"))>>}
TeamInputs ==
  [who : TheIdentities, through : {"itself", "skill"}, call : TheTeamCalls,
   lead : TeamContexts, terminal : {FALSE}, tree : {<<>>}]
  \cup [who : {w \in TheIdentities : w.scope = "member"}, through : {"itself", "skill"},
        call : TheTeamCalls,
        lead : {c \in TeamContexts : c.mode = "strict"}, terminal : {TRUE}, tree : TheTrees]
RulesInForce(in) == IF in.terminal THEN WorkerContext(<<>>, <<>>, in.tree) ELSE in.lead
ToolsAround(in) == IF in.terminal THEN WorkerRegistry(TheTeamRegistry, {"Find", "Write", "Bash"})
                   ELSE TheTeamRegistry

\* A conversation in the middle of a response: finished segments, and a last
\* one that is still being answered.
Finished == {<<User>>, <<Assistant(<<>>)>>} \cup
            {<<Assistant(<<c>>), Result(c)>> : c \in Call} \cup
            {<<Assistant(<<c, d>>), Result(c), Result(d)>> : c \in Call, d \in Call}
Unfinished == {<<>>} \cup {<<Assistant(<<c>>)>> : c \in Call} \cup
              {<<Assistant(<<c, d>>)>> : c \in Call, d \in Call} \cup
              {<<Assistant(<<p[1], p[2]>>), Result(p[1])>> :
                 p \in {q \in Call \X Call : q[1] # q[2]}}
HistoryInputs == [finished : UNION {[1 .. n -> Finished] : n \in 0 .. 3},
                  pending : Unfinished, asked : 0 .. 5]

-----------------------------------------------------------------------------
(* An archive is a text file that the user may edit and that torn writes and *)
(* swallowed errors leave holes in, so every order of readable messages is   *)
(* an input of recover_safe_messages.                                        *)
CallLists == {<<>>} \cup {<<c>> : c \in Call} \cup {<<c, d>> : c \in Call, d \in Call}
ReadableLines == {User} \cup {Assistant(calls) : calls \in CallLists} \cup {Result(c) : c \in Call}

RecoveryInit == archive = <<>>
\* One more readable line.
RecoveryNext == /\ Len(archive) < MaxLines
                /\ \E line \in ReadableLines : archive' = Append(archive, line)

-----------------------------------------------------------------------------
algorithmVars == <<topic, input, searchVars, archive>>

Idle == "idle"
AlgorithmsInit ==
  /\ topic \in {"search", "recovery", "access", "team", "files", "history"}
  /\ RecoveryInit
  /\ SearchInit /\ (topic # "search" => graph = [n \in Node |-> {}])
  /\ \/ topic \in {"search", "recovery"} /\ input = Idle
     \/ topic = "access" /\ input \in AccessInputs
     \/ topic = "team" /\ input \in TeamInputs
     \/ topic = "files" /\ input \in FileInputs
     \/ topic = "history" /\ input \in HistoryInputs

AlgorithmsNext ==
  /\ UNCHANGED <<topic, input>>
  /\ \/ topic = "search" /\ SearchNext /\ UNCHANGED archive
     \/ topic = "recovery" /\ RecoveryNext /\ UNCHANGED searchVars

AlgorithmsSpec == AlgorithmsInit /\ [][AlgorithmsNext]_algorithmVars

-----------------------------------------------------------------------------
(* The scan returns the longest part of the archive that is in order: a     *)
(* shorter one would forget finished work, a longer one would break the     *)
(* next request (recover_safe_messages, recovery.py:6-36).                  *)
RecoveryIsLongest == topic = "recovery" =>
  LET safe == {n \in 0 .. Len(archive) : InOrder(SubSeq(archive, 1, n))}
  IN SafeMessages(archive) = SubSeq(archive, 1, Max(safe))

(* A subagent runs no call whose tool its parent was not shown, no agent   *)
(* may be given or the last definition of its role denies, nor one that the *)
(* parent itself would have had to ask about or been refused: what it       *)
(* inherits only narrows, whatever its definition asks for                  *)
(* (subagents/filtering.py:21-45, permissions/snapshot.py:15-42).           *)
ChildRunsLessThanParent ==
  topic = "access" /\ CatalogAccepted(input.layers, TheRegistry, {"Find", "Bash"}, {}) =>
  LET call == input.call
      definition == IF input.layers = <<>> THEN NoDefinition
                    ELSE MergeLayers(input.layers)["role"]
      names == SubagentTools(TheRegistry, input.visible, definition,
                             input.background, {"Find", "Bash"}, input.mode)
      registry == ChildRegistry(TheRegistry, names)
      child == Clone(input.parent, definition.permission)
      parent == IF input.parent = NoContext THEN NoContext
                ELSE [input.parent EXCEPT !.confirmer = FALSE]
      tool == ResolveName(TheRegistry, call.name)
  IN CallOutcome(registry, call, child, input.mode, FALSE, "once") = "ran" =>
       /\ tool \in NormalizeNames(TheRegistry, input.visible) \ GlobalForbidden
       /\ input.layers # <<>> => tool \notin ToSet(Last(input.layers)[1].denied)
       /\ CallOutcome(TheRegistry, call, parent, input.mode, FALSE, "deny") = "ran"

ContextOfCaller(in) ==
  IF in.who.scope = "member" THEN MemberPermission(RulesInForce(in), in.who.role.requested)
                             ELSE RulesInForce(in)
OutcomeOf(in) == Outcome(ToolsAround(in), in.who, in.through, in.call, ContextOfCaller(in),
                         "default", "once")
DeniedBy(rules, call) == \E i \in DOMAIN rules : MatchRule(rules[i], call)
ChangesFiles(tool, call) == tool = "Write" \/ (tool = "Bash" /\ call.command.changes)

(* Every agent of a team keeps to its place.  A member never leads, starts   *)
(* agents or skills, or manages tasks, and no skill does it in its stead;    *)
(* beyond talking to the team it uses what its role leaves it, what no rule  *)
(* in force denies, and nothing with side effects before its last plan is    *)
(* allowed; one that is not strict can always ask for that.  No way leads a  *)
(* coordinator to an agent, and what it changes in files or branches it      *)
(* changes through an isolated skill, by an --abort, or by what its guard    *)
(* does not look at: an --output, a substitution.  Who has no team uses none *)
(* itself (teams/scoping.py:17-141, cli.py:225-248,334-352,                  *)
(* skills/runner.py:84-108).                                                 *)
TeamKeepsItsPlaces == topic = "team" =>
  LET who == input.who
      call == input.call
      denied == DeniedBy(RulesInForce(input).rules, call)
      tool == ResolveName(TheTeamRegistry, call.name)
      ran == OutcomeOf(input) = "ran" IN
  /\ ran /\ who.scope = "member" =>
       /\ input.through = "itself" /\ ~ Forbidden(call) /\ ~ denied
       /\ tool \notin {"Agent", "Skill", "Team", "TeamPlanDecision", "TeamIntegrate"}
       /\ tool = "TeamTask" => call.action \notin {"create", "delete", "assign", "wait"}
       /\ tool \in {"Write", "Bash"} /\ who.gated => Last(who.plans) = "allowed"
       /\ tool = "Find" => "Find" \notin who.role.denied
  /\ who.scope = "member" /\ input.through = "itself" /\ tool = "TeamPlanRequest" /\ ~ denied
     /\ who.role.requested # "strict" => ran
  /\ ran /\ who.coordinator =>
       /\ tool # "Agent"
       /\ ChangesFiles(tool, call) /\ input.through = "itself" =>
            tool = "Bash" /\ call.command.option \in {"abort", "output", "substitution"}
  /\ ran /\ who.scope = "main" /\ tool \in TeamTools \ {"Team"} => input.through = "skill"

(* Not so: a coordinator changes nothing but by TeamIntegrate and an --abort  *)
(* (teams/scoping.py:31-38 says that a change of branches goes by             *)
(* TeamIntegrate).                                                            *)
CoordinatorChangesNothing ==
  topic = "team" /\ input.who.coordinator /\ OutcomeOf(input) = "ran" =>
    ~ ChangesFiles(ResolveName(TheTeamRegistry, input.call.name), input.call)
    \/ input.call.command.abort

(* Not so: the lead's rules bind every member.  A member in a terminal knows  *)
(* only those of the files that are in its tree (cli.py:859-869); a member of *)
(* either kind is permissive under a strict lead (cli.py:247-248).            *)
LeadsRulesBind ==
  topic = "team" /\ input.who.scope = "member" /\ OutcomeOf(input) = "ran" =>
    Evaluate(input.call, TheTeamRegistry.tools[ResolveName(TheTeamRegistry, input.call.name)],
             input.lead, "once").allowed

(* A child run never starts with a call that nothing answers, nor with an    *)
(* answer to nothing, and it misses no more than it has to: a fork is given  *)
(* all that is finished, an isolated skill the end of it, with at least as   *)
(* many messages as its definition asks for when there are so many           *)
(* (subagents/history.py:8-40, skills/runner.py:169-203).                    *)
HistoriesArePaired == topic = "history" =>
  LET finished == FlattenSeq(input.finished)
      whole == finished \o input.pending
      chosen == SkillHistory(whole, input.asked)
      MinOf(a, b) == IF a < b THEN a ELSE b IN
  /\ ForkHistory(whole) = finished
  /\ Paired(chosen) /\ IsSuffix(chosen, finished)
  /\ Len(chosen) >= MinOf(input.asked, Len(finished))

(* A text that neither begins nor ends with a space, and has no break and no *)
(* '#' behind a double quote unless it is encoded.                           *)
PlainText(text) ==
  /\ text # <<>> => text[1] \notin Space /\ Last(text) \notin Space
  /\ Encoded(text) \/
       /\ "break" \notin ToSet(text)
       /\ \A i, j \in DOMAIN text : i < j => ~ (text[i] = "double" /\ text[j] = "#")

\* The call that is answered, the rules before it, and those after a restart.
AskedFor(in) == ToolCall("Write", in.target, "inside", Command(FALSE, <<>>))
RulesBefore(in) == LoadAll(in.user, in.project, in.local)
RulesAfter(in) == LoadAll(in.user, in.project, AppendRule(in.local, RuleFor(AskedFor(in))))
AtStart(loaded, asks) ==
  [mode |-> loaded.mode, rules |-> loaded.rules, sessionRules |-> <<>>, confirmer |-> asks]
AlwaysIsAnswered(in) ==
  /\ ~ RulesBefore(in).refused
  /\ Evaluate(AskedFor(in), TheRegistry.tools["Write"], AtStart(RulesBefore(in), TRUE),
              "always").source = "confirmation"
InForceAfter(in) ==
  /\ ~ RulesAfter(in).refused
  /\ Evaluate(AskedFor(in), TheRegistry.tools["Write"], AtStart(RulesAfter(in), FALSE),
              "deny").allowed

(* The answer "always" is still in force after a restart: the file it was   *)
(* appended to is read again and allows the call by a rule.  For that the    *)
(* target must be a plain text (a padded one is stripped, a '#' behind a     *)
(* double quote cuts the line), and where the file mentions its rules, if    *)
(* only in a comment, their map must be the last one in it                   *)
(* (permissions/config.py:50-59,90-129, permissions/rules.py:8-17).          *)
AlwaysSurvivesRestart ==
  /\ topic = "files" /\ AlwaysIsAnswered(input) /\ PlainText(input.target)
  /\ MentionsRules(input.local) => ReadFile(input.local).open = "rules"
  => InForceAfter(input)

(* Not so: it survives whatever the target and the file                      *)
(* (permissions/config.py:50-59 writes each answer "always" for later).      *)
AlwaysIsNeverLost == topic = "files" /\ AlwaysIsAnswered(input) => InForceAfter(input)
=============================================================================
