----------------------------- MODULE ToolAccess -----------------------------
(* Which tools an agent sees and which of its calls run: the registry        *)
(* (tools/registry.py), the selection and the denials of the agent loop      *)
(* (agent.py), the executor (tools/executor.py), and what a subagent is left *)
(* with (subagents/filtering.py, subagents/catalog.py, subagents/parser.py). *)
(*                                                                           *)
(* A registry is the record of its tools (a function from names to the       *)
(* records of the tools), its aliases and the names of its system tools.     *)
EXTENDS Permissions

None == "none"
NoDefinition == [permission |-> "none"]
GlobalForbidden == {"Agent", "Skill", "Team", "TeamTask", "TeamMessage",
                    "TeamPlanRequest", "TeamPlanDecision", "TeamIntegrate"}
ReadOnlyNames == {"Read", "Find", "Search", "Glob"}

-----------------------------------------------------------------------------
(* ToolRegistry *)

ToolNames(registry) == DOMAIN registry.tools
ResolveName(registry, name) ==
  IF name \in ToolNames(registry) THEN name ELSE
  IF name \in DOMAIN registry.aliases /\ registry.aliases[name] \in ToolNames(registry)
  THEN registry.aliases[name] ELSE None
NormalizeNames(registry, names) ==
  {ResolveName(registry, name) : name \in names} \ {None}
MissingNames(registry, names) == {n \in names : ResolveName(registry, n) = None}

\* register: a tool of the same name is replaced, and its standing with it.
Register(registry, name, tool, system) ==
  [registry EXCEPT
     !.tools = [n \in ToolNames(registry) \cup {name} |->
                  IF n = name THEN tool ELSE registry.tools[n]],
     !.system = IF system THEN @ \cup {name} ELSE @ \ {name}]

\* clone(only=...), clone(exclude=...): an alias comes along with its target.
CloneRegistry(registry, names) == LET kept == ToolNames(registry) \cap names IN
  [tools |-> [n \in kept |-> registry.tools[n]],
   aliases |-> [a \in {b \in DOMAIN registry.aliases : registry.aliases[b] \in kept} |->
                  registry.aliases[a]],
   system |-> registry.system \cap kept]

\* select_tools and to_specs: what the model is offered; active skills narrow
\* it (skillAllowed is empty or holds the one set they allow), the system
\* tools are always there.
Selected(registry, mode, skillAllowed) ==
  LET base == IF mode = "plan" THEN ReadOnlyNames \ MissingNames(registry, ReadOnlyNames)
                               ELSE ToolNames(registry) \ registry.system
      narrowed == {n \in base : \A names \in skillAllowed : n \in names} IN
  NormalizeNames(registry, narrowed) \cup registry.system

-----------------------------------------------------------------------------
(* One call: hooks, then plan mode, then the registry and the permission     *)

PlanDenies(registry, call, mode) == LET name == ResolveName(registry, call.name) IN
  /\ mode = "plan" /\ name # None /\ name \notin registry.system
  /\ {call.name, name} \cap ReadOnlyNames = {}

\* execute_tool_call: a system tool asks for no permission.
Execute(registry, call, context, answer) ==
  LET name == ResolveName(registry, call.name) IN
  IF name = None THEN "unknown_tool" ELSE
  IF ~ call.isObject THEN "invalid_arguments" ELSE
  IF name \in registry.system \/ Evaluate(call, registry.tools[name], context, answer).allowed
  THEN "ran" ELSE "permission_denied"

CallOutcome(registry, call, context, mode, hookDenies, answer) ==
  IF hookDenies THEN "hook_denied" ELSE
  IF PlanDenies(registry, call, mode) THEN "plan_denied"
  ELSE Execute(registry, call, context, answer)

-----------------------------------------------------------------------------
(* Subagents *)

AllButForbidden(registry, visible) ==
  NormalizeNames(registry, visible) \ NormalizeNames(registry, GlobalForbidden)

\* resolve_subagent_tool_names; a fork has no definition.  It is asked
\* again at every use: a task may have gone to the background meanwhile.
SubagentTools(registry, visible, definition, background, backgroundAllowed, mode) ==
  {name \in AllButForbidden(registry, visible) :
    /\ definition # NoDefinition =>
         /\ name \in NormalizeNames(registry, ToSet(definition.allowed))
         /\ name \notin NormalizeNames(registry, ToSet(definition.denied))
    /\ background => name \in NormalizeNames(registry, backgroundAllowed)
    /\ mode = "plan" => name \in NormalizeNames(registry, ReadOnlyNames)}

\* TaskAwareToolRegistry
ChildRegistry(registry, names) == CloneRegistry(registry, names)

\* parse_agent_file: what makes a definition invalid; an invalid one stops the
\* program, a file that is none (no frontmatter) is passed over.
DefinitionValid(d) ==
  /\ d.unknownFields = {} /\ d.model \in {"inherit", "haiku", "sonnet", "opus"}
  /\ d.iterations \in 1 .. 50 /\ d.permission \in Modes
  /\ d.isolation \in {"shared", "worktree"} /\ d.named /\ d.body
  /\ IsInjective(d.allowed) /\ IsInjective(d.denied)

ReadableIn(layer) == {i \in DOMAIN layer : layer[i].readable}

\* discover_agent_layer: one layer has each name once.
LayerAccepted(layer) ==
  /\ \A i \in ReadableIn(layer) : DefinitionValid(layer[i])
  /\ \A i, j \in ReadableIn(layer) : layer[i].name = layer[j].name => i = j
LayerFunction(layer) == LET read == ReadableIn(layer) IN
  [n \in {layer[i].name : i \in read} |-> layer[CHOOSE i \in read : layer[i].name = n]]

\* AgentCatalog.initialize: plugin, builtin, user, project, the later one wins;
\* unknown tools, forbidden tools and models without an alias stop the program.
MergeLayers(layers) ==
  LET read == [i \in DOMAIN layers |-> LayerFunction(layers[i])]
      Having(name) == {i \in DOMAIN layers : name \in DOMAIN read[i]} IN
  [name \in UNION {DOMAIN read[i] : i \in DOMAIN layers} |->
     read[CHOOSE i \in Having(name) : \A j \in Having(name) : j <= i][name]]
CatalogAccepted(layers, registry, backgroundAllowed, aliases) ==
  LET merged == MergeLayers(layers)
      Named(d) == ToSet(d.allowed) \cup ToSet(d.denied) IN
  /\ \A i \in DOMAIN layers : LayerAccepted(layers[i])
  /\ MissingNames(registry, backgroundAllowed) = {}
  /\ \A n \in DOMAIN merged :
       /\ MissingNames(registry, Named(merged[n])) = {}
       /\ NormalizeNames(registry, Named(merged[n])) \cap {"Agent", "Skill"} = {}
       /\ merged[n].model \in aliases \cup {"inherit"}
=============================================================================
