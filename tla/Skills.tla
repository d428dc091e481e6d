------------------------------- MODULE Skills -------------------------------
(* Skills (huicode/skills, with the main loop of cli.py and the commands it  *)
(* rebuilds): definitions are read from the user's and the project's files,  *)
(* merged into a catalog, reloaded before each input when a fingerprint      *)
(* changed, and activated or run by a command or by the model's Skill tool.  *)
(* The files change at any time, also while a reload is reading them.        *)
(*                                                                           *)
(* Left out: the bodies' text (a file's stamp stands for it), the order of   *)
(* active skills (the prompt's), the history a run is given (SafeHistory),   *)
(* counters, warnings, the generation number.                                *)
EXTENDS Naturals, FiniteSets, FiniteSetsExt, SequencesExt

CONSTANTS
  Sources,        \* the layers, in the order they are merged
  Places,         \* the files there may be: <<source, entry>>
  SkillTexts,     \* what may be written into one, definitions and others
  Reserved,       \* names of the core commands and their aliases
  ToolOf,        \* the tool registry: the tool a name stands for
  StartFiles,     \* the files the program may find when it starts
  MaxDepth,       \* 3: how deep isolated runs nest
  MaxEdits,       \* bound: edits of a behaviour
  MaxSkillCalls   \* bound: calls of the Skill tool in a turn

NoModel == "none"
NoSkillText == [name |-> "no file", mode |-> "none", tools |-> {}, model |-> NoModel]
Unreadable == [NoSkillText EXCEPT !.name = "unreadable"]
NoFile == [text |-> NoSkillText, stamp |-> 0]

ASSUME SkillsAssumption ==
  /\ Sources \in Seq(ToSet(Sources)) /\ Sources # <<>>
  /\ MaxDepth \in Nat /\ MaxEdits \in Nat
  /\ \A text \in SkillTexts : text = [name |-> text.name, mode |-> text.mode,
                                    tools |-> text.tools, model |-> text.model]
  /\ StartFiles \subseteq [Places -> [text : SkillTexts, stamp : {0}] \cup {NoFile}]

VARIABLES
  files,      \* per place: NoFile or its text and stamp (modification time)
  snapshot,   \* definitions by name, and the fingerprint taken with them
  commands,   \* the commands registered for skills
  at,         \* where the main loop is
  reload,     \* the build under way: sources left, merged, fingerprint
  runStack,   \* the runtime state of each run, the main session's first
  edits, skillCalls,
  seen,       \* history: the files when the last check for changes began
  overtaken   \* history: a file has changed while a reload was reading

skillVars == <<files, snapshot, commands, at, reload, runStack, edits, skillCalls, seen, overtaken>>

-----------------------------------------------------------------------------
(* Discovery and the merge *)

In(source) == {p \in Places : p[1] = source}

\* Entries of one source that parse and give the name.
Named(now, source, name) ==
  {p \in In(source) : now[p] # NoFile /\ now[p].text # Unreadable /\ now[p].text.name = name}

SkillNames(now, source) ==
  {now[p].text.name : p \in {q \in In(source) : now[q] # NoFile /\ now[q].text # Unreadable}}

\* discover_skill_layer: a name two entries of a source give is skipped.
Discover(now, source) ==
  [name \in {n \in SkillNames(now, source) : Cardinality(Named(now, source, n)) = 1} |->
     LET p == CHOOSE q \in Named(now, source, name) : TRUE
     IN [text |-> now[p].text, body |-> now[p].stamp]]

Fingerprint(now, source) == {<<p, now[p].stamp>> : p \in {q \in In(source) : now[q] # NoFile}}

MergeOver(merged, layer) == [name \in DOMAIN layer \cup DOMAIN merged |->
                               IF name \in DOMAIN layer THEN layer[name] ELSE merged[name]]
NoSkills == [name \in {} |-> NoFile]

\* build: the whole catalog is refused for one bad name or tool.
Valid(merged) ==
  \A name \in DOMAIN merged :
    name \notin Reserved /\ merged[name].text.tools \subseteq DOMAIN ToolOf

Normalize(merged) ==
  [name \in DOMAIN merged |->
     [text |-> [merged[name].text EXCEPT !.tools = {ToolOf[tool] : tool \in @}],
      body |-> merged[name].body]]

WholeFingerprint(now) == UNION {Fingerprint(now, source) : source \in ToSet(Sources)}

\* The first n sources merged: the last one that has a name gives it.
MergedUpTo(now, n) ==
  LET Givers(name) == {k \in 1 .. n : name \in DOMAIN Discover(now, Sources[k])}
  IN  [name \in UNION {DOMAIN Discover(now, Sources[k]) : k \in 1 .. n} |->
         Discover(now, Sources[Max(Givers(name))])[name]]
MergedFiles(now) == MergedUpTo(now, Len(Sources))

-----------------------------------------------------------------------------
(* The runtime state of a run *)

Run(active, model, depth) == [active |-> active, model |-> model, depth |-> depth]
Shared(definition) == definition.text.mode = "shared"
Top == Last(runStack)

SkillsTypeOK ==
  /\ files \in [Places -> [text : SkillTexts \cup {NoSkillText}, stamp : 0 .. MaxEdits]]
  /\ at \in {"input", "parse", "stamp", "install", "route", "turn", "alone"}
  /\ Len(runStack) \in 1 .. MaxDepth + 1

SkillsInit ==
  /\ files \in StartFiles /\ Valid(MergedFiles(files))
  /\ snapshot = [definitions |-> Normalize(MergedFiles(files)),
                 fingerprint |-> WholeFingerprint(files)]
  /\ commands = DOMAIN snapshot.definitions
  /\ at = "input" /\ reload = [left |-> <<>>, merged |-> NoSkills, fingerprint |-> {}]
  /\ runStack = <<Run({}, NoModel, 0)>>
  /\ edits = 0 /\ skillCalls = 0 /\ seen = files /\ overtaken = FALSE

\* active_allowed_tools with select_tools: the tools a run's model is shown.
Shown(run) ==
  {tool \in {ToolOf[name] : name \in DOMAIN ToolOf} :
     \A definition \in run.active : tool \in definition.text.tools}

\* Mutant: an activated skill takes the place of the others.
ActivatedAlone(run, definition) == [run EXCEPT !.active = {definition}]

\* activate_shared: it replaces a skill of its name.
Activated(run, definition) ==
  Run({d \in run.active : d.text.name # definition.text.name} \cup {definition},
      IF definition.text.model = NoModel THEN run.model ELSE definition.text.model, run.depth)

StillShared(definitions, name) == name \in DOMAIN definitions /\ Shared(definitions[name])

\* Mutant: a definition that is gone stays active.
RefreshedKept(run, definitions) == run

\* _refresh_active
Refreshed(run, definitions) ==
  LET kept == {d \in run.active : StillShared(definitions, d.text.name)}
      active == {definitions[d.text.name] : d \in kept}
  IN Run(active, IF \E d \in active : d.text.model = run.model THEN run.model ELSE NoModel,
         run.depth)

-----------------------------------------------------------------------------
(* The main loop: check for changes, reload, route the input *)

NotReloading == UNCHANGED <<files, snapshot, commands, reload, edits, seen, overtaken>>

CheckFiles ==
  /\ at = "input"
  /\ seen' = files /\ skillCalls' = 0
  /\ IF WholeFingerprint(files) = snapshot.fingerprint
     THEN at' = "route" /\ UNCHANGED reload
     ELSE /\ at' = "parse"
          /\ reload' = [left |-> Sources, merged |-> NoSkills, fingerprint |-> {}]
  /\ UNCHANGED <<files, snapshot, commands, runStack, edits, overtaken>>

\* A source's entries are read first ...
ParseSource ==
  /\ at = "parse"
  /\ reload' = [reload EXCEPT !.merged = MergeOver(@, Discover(files, Head(reload.left)))]
  /\ at' = "stamp"
  /\ UNCHANGED <<files, snapshot, commands, runStack, edits, skillCalls, seen, overtaken>>

\* ... and their fingerprint is taken after.
StampSource ==
  /\ at = "stamp"
  /\ reload' = [reload EXCEPT !.fingerprint = @ \cup Fingerprint(files, Head(reload.left)),
                              !.left = Tail(@)]
  /\ at' = IF Len(reload.left) = 1 THEN "install" ELSE "parse"
  /\ UNCHANGED <<files, snapshot, commands, runStack, edits, skillCalls, seen, overtaken>>

\* reload_if_changed to its end, and the commands rebuilt from the snapshot.
Install ==
  /\ at = "install" /\ at' = "route"
  /\ IF Valid(reload.merged)
     THEN LET definitions == Normalize(reload.merged) IN
          /\ snapshot' = [definitions |-> definitions, fingerprint |-> reload.fingerprint]
          /\ commands' = DOMAIN definitions
          /\ runStack' = <<Refreshed(runStack[1], definitions)>>
     ELSE UNCHANGED <<snapshot, commands, runStack>>
  /\ UNCHANGED <<files, reload, edits, skillCalls, seen, overtaken>>

RouteMessage ==
  /\ at = "route" /\ at' = "turn"
  /\ NotReloading /\ UNCHANGED <<runStack, skillCalls>>

\* /clear
RouteClear ==
  /\ at = "route" /\ at' = "input"
  /\ runStack' = <<Run({}, NoModel, 0)>>
  /\ NotReloading /\ UNCHANGED skillCalls

\* SkillRunner.run: the child's state has the skill as its only active one, and
\* its registry is a copy of the main one, whatever its caller's skills allow.
ChildRun(definition) == Run({definition}, NoModel, Top.depth + 1)

\* A skill's command: a shared one is activated for the turn that follows,
\* an isolated one runs alone.
RouteSkill(name) ==
  /\ at = "route" /\ name \in commands
  /\ LET definition == snapshot.definitions[name] IN
     IF Shared(definition)
     THEN at' = "turn" /\ runStack' = <<Activated(Top, definition)>>
     ELSE at' = "alone" /\ runStack' = Append(runStack, ChildRun(definition))
  /\ NotReloading /\ UNCHANGED skillCalls

-----------------------------------------------------------------------------
(* A turn, or an isolated run alone *)

InARun == at \in {"turn", "alone"}

\* SkillTool.run, by the run on top: its caller waits for an isolated one.
CallSkill(name) ==
  /\ InARun /\ name \in DOMAIN snapshot.definitions
  /\ skillCalls < MaxSkillCalls /\ skillCalls' = skillCalls + 1
  /\ LET definition == snapshot.definitions[name] IN
     \/ /\ Shared(definition)
        /\ runStack' = [runStack EXCEPT ![Len(runStack)] = Activated(@, definition)]
     \/ /\ ~ Shared(definition) /\ Top.depth < MaxDepth
        /\ runStack' = Append(runStack, ChildRun(definition))
  /\ NotReloading /\ UNCHANGED at

\* A nested run ends, and its caller goes on.
RunEnds ==
  /\ InARun /\ Len(runStack) > 1
  /\ runStack' = Front(runStack)
  /\ at' = IF at = "alone" /\ Len(runStack) = 2 THEN "input" ELSE at
  /\ NotReloading /\ UNCHANGED skillCalls

\* run_agent_loop's finally
SkillTurnEnds ==
  /\ at = "turn" /\ Len(runStack) = 1 /\ at' = "input"
  /\ runStack' = [runStack EXCEPT ![1].model = NoModel]
  /\ NotReloading /\ UNCHANGED skillCalls

-----------------------------------------------------------------------------
\* Anybody, the agent included, writes or removes a file.
EditFile(p, text) ==
  /\ edits < MaxEdits /\ edits' = edits + 1
  /\ files' = [files EXCEPT ![p] = IF text = NoSkillText THEN NoFile
                                   ELSE [text |-> text, stamp |-> edits + 1]]
  /\ overtaken' = (overtaken \/ at \in {"parse", "stamp"})
  /\ UNCHANGED <<snapshot, commands, at, reload, runStack, skillCalls, seen>>

SkillsNext ==
  \/ CheckFiles \/ ParseSource \/ StampSource \/ Install
  \/ RouteMessage \/ RouteClear \/ (\E name \in commands : RouteSkill(name))
  \/ (\E name \in DOMAIN snapshot.definitions : CallSkill(name)) \/ RunEnds \/ SkillTurnEnds
  \/ \E p \in Places, text \in SkillTexts \cup {NoSkillText} : EditFile(p, text)

SkillsSpec == SkillsInit /\ [][SkillsNext]_skillVars

-----------------------------------------------------------------------------
(* Whatever was edited, refused or taken back between two inputs: when an   *)
(* input is routed, and during its turn, the catalog and the commands are   *)
(* those of the files as they were when the check began (if those are       *)
(* acceptable), and no run follows a definition that is not in it           *)
(* (skills/manager.py:83-127, catalog.py:28-76, cli.py:520-535).  Only a    *)
(* file changed while a reload was reading is excepted: the fingerprint is  *)
(* taken after the text, and a text read too early stays for good.          *)
SkillsAreCurrent ==
  ~ overtaken /\ at \in {"route", "turn", "alone"} /\ Valid(MergedFiles(seen)) =>
    /\ snapshot.definitions = Normalize(MergedFiles(seen))
    /\ commands = DOMAIN snapshot.definitions
    /\ \A r \in DOMAIN runStack : \A definition \in runStack[r].active :
         /\ definition.text.name \in DOMAIN snapshot.definitions
         /\ definition = snapshot.definitions[definition.text.name]

(* During a turn no skill gives a run a tool the same run did not have: what *)
(* its skills allow together only shrinks, and a run that begins for an      *)
(* isolated skill has no tool that skill does not list (skills/manager.py:   *)
(* 74-81, runner.py:69-108, agent.py:501-516).                               *)
Shrinks == \A r \in DOMAIN runStack \cap DOMAIN runStack' :
             Shown(runStack'[r]) \subseteq Shown(runStack[r])
ShowsWhatIsListed ==
  \A r \in DOMAIN runStack' \ DOMAIN runStack : \E name \in DOMAIN snapshot.definitions :
    /\ ~ Shared(snapshot.definitions[name])
    /\ Shown(runStack'[r]) \subseteq snapshot.definitions[name].text.tools
SkillsOnlyNarrow ==
  [][InARun' => (InARun => Shrinks) /\ ShowsWhatIsListed]_skillVars

(* Not so: a run is shown no more than its caller.  The child's registry is  *)
(* a copy of the whole one (runner.py:79, cli.py:336-348) and only its own   *)
(* skill narrows it: an isolated skill that lists a tool is a way around the *)
(* caller's skills that do not.                                              *)
ChildrenOnlyNarrow ==
  \A r \in 2 .. Len(runStack) : Shown(runStack[r]) \subseteq Shown(runStack[r - 1])

(* Not so: a reload that finds an active skill removed takes its limit away  *)
(* with it, and the next turn is shown every tool.                           *)
ReloadsOnlyNarrow ==
  [][at = "install" => Shown(runStack'[1]) \subseteq Shown(runStack[1])]_skillVars
=============================================================================
