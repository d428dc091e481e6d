----------------------------- MODULE MCServices -----------------------------
(* The services around the agents.  They share no state, so a behaviour is   *)
(* one of a single service, chosen at the start; the others stay as they     *)
(* begin.                                                                    *)
EXTENDS HookManager, McpClient, ContextManager, Worktrees, Skills, Notes, FileTools

VARIABLE service

Rule(id, event, action, once, async) ==
  [id |-> id, event |-> event, condition |-> <<>>, once |-> once, async |-> async,
   action |-> [type |-> action, text |-> Text({}, {}), low |-> 200, high |-> 299],
   enabled |-> TRUE, timeout |-> 30]
TheRules == <<Rule("warn", "turn_start", "command", TRUE, TRUE),
              Rule("guard", Guarding, "command", FALSE, FALSE),
              Rule("ask", Guarding, "http", TRUE, FALSE),
              Rule("report", "session_end", "command", FALSE, TRUE)>>
TheServers == <<"first", "second">>
TheHistories == {<<>>,
  <<Message("user", 1, 0, 1), Message("assistant", 2, 2, 1),
    Message("tool", 2, 0, 5), Message("tool", 2, 0, 4)>>}

Skill(name, mode, allowed, model) ==
  [name |-> name, mode |-> mode, tools |-> allowed, model |-> model]
Fix == Skill("fix", "shared", {"Glob", "Write"}, "m")
Plan == Skill("plan", "shared", {"Find"}, NoModel)
TheTexts == {Fix, Plan, Unreadable, Skill("fix", "isolated", {"Find", "Write"}, NoModel),
             Skill("help", "shared", {}, NoModel), Skill("plan", "shared", {"Typo"}, NoModel)}
ThePlaces == {<<"user", "a">>, <<"project", "a">>, <<"project", "b">>}
TheSources == <<"builtin", "user", "project">>
TheTools == [name \in {"Find", "Glob", "Write"} |-> IF name = "Glob" THEN "Find" ELSE name]
TheFiles == {[p \in ThePlaces |-> CASE p = <<"user", "a">> -> [text |-> Fix, stamp |-> 0]
                                    [] p = <<"project", "a">> -> [text |-> Plan, stamp |-> 0]
                                    [] OTHER -> NoFile]}

vars == <<service, hooksVars, mcpVars, contextVars, treeVars, skillVars, noteVars, fileVars>>

Init ==
  /\ service \in {"hooks", "mcp", "context", "trees", "skills", "notes", "files"}
  /\ HooksInit /\ McpInit /\ ContextInit /\ TreesInit /\ SkillsInit /\ NotesInit /\ FilesInit
  /\ service # "context" => history = <<>>

Others(its) ==
  /\ service = its
  /\ its # "hooks" => UNCHANGED hooksVars
  /\ its # "mcp" => UNCHANGED mcpVars
  /\ its # "context" => UNCHANGED contextVars
  /\ its # "trees" => UNCHANGED treeVars
  /\ its # "skills" => UNCHANGED skillVars
  /\ its # "notes" => UNCHANGED noteVars
  /\ its # "files" => UNCHANGED fileVars

Next ==
  /\ UNCHANGED service
  /\ \/ Others("hooks") /\ HooksNext
     \/ Others("mcp") /\ McpNext
     \/ Others("context") /\ ContextNext
     \/ Others("trees") /\ TreesNext
     \/ Others("skills") /\ SkillsNext
     \/ Others("notes") /\ NotesNext
     \/ Others("files") /\ FilesNext

Spec == Init /\ [][Next]_vars /\ HooksFairness
=============================================================================
