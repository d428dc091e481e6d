---------------------------- MODULE Permissions ----------------------------
(* Permission to run a tool call (huicode/permissions): the decision, what a *)
(* confirmation leaves behind, what a child agent inherits, and the file in  *)
(* which rules persist.                                                      *)
(*                                                                           *)
(* A call is the record of its tool's name, its target, where its path lies  *)
(* ("inside", "outside", "state" for HuiCode's own files, "none"), whether   *)
(* its arguments are an object, and, for Bash, its command.  A target and a  *)
(* pattern are texts: sequences of characters, of which the file of the      *)
(* rules treats some in a way of its own.                                    *)
EXTENDS Naturals, Sequences, SequencesExt

Modes == {"permissive", "default", "strict"}
Answers == {"deny", "once", "session", "always"}
NoContext == [mode |-> "none"]   \* context.permissions is None
Star == <<"*">>                  \* the glob that every target matches

-----------------------------------------------------------------------------
(* Rules *)

\* canonical_tool_name
Canonical(name) == IF name = "Glob" THEN "Find" ELSE name

\* match_rule
MatchRule(rule, call) == /\ Canonical(rule.tool) = Canonical(call.name)
                         /\ rule.pattern \in {call.target, Star}

\* Where the rules that match stand; the first of them decides.
Matching(rules, call) == {i \in DOMAIN rules : MatchRule(rules[i], call)}
First(places) == CHOOSE i \in places : \A j \in places : i <= j

\* check_dangerous_command and _is_read_only_shell_command: every part of the
\* pipe reads only, nothing is redirected or chained, no path leads out.
Dangerous(call) == call.name = "Bash" /\ call.command.dangerous
ReadOnlyPart(part) == part \in {"reader", "git_status"}
ReadOnlyShell(call) == call.name = "Bash" /\ LET command == call.command IN
  /\ command.parts # <<>> /\ ~ command.chained /\ ~ command.leavesWorkspace
  /\ \A i \in DOMAIN command.parts : ReadOnlyPart(command.parts[i])

-----------------------------------------------------------------------------
(* evaluate_permission *)

HasPath(call) == Canonical(call.name) \in {"Read", "Write", "Edit", "Find", "Search"}
LeavesSandbox(call) == HasPath(call) /\ call.place = "outside"

\* _check_internal_state_write: HuiCode's own files are written by no tool, and
\* named in no command that does more than read.
WritesState(call) ==
  \/ call.name \in {"Write", "Edit"} /\ call.place = "state"
  \/ call.name = "Bash" /\ call.place = "state" /\ ~ ReadOnlyShell(call)

Risk(call, tool) ==
  IF ~ ReadOnlyShell(call) /\ ~ tool.exempt /\ tool.sideEffect THEN "medium" ELSE "low"

Decision(allowed, source) == [allowed |-> allowed, source |-> source]
Forbidden(call) == Dangerous(call) \/ LeavesSandbox(call) \/ WritesState(call)

\* Mutant: the rules are asked first.
RulesFirst(call, context) == Matching(context.sessionRules \o context.rules, call) = {}

\* What no rule, mode or answer can allow comes before the rules.
LimitsFirst(call, context) == TRUE

Evaluate(call, tool, context, answer) ==
  LET rules == context.sessionRules \o context.rules
      matching == Matching(rules, call) IN
  IF context = NoContext THEN Decision(TRUE, "disabled") ELSE
  IF Forbidden(call) /\ LimitsFirst(call, context) THEN Decision(FALSE, "limit") ELSE
  IF matching # {} THEN Decision(rules[First(matching)].action = "allow", "rule") ELSE
  IF context.mode # "default" THEN Decision(context.mode = "permissive", "mode") ELSE
  IF Risk(call, tool) = "low" THEN Decision(TRUE, "mode")
  ELSE Decision(context.confirmer /\ answer # "deny", "confirmation")

\* _decision_from_confirmation: the rule an answer leaves; it comes first.
RuleFor(call) == [tool |-> call.name, action |-> "allow",
                  pattern |-> IF call.target = <<>> THEN Star ELSE call.target]
Confirmed(call, context, answer) ==
  IF answer \in {"session", "always"}
  THEN [context EXCEPT !.sessionRules = <<RuleFor(call)>> \o @] ELSE context

-----------------------------------------------------------------------------
(* clone_permission_context *)

Strictness == [permissive |-> 0, default |-> 1, strict |-> 2]

\* Mutant: the child's own wish decides.
RequestedMode(mode, requested) == requested

StricterMode(mode, requested) ==
  IF Strictness[mode] >= Strictness[requested] THEN mode ELSE requested

\* requested is a mode or "none"; the child has nobody to ask.
Clone(parent, requested) ==
  [mode |-> IF requested = "none" THEN (IF parent = NoContext THEN "default" ELSE parent.mode)
            ELSE IF parent = NoContext THEN requested
            ELSE StricterMode(parent.mode, requested),
   rules |-> IF parent = NoContext THEN <<>> ELSE parent.rules,
   sessionRules |-> IF parent = NoContext THEN <<>> ELSE parent.sessionRules,
   confirmer |-> FALSE]

-----------------------------------------------------------------------------
(* The text of a rule in a file.  It stands between single quotes, in which   *)
(* a single quote is written twice; a text with a newline is encoded as a     *)
(* whole.  A break is one of the other characters that end a line.            *)

Space == {" ", "newline", "break"}
Quotes == {"single", "double"}
Encoded(text) == "newline" \in ToSet(text)

Toggle(quote, char) == IF quote = char THEN "none" ELSE char
AfterChar(quote, char) ==
  IF char = "single" THEN Toggle(Toggle(quote, char), char) ELSE
  IF char = "double" THEN Toggle(quote, char) ELSE quote

\* _strip_comment: the quote it takes itself to be in, after i characters.
QuoteAfter(text) ==
  LET quote[i \in 0 .. Len(text)] ==
        IF i = 0 THEN "single" ELSE AfterChar(quote[i - 1], text[i])
  IN quote
CutAsComment(text) == \E i \in DOMAIN text : text[i] = "#" /\ QuoteAfter(text)[i - 1] = "none"

\* A line that is cut or broken is no rule any more: the file is refused, but
\* for a text that imitates the end of a rule.
LineStands(text) == Encoded(text) \/ ("break" \notin ToSet(text) /\ ~ CutAsComment(text))

\* parse_rule_key
Stripped(text) ==
  LET inked == {i \in DOMAIN text : text[i] \notin Space} IN
  IF inked = {} THEN <<>>
  ELSE SubSeq(text, First(inked), CHOOSE i \in inked : \A j \in inked : j <= i)
Parsed(rule) == [rule EXCEPT !.pattern = Stripped(@)]

\* What is read is what was written.
Survives(text) == LineStands(text) /\ Stripped(text) = text /\ text # <<>>

-----------------------------------------------------------------------------
(* The files.  A line is a mode, the header of the rules, a comment that      *)
(* mentions the header, the header of another map, or a rule.                 *)

ModeLine(mode) == [kind |-> "mode", mode |-> mode]
Header == [kind |-> "header"]
Comment == [kind |-> "comment"]
OtherMap == [kind |-> "other"]
RuleLine(rule) == [kind |-> "rule", rule |-> rule]

SameKey(r, rule) == r.tool = rule.tool /\ r.pattern = rule.pattern
PutRule(rules, rule) ==
  IF \E i \in DOMAIN rules : SameKey(rules[i], rule)
  THEN [i \in DOMAIN rules |-> IF SameKey(rules[i], rule) THEN rule ELSE rules[i]]
  ELSE Append(rules, rule)

\* _parse_permission_yaml: a rule belongs to the map above it; a second header
\* starts the rules anew, and a mode ends them.
ReadRule(file, rule) ==
  IF file.open = "none" \/ ~ LineStands(rule.pattern) THEN [file EXCEPT !.refused = TRUE] ELSE
  IF file.open = "rules" THEN [file EXCEPT !.rules = PutRule(@, rule)] ELSE file
ReadLine(file, line) ==
  CASE line.kind = "mode"   -> [file EXCEPT !.mode = line.mode, !.open = "none"]
    [] line.kind = "header" -> [file EXCEPT !.open = "rules", !.rules = <<>>]
    [] line.kind = "other"  -> [file EXCEPT !.open = "other"]
    [] line.kind = "rule"   -> ReadRule(file, line.rule)
    [] OTHER                -> file
Empty == [mode |-> "default", rules |-> <<>>, open |-> "none", refused |-> FALSE]
ReadFile(lines) ==
  LET file[i \in 0 .. Len(lines)] ==
        IF i = 0 THEN Empty ELSE ReadLine(file[i - 1], lines[i])
  IN file[Len(lines)]

\* _load_one: a rule without a pattern is refused.
Load(lines) == LET file == ReadFile(lines) IN
  [mode |-> file.mode,
   rules |-> [i \in DOMAIN file.rules |-> Parsed(file.rules[i])],
   refused |-> file.refused
               \/ \E i \in DOMAIN file.rules : Stripped(file.rules[i].pattern) = <<>>]

\* Mutant: the rule is written without a map above it.
AppendBare(lines, rule) == Append(lines, RuleLine(rule))

\* append_persistent_rule: at the end of the file, wherever the rules are; a
\* comment that mentions their header passes for it.
MentionsRules(lines) == \E i \in DOMAIN lines : lines[i] \in {Header, Comment}
AppendRule(lines, rule) ==
  LET headed == IF lines = <<>> THEN <<ModeLine("default"), Header>>
                ELSE IF MentionsRules(lines) THEN lines
                ELSE Append(lines, Header) IN
  Append(headed, RuleLine(rule))

\* load_permission_config: the last mode that is not the default one, and the
\* rules of the nearest file first.
LoadAll(user, project, local) ==
  LET far == Load(user)
      middle == Load(project)
      near == Load(local) IN
  [refused |-> far.refused \/ middle.refused \/ near.refused,
   mode |-> IF near.mode # "default" THEN near.mode
            ELSE IF middle.mode # "default" THEN middle.mode ELSE far.mode,
   rules |-> near.rules \o middle.rules \o far.rules]
=============================================================================
