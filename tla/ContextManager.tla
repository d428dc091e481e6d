--------------------------- MODULE ContextManager ---------------------------
(* Context compression (huicode/context) between the requests of the main    *)
(* agent (huicode/agent.py): large tool results are put on disk as they      *)
(* arrive, groups of results before each request, and when the request nears *)
(* the window the older messages are replaced by a summary that a provider   *)
(* writes, until too many summaries have failed.  A turn that ends in an     *)
(* error is followed by the taking back of its user message (huicode/cli.py).*)
(*                                                                           *)
(* Sizes are in tokens: the estimate of four characters to a token is not    *)
(* modelled.  Left out: the previews' and the summary's text, the reports; a *)
(* result that cannot be put on disk as it arrives, which breaks off the     *)
(* turn between its results (AgentSession).                                  *)
EXTENDS Naturals, Sequences, FiniteSets, FiniteSetsExt, SequencesExt

CONSTANTS
  Size,          \* sizes of what users, models and tools say
  SingleLimit,   \* single_tool_result_tokens
  GroupLimit,    \* tool_result_group_tokens
  PreviewSize,   \* what a result weighs that is on disk
  SummarySize,   \* what summary and boundary weigh together
  PromptSize,    \* the system prompt and the tools
  AutoLimit,     \* window_tokens - auto_margin_tokens
  MinRecent,     \* min_recent_messages
  RecentKeep,    \* recent_keep_tokens
  MaxFailures,   \* max_summary_failures
  RestoredHistories,  \* histories a session can begin with
  MaxMessages,   \* bound: messages of a behaviour
  MaxResults,    \* bound: results of one message
  MaxTries       \* bound: failed summaries in a row

Message(role, id, calls, size) ==
  [role |-> role, id |-> id, calls |-> calls, size |-> size, spilled |-> FALSE]
Messages == [role : {"user", "assistant", "tool"}, id : Nat, calls : Nat, size : Nat,
             spilled : BOOLEAN]
HasCalls(m) == m.role = "assistant" /\ m.calls > 0

\* A message with calls has its results right behind it; there are no others.
ResultsFollow(messages) ==
  \A i \in DOMAIN messages : LET m == messages[i] IN
    /\ HasCalls(m) =>
         /\ i + m.calls <= Len(messages)
         /\ \A j \in i + 1 .. i + m.calls : messages[j].role = "tool" /\ messages[j].id = m.id
         /\ i + m.calls < Len(messages) => messages[i + m.calls + 1].role # "tool"
    /\ m.role = "tool" =>
         \E a \in 1 .. i - 1 : HasCalls(messages[a]) /\ i <= a + messages[a].calls

\* What resume gives is what recover_safe_messages left.
ASSUME ContextAssumption ==
  /\ Size \subseteq Nat /\ {PreviewSize, SummarySize, MinRecent, MaxResults} \subseteq Nat
  /\ \A restored \in RestoredHistories : restored \in Seq(Messages) /\ ResultsFollow(restored)

VARIABLES
  history,       \* state.messages
  anchor,        \* last_input_tokens and last_estimated_chars; <<>> is None
  failureCount, fuse,  \* summary_failure_count, summary_fuse_open
  stage,         \* "idle", "prepare", "request" or "failed"
  lastUserCount, \* messages before the turn; 0 between turns
  said           \* history: the messages since the start or /clear that were not
                 \* taken back

contextVars == <<history, anchor, failureCount, fuse, stage, lastUserCount, said>>

Stages == {"idle", "prepare", "request", "failed"}

Weight(messages) == FoldSeq(LAMBDA m, total : m.size + total, 0, messages)
WeightAt(indexes) == MapThenSumSet(LAMBDA i : history[i].size, indexes)

ContextTypeOK ==
  /\ \A i \in DOMAIN history : history[i].role \in {"user", "assistant", "tool"}
  /\ failureCount \in Nat /\ fuse \in BOOLEAN /\ stage \in Stages /\ lastUserCount \in Nat

ContextInit ==
  /\ history \in RestoredHistories /\ said = history
  /\ anchor = <<>> /\ failureCount = 0 /\ fuse = FALSE /\ stage = "idle"
  /\ lastUserCount = 0

-----------------------------------------------------------------------------
(* Lightweight compression *)

Spill(m) == [m EXCEPT !.size = PreviewSize, !.spilled = TRUE]

\* compact_single_tool_result
CompactResult(m) == IF ~ m.spilled /\ m.size > SingleLimit THEN Spill(m) ELSE m

\* The tool messages right after the assistant message a.
Group(a) == {i \in a + 1 .. Len(history) : \A j \in a + 1 .. i : history[j].role = "tool"}
Larger(i, j) == \/ history[i].size > history[j].size
                \/ history[i].size = history[j].size /\ i < j

\* compact_tool_groups: the largest first, until the rest fits; but a result
\* that fits the limit of a single one is passed over.
Spillable(a) == {i \in Group(a) : CompactResult(history[i]) # history[i]}
ToSpill(a) == {i \in Spillable(a) :
  WeightAt(Group(a)) > GroupLimit + WeightAt({j \in Spillable(a) : Larger(j, i)})}
CompactGroups ==
  LET spill == UNION {ToSpill(a) : a \in {b \in DOMAIN history : HasCalls(history[b])}} IN
  [i \in DOMAIN history |-> IF i \in spill THEN Spill(history[i]) ELSE history[i]]

-----------------------------------------------------------------------------
(* The split into an older and a recent part *)

\* Mutant: every message is a segment.
StartsAnywhere(messages, i) == i \in DOMAIN messages

\* build_history_segments: calls and their results are one segment.
StartsSegment(messages, i) ==
  ~ \E a \in 1 .. i - 1 : /\ HasCalls(messages[a])
                          /\ \A j \in a + 1 .. i : messages[j].role = "tool"

\* Mutant: enough messages or enough tokens will do.
EnoughOfEither(messages, i) ==
  \/ Len(messages) - i + 1 >= MinRecent
  \/ Weight(SubSeq(messages, i, Len(messages))) >= RecentKeep

\* split_recent_messages goes back until there are enough of both.
Enough(messages, i) ==
  /\ Len(messages) - i + 1 >= MinRecent
  /\ Weight(SubSeq(messages, i, Len(messages))) >= RecentKeep

FirstRecent(messages) ==
  LET cuts == {i \in DOMAIN messages : StartsSegment(messages, i) /\ Enough(messages, i)} IN
  IF cuts = {} THEN 1 ELSE Max(cuts)

\* apply_summary: summary and boundary are user messages.
Summarized(messages) ==
  <<Message("user", 0, 0, SummarySize), Message("user", 0, 0, 0)>>
    \o SubSeq(messages, FirstRecent(messages), Len(messages))

-----------------------------------------------------------------------------
(* _run_summary.  Whatever the summarizer says that is not a summary (a tool *)
(* call, no <summary>) is a failure; an error of the provider is not caught: *)
(* it ends the turn, or the command.                                         *)

NoSummary == UNCHANGED <<failureCount, fuse>>

SummaryFails ==
  /\ failureCount' = failureCount + 1
  /\ fuse' = (fuse \/ failureCount' >= MaxFailures)

SummarySucceeds == failureCount' = 0 /\ fuse' = FALSE

\* The automatic one is skipped if the messages alone, without the prompt and
\* the tools, are below the limit.
NothingToSummarize(messages, manual) ==
  \/ messages = <<>> \/ FirstRecent(messages) = 1
  \/ ~ manual /\ Weight(messages) < AutoLimit

Summarize(messages, manual, next) ==
  \/ /\ NothingToSummarize(messages, manual)
     /\ history' = messages /\ stage' = next /\ NoSummary
  \/ /\ ~ NothingToSummarize(messages, manual)
     /\ \/ history' = Summarized(messages) /\ stage' = next /\ SummarySucceeds
        \/ failureCount < MaxTries /\ history' = messages /\ stage' = next /\ SummaryFails
        \/ /\ history' = messages /\ NoSummary
           /\ stage' = IF manual THEN "idle" ELSE "failed"

-----------------------------------------------------------------------------
(* The estimate starts from what the provider counted last. *)

Estimate(messages) == LET size == Weight(messages) + PromptSize IN
  IF anchor = <<>> THEN size
  ELSE anchor[1] + (IF size > anchor[2] THEN size - anchor[2] ELSE 0)

\* prepare_before_request
Prepare ==
  /\ stage = "prepare"
  /\ LET messages == CompactGroups IN
       IF Estimate(messages) < AutoLimit \/ fuse
       THEN history' = messages /\ stage' = "request" /\ NoSummary
       ELSE Summarize(messages, FALSE, "request")
  /\ UNCHANGED <<anchor, lastUserCount, said>>

\* Or a result of the groups cannot be put on disk.
PrepareFails ==
  /\ stage = "prepare" /\ CompactGroups # history
  /\ stage' = "failed"
  /\ UNCHANGED <<history, anchor, failureCount, fuse, lastUserCount, said>>

\* manual_compact: what the groups free is enough; the fuse does not count.
ManualCompact ==
  /\ stage = "idle"
  /\ IF CompactGroups # history THEN history' = CompactGroups /\ NoSummary /\ UNCHANGED stage
                                ELSE Summarize(history, TRUE, "idle")
  /\ UNCHANGED <<anchor, lastUserCount, said>>

\* /clear
Reset ==
  /\ stage = "idle" /\ history # <<>>
  /\ history' = <<>> /\ said' = <<>>
  /\ anchor' = <<>> /\ failureCount' = 0 /\ fuse' = FALSE
  /\ UNCHANGED <<stage, lastUserCount>>

-----------------------------------------------------------------------------
(* The agent *)

Room(n) == Len(said) + n <= MaxMessages
Add(messages) == history' = history \o messages /\ said' = said \o messages
GoesTo(next) ==
  /\ stage' = next
  /\ lastUserCount' = IF next = "idle" THEN 0 ELSE lastUserCount

UserSays(size) ==
  /\ stage = "idle" /\ Room(1)
  /\ Add(<<Message("user", Len(said) + 1, 0, size)>>)
  /\ stage' = "prepare" /\ lastUserCount' = Len(history)
  /\ UNCHANGED <<anchor, failureCount, fuse>>

\* record_usage: a provider that reports no input tokens leaves the old count,
\* but the size of this request is entered; one may report nothing at all.
RecordUsage == LET size == Weight(history) + PromptSize IN
  \/ anchor' = <<size, size>>
  \/ anchor' = IF anchor = <<>> THEN anchor ELSE <<anchor[1], size>>
  \/ UNCHANGED anchor

\* A final answer, or calls whose results are compacted one by one; the turn
\* goes on if the user does not cancel it and it has iterations left.
Respond(results) ==
  /\ stage = "request" /\ Room(1 + Len(results))
  /\ RecordUsage
  /\ LET asked == Message("assistant", Len(said) + 1, Len(results), 1)
         Result(i) == Message("tool", Len(said) + 1, 0, results[i]) IN
       Add(<<asked>> \o [i \in DOMAIN results |-> CompactResult(Result(i))])
  /\ GoesTo("idle") \/ (results # <<>> /\ GoesTo("prepare"))
  /\ UNCHANGED <<failureCount, fuse>>

\* An empty answer is asked for again, by a message that no archive has.
EmptyResponse ==
  /\ stage = "request" /\ Room(1)
  /\ RecordUsage
  /\ Add(<<Message("user", Len(said) + 1, 0, 1)>>)
  /\ GoesTo("idle") \/ GoesTo("prepare")
  /\ UNCHANGED <<failureCount, fuse>>

\* An error, an interrupt, or an empty answer too many.
RequestFails ==
  /\ stage = "request"
  /\ stage' = "failed"
  /\ RecordUsage
  /\ UNCHANGED <<history, failureCount, fuse, lastUserCount, said>>

\* _run_request takes back the message that nothing came of.  A summary may have
\* left fewer messages than there were before the turn: then it stays.
TakeBack ==
  /\ stage = "failed"
  /\ IF Len(history) > lastUserCount /\ Last(history).role = "user"
     THEN history' = Front(history) /\ said' = Front(said)
     ELSE UNCHANGED <<history, said>>
  /\ GoesTo("idle")
  /\ UNCHANGED <<anchor, failureCount, fuse>>

ContextNext ==
  \/ Prepare \/ PrepareFails \/ ManualCompact \/ Reset
  \/ EmptyResponse \/ RequestFails \/ TakeBack
  \/ \E size \in Size : UserSays(size)
  \/ \E results \in SeqOf(Size, MaxResults) : Respond(results)

ContextSpec == ContextInit /\ [][ContextNext]_contextVars

-----------------------------------------------------------------------------
(* Properties *)

\* The first n messages are summaries, the others all but the first dropped of
\* what was said, and at least so many if any were dropped.
KeepsNewest(messages, all, least) ==
  \E n \in 0 .. Len(messages), dropped \in 0 .. Len(all) :
    /\ Len(messages) - n = Len(all) - dropped
    /\ \A i \in 1 .. n : messages[i].id = 0
    /\ \A i \in 1 .. Len(messages) - n : /\ messages[n + i].role = all[dropped + i].role
                                         /\ messages[n + i].id = all[dropped + i].id
    /\ dropped = 0 \/ Len(messages) - n >= least

\* specs/009 F18: whatever was compressed before, the history of a request has
\* the results of each message with calls right behind it, and no others.
RequestKeepsPairs ==
  stage = "request" =>
    \A i \in DOMAIN history : LET m == history[i] IN
      /\ HasCalls(m) => Cardinality(Group(i)) = m.calls
      /\ m.role = "tool" => \E a \in 1 .. i - 1 : HasCalls(history[a]) /\ i \in Group(a)
                                                   /\ history[a].id = m.id

\* specs/009 F8, F16: over any number of summaries, failures, open fuses and turns
\* taken back the history is what summaries left and after that the newest
\* messages, in their order; they are all there, or enough of them.  Taking back
\* the message of a failed turn costs one of those that a summary had kept, and
\* never a second one, however many turns fail.
RecentIsKept ==
  KeepsNewest(history, said, IF stage = "idle" THEN MinRecent - 1 ELSE MinRecent)

\* Not so: the configured number itself, between the turns too.
EnoughIsKept == KeepsNewest(history, said, MinRecent)

\* Not so (specs/009 F3, AC2): a group is above its limit, and none of its
\* results is on disk, because each one fits the limit of a single result.
GroupsFit ==
  stage = "request" =>
    \A a \in DOMAIN history : HasCalls(history[a]) =>
      \/ WeightAt(Group(a)) <= GroupLimit
      \/ \A i \in Group(a) : history[i].spilled

\* Not so (specs/009 F6, AC5): the prompt and the tools bring a request to the
\* limit, and the summary is skipped because the messages alone are below it.
SummaryWhenNear ==
  [][stage = "prepare" /\ stage' = "request" /\ ~ fuse /\ FirstRecent(CompactGroups) > 1
       /\ Estimate(CompactGroups) >= AutoLimit
     => history' # CompactGroups \/ failureCount' > failureCount]_contextVars
=============================================================================
