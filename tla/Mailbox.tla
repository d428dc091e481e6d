------------------------------ MODULE Mailbox ------------------------------
(***************************************************************************)
(* The mailboxes of a team (huicode/teams/mailbox.py): one JSONL file per  *)
(* member.  A message is appended under the mailbox's lock; marking one as *)
(* read rewrites the file under the lock: it is removed and every message  *)
(* appended to it again.  Reading takes no lock.  The lock is that of      *)
(* FileLock: one holder, and a dead one's lock is broken later.            *)
(***************************************************************************)
EXTENDS Naturals, Sequences, FiniteSets

CONSTANTS
  Box,      \* the mailboxes; their owners are the names in the registry
  Msg,      \* message identifiers, each sent by one call of send()
  Worker,   \* the threads that call the store, each at most one call at a time
  Free,     \* "nobody"
  MaxTargets  \* bound: recipients of a message

ASSUME FreeAssumption == Free \notin Worker
ASSUME TargetsAssumption == MaxTargets \in Nat

VARIABLES
  box,      \* the lines of every mailbox file
  lock,     \* the holder of every mailbox lock
  call,     \* what each thread is in the middle of
  sender,   \* history: the thread that called send() for each message, or Free
  crashed,  \* the threads that died
  log       \* history: the messages appended to each mailbox, in order

vars == <<box, lock, call, sender, crashed, log>>

Entry == [id : Msg, read : BOOLEAN]
Idle == [at |-> "idle"]
Sending == [at : {"send_lock", "append", "send_unlock"}, msg : Msg,
            to : Box, rest : Seq(Box)]
Marking == [at : {"mark_lock", "load"}, msg : Msg, to : Box]
Rewriting == [at : {"unlink", "rewrite"}, msg : Msg, to : Box, lines : Seq(Entry)]

Ids(entries) == {entries[i].id : i \in DOMAIN entries}
Lists == UNION {[1 .. n -> Box] : n \in 1 .. MaxTargets}

TypeOK ==
  /\ box \in [Box -> Seq(Entry)]
  /\ lock \in [Box -> Worker \cup {Free}]
  /\ call \in [Worker -> {Idle} \cup Sending \cup Marking \cup Rewriting]
  /\ sender \in [Msg -> Worker \cup {Free}] /\ crashed \subseteq Worker
  /\ log \in [Box -> Seq(Msg)]

-----------------------------------------------------------------------------
Runs(w) == w \notin crashed
At(w, step) == Runs(w) /\ call[w].at = step
Become(w, c) == call' = [call EXCEPT ![w] = c]

Init ==
  /\ box = [b \in Box |-> <<>>]
  /\ lock = [b \in Box |-> Free]
  /\ call = [w \in Worker |-> Idle]
  /\ sender = [m \in Msg |-> Free]
  /\ crashed = {}
  /\ log = [b \in Box |-> <<>>]

\* send() or broadcast(): the recipients are resolved first, then each
\* mailbox of the list is locked, appended to and unlocked in turn, as often
\* as it is named.
Send(w, m, targets) ==
  /\ At(w, "idle") /\ sender[m] = Free /\ targets \in Lists
  /\ sender' = [sender EXCEPT ![m] = w]
  /\ Become(w, [at |-> "send_lock", msg |-> m, to |-> Head(targets), rest |-> Tail(targets)])
  /\ UNCHANGED <<box, lock, crashed, log>>

\* Entering the lock: it is taken, or the retries run out and the whole call
\* raises lock_timeout, leaving the mailboxes written so far as they are.
Lock(w, from, to) ==
  /\ At(w, from)
  /\ \/ /\ lock[call[w].to] = Free
        /\ lock' = [lock EXCEPT ![call[w].to] = w]
        /\ Become(w, [call[w] EXCEPT !.at = to])
     \/ /\ lock[call[w].to] # Free
        /\ Become(w, Idle)
        /\ UNCHANGED lock
  /\ UNCHANGED <<box, sender, crashed, log>>

AppendLine(w) ==
  /\ At(w, "append")
  /\ LET b == call[w].to
         m == call[w].msg
     IN  /\ box' = [box EXCEPT ![b] = Append(@, [id |-> m, read |-> FALSE])]
         /\ log' = [log EXCEPT ![b] = Append(@, m)]
  /\ Become(w, [call[w] EXCEPT !.at = "send_unlock"])
  /\ UNCHANGED <<lock, sender, crashed>>

Unlock(w) ==
  /\ At(w, "send_unlock")
  /\ lock' = [lock EXCEPT ![call[w].to] = Free]
  /\ IF call[w].rest = <<>> THEN Become(w, Idle)
     ELSE Become(w, [at |-> "send_lock", msg |-> call[w].msg, to |-> Head(call[w].rest),
                     rest |-> Tail(call[w].rest)])
  /\ UNCHANGED <<box, sender, crashed, log>>

\* Mutant: the file is read and rewritten without the lock.
MarkUnlocked(w, b, m) ==
  /\ At(w, "idle") /\ sender[m] # Free
  /\ Become(w, [at |-> "load", msg |-> m, to |-> b])
  /\ UNCHANGED <<box, lock, sender, crashed, log>>

\* mark_read().  An unknown message is noticed after the rewriting.
Mark(w, b, m) ==
  /\ At(w, "idle") /\ sender[m] # Free
  /\ Become(w, [at |-> "mark_lock", msg |-> m, to |-> b])
  /\ UNCHANGED <<box, lock, sender, crashed, log>>

Load(w) ==
  /\ At(w, "load")
  /\ Become(w, [at |-> "unlink", msg |-> call[w].msg, to |-> call[w].to,
                lines |-> box[call[w].to]])
  /\ UNCHANGED <<box, lock, sender, crashed, log>>

Unlink(w) ==
  /\ At(w, "unlink")
  /\ box' = [box EXCEPT ![call[w].to] = <<>>]
  /\ Become(w, [call[w] EXCEPT !.at = "rewrite"])
  /\ UNCHANGED <<lock, sender, crashed, log>>

\* The message to mark, wherever it is, is marked.
Rewritten(lines, m) ==
  [i \in DOMAIN lines |->
     IF lines[i].id = m THEN [lines[i] EXCEPT !.read = TRUE] ELSE lines[i]]

\* One message appended again, or the end of the loop and of the lock.
Rewrite(w) ==
  /\ At(w, "rewrite")
  /\ \/ /\ call[w].lines # <<>>
        /\ box' = [box EXCEPT ![call[w].to] = Append(@, Rewritten(call[w].lines, call[w].msg)[1])]
        /\ Become(w, [call[w] EXCEPT !.lines = Tail(@)])
        /\ UNCHANGED lock
     \/ /\ call[w].lines = <<>>
        /\ lock' = [lock EXCEPT ![call[w].to] = Free]
        /\ Become(w, Idle)
        /\ UNCHANGED box
  /\ UNCHANGED <<sender, crashed, log>>

\* inbox() takes no lock: what a reader finds at this moment.
Inbox(b) == Ids(box[b])

\* A thread's process dies between two file system calls.
Crash(w) ==
  /\ Runs(w)
  /\ crashed' = crashed \cup {w}
  /\ UNCHANGED <<box, lock, call, sender, log>>

\* A waiter clears the lock of a process that died.
BreakStale(b) ==
  /\ lock[b] \in crashed
  /\ lock' = [lock EXCEPT ![b] = Free]
  /\ UNCHANGED <<box, call, sender, crashed, log>>

Call(w) ==
  \/ Lock(w, "send_lock", "append") \/ AppendLine(w) \/ Unlock(w)
  \/ Lock(w, "mark_lock", "load") \/ Load(w) \/ Unlink(w) \/ Rewrite(w)

Next ==
  \/ \E w \in Worker : \/ Call(w)
                       \/ \E m \in Msg, targets \in Lists : Send(w, m, targets)
                       \/ \E b \in Box, m \in Msg : Mark(w, b, m)
                       \/ Crash(w)
  \/ \E b \in Box : BreakStale(b)

Spec == Init /\ [][Next]_vars /\ \A w \in Worker : WF_vars(Call(w))

-----------------------------------------------------------------------------
(* Properties *)

\* What mailbox b has for its users: its file, and while mark_read rewrites it the
\* lines still in memory, as they will be.
Contents(b) ==
  LET c == IF lock[b] = Free THEN Idle ELSE call[lock[b]] IN
  IF c.at = "rewrite" /\ c.to = b THEN box[b] \o Rewritten(c.lines, c.msg) ELSE box[b]

\* Where message m still has to go.
Owed(m) ==
  LET c == IF sender[m] = Free THEN Idle ELSE call[sender[m]] IN
  IF c.at \in {"send_lock", "append"} /\ c.msg = m THEN <<c.to>> \o c.rest
  ELSE IF c.at = "send_unlock" /\ c.msg = m THEN c.rest ELSE <<>>

\* Until somebody dies the mailbox files keep the promise of MailboxSpec: each
\* list is served in its order, one copy for each name of it, marks and
\* deliveries take effect one at a time, and nothing else happens.
Promise == INSTANCE MailboxSpec WITH
  inbox <- [b \in Box |-> Contents(b)], owed <- [m \in Msg |-> Owed(m)],
  posted <- {m \in Msg : sender[m] # Free}, broken <- crashed # {}
KeepsPromise == Promise!Spec

\* specs/016-agent-team/spec.md:155 (an interruption loses at most the one
\* record being written): refuted, a death while mark_read rewrites the file
\* loses every message not yet put back.
CrashLosesAtMostOne ==
  \A b \in Box : lock[b] = Free => Len(log[b]) - Len(box[b]) <= 1

\* specs/016-agent-team/spec.md:154 (updates of mailboxes are atomic to
\* others): refuted, a reader can find the mailbox half rewritten.
InboxIsComplete ==
  \A b \in Box : {log[b][i] : i \in DOMAIN log[b]} \subseteq Inbox(b)
=============================================================================
