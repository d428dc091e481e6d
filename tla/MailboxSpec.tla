---------------------------- MODULE MailboxSpec ----------------------------
(***************************************************************************)
(* What the team's mailboxes promise their users: a message goes to the    *)
(* mailboxes of its list, in that order, one copy for each time a name is  *)
(* listed, or to no more of them once its sender gives up; a copy stays in *)
(* its place, and to read a message marks all its copies for good.  The    *)
(* promise ends with the first user that dies.                             *)
(***************************************************************************)
EXTENDS Sequences, Naturals

CONSTANTS
  Box,    \* the mailboxes
  Msg,    \* the messages
  Lists   \* the lists of recipients: non-empty sequences of mailboxes

VARIABLES
  inbox,    \* per mailbox the messages, each with its read flag
  owed,     \* per message the mailboxes it still has to go to
  posted,   \* the messages that were sent
  broken    \* somebody died: nothing is promised any more

Unread(m) == [id |-> m, read |-> FALSE]

\* The entries with message m marked as read.
MarkedIn(entries, m) ==
  [i \in DOMAIN entries |->
     IF entries[i].id = m THEN [entries[i] EXCEPT !.read = TRUE] ELSE entries[i]]

Init ==
  /\ inbox = [b \in Box |-> <<>>] /\ owed = [m \in Msg |-> <<>>]
  /\ posted = {} /\ broken = FALSE

Post(m, targets) ==
  /\ ~ broken /\ m \notin posted
  /\ posted' = posted \cup {m} /\ owed' = [owed EXCEPT ![m] = targets]
  /\ UNCHANGED <<inbox, broken>>

Deliver(m) ==
  /\ ~ broken /\ owed[m] # <<>>
  /\ inbox' = [inbox EXCEPT ![Head(owed[m])] = Append(@, Unread(m))]
  /\ owed' = [owed EXCEPT ![m] = Tail(@)]
  /\ UNCHANGED <<posted, broken>>

GiveUp(m) ==
  /\ ~ broken /\ owed' = [owed EXCEPT ![m] = <<>>]
  /\ UNCHANGED <<inbox, posted, broken>>

MarkRead(b, m) ==
  /\ ~ broken /\ inbox' = [inbox EXCEPT ![b] = MarkedIn(@, m)]
  /\ UNCHANGED <<owed, posted, broken>>

Die == broken' = TRUE

Next ==
  \/ Die
  \/ \E m \in Msg : \/ Deliver(m) \/ GiveUp(m)
                    \/ \E b \in Box : MarkRead(b, m)
                    \/ \E targets \in Lists : Post(m, targets)

Spec == Init /\ [][Next]_<<inbox, owed, posted, broken>>
=============================================================================
