------------------------------ MODULE FileLock ------------------------------
(***************************************************************************)
(* The lock file every team store is written under                         *)
(* (huicode/teams/locking.py), one file system call per step.              *)
(*                                                                         *)
(* A thread creates the file exclusively, then writes its token and its    *)
(* process into it; whoever finds the file reads it, and removes it when   *)
(* it is old and names a process that is gone.  Threads of one process and *)
(* of several (the lead, terminal members) compete for one file, and a     *)
(* process can die between any two calls.                                  *)
(***************************************************************************)
EXTENDS Naturals, FiniteSets

CONSTANTS
  Thread,       \* the users of the lock; each __enter__ has its own token
  Process,      \* operating system processes
  processOf,    \* the process of every thread
  Retries,      \* mailbox_lock_retries: further attempts after the first
  Absent        \* "there is no lock file"

ASSUME ProcessAssumption == processOf \in [Thread -> Process]
ASSUME RetriesAssumption == Retries \in Nat

VARIABLES
  file,      \* the lock file: whose it is, whether the payload is in it,
             \* and whether stale_seconds have passed since
  pc,        \* what each thread does next
  attempt,   \* the attempts it has used up in this __enter__
  alive,     \* the processes that run
  collided,  \* history: two threads were to remove the same stale file
  failed     \* history: the system failed a call, and a file may be left

vars == <<file, pc, attempt, alive, collided, failed>>

File == [token : Thread, written : BOOLEAN, old : BOOLEAN]

ASSUME AbsentAssumption == Absent \notin File \cup Thread

Step == {"idle", "open", "write", "inspect", "break", "retry",
         "locked", "check", "remove", "dead"}

TypeOK ==
  /\ file \in File \cup {Absent}
  /\ pc \in [Thread -> Step]
  /\ attempt \in [Thread -> 0..Retries]
  /\ alive \subseteq Process
  /\ collided \in BOOLEAN /\ failed \in BOOLEAN

-----------------------------------------------------------------------------
Runs(t) == processOf[t] \in alive
Goto(t, step) == pc' = [pc EXCEPT ![t] = step]

\* Mutant: the age alone decides.
IsStaleByAge == file # Absent /\ file.written /\ file.old

\* Mutant: a file without a payload names nobody, and nobody is not alive.
IsStaleUnwritten ==
  file # Absent /\ (file.written => file.old /\ processOf[file.token] \notin alive)

\* _is_stale: only a file with a readable payload is ever stale.
IsStale ==
  /\ file # Absent /\ file.written /\ file.old
  /\ processOf[file.token] \notin alive

Init ==
  /\ file = Absent
  /\ pc = [t \in Thread |-> "idle"]
  /\ attempt = [t \in Thread |-> 0]
  /\ alive = Process
  /\ collided = FALSE /\ failed = FALSE

Enter(t) ==
  /\ Runs(t) /\ pc[t] = "idle"
  /\ Goto(t, "open")
  /\ attempt' = [attempt EXCEPT ![t] = 0]
  /\ UNCHANGED <<file, alive, collided, failed>>

NewFile(t) == [token |-> t, written |-> FALSE, old |-> FALSE]

\* os.open(O_CREAT | O_EXCL): creates the file empty, or finds one.
Open(t) ==
  /\ Runs(t) /\ pc[t] = "open"
  /\ \/ /\ file = Absent
        /\ file' = NewFile(t)
        /\ Goto(t, "write")
     \/ /\ file # Absent
        /\ Goto(t, "inspect")
        /\ UNCHANGED file
  /\ UNCHANGED <<attempt, alive, collided, failed>>

\* os.write through the descriptor: it reaches the file the thread created,
\* also when that name has been removed or taken over meanwhile.
Write(t) ==
  /\ Runs(t) /\ pc[t] = "write"
  /\ file' = IF file # Absent /\ file.token = t
             THEN [file EXCEPT !.written = TRUE] ELSE file
  /\ Goto(t, "locked")
  /\ UNCHANGED <<attempt, alive, collided, failed>>

Inspect(t) ==
  /\ Runs(t) /\ pc[t] = "inspect"
  /\ Goto(t, IF IsStale THEN "break" ELSE "retry")
  /\ collided' = (collided \/ (IsStale /\ \E u \in Thread : pc[u] = "break"))
  /\ UNCHANGED <<file, attempt, alive, failed>>

\* path.unlink(): whatever file has the name by now.
Break(t) ==
  /\ Runs(t) /\ pc[t] = "break"
  /\ file' = Absent
  /\ Goto(t, "retry")
  /\ UNCHANGED <<attempt, alive, collided, failed>>

\* Mutant: the loop has no bound.
RetryForEver(t) ==
  /\ Runs(t) /\ pc[t] = "retry"
  /\ Goto(t, "open")
  /\ UNCHANGED <<file, attempt, alive, collided, failed>>

\* The next round of the loop, or the lock_timeout error after the last one
\* (a stale file removed in the last round is not tried again).
Retry(t) ==
  /\ Runs(t) /\ pc[t] = "retry"
  /\ \/ /\ attempt[t] < Retries
        /\ attempt' = [attempt EXCEPT ![t] = @ + 1]
        /\ Goto(t, "open")
     \/ /\ attempt[t] = Retries
        /\ Goto(t, "idle")
        /\ UNCHANGED attempt
  /\ UNCHANGED <<file, alive, collided, failed>>

\* __exit__: the body is over; read the token, then remove the file.
Exit(t) ==
  /\ Runs(t) /\ pc[t] = "locked"
  /\ Goto(t, "check")
  /\ UNCHANGED <<file, attempt, alive, collided, failed>>

\* Mutant: a file that is old by now is left to others.
CheckTokenFresh(t) ==
  /\ Runs(t) /\ pc[t] = "check"
  /\ Goto(t, IF file # Absent /\ ~ file.old /\ file.token = t
             THEN "remove" ELSE "idle")
  /\ UNCHANGED <<file, attempt, alive, collided, failed>>

CheckToken(t) ==
  /\ Runs(t) /\ pc[t] = "check"
  /\ Goto(t, IF file # Absent /\ file.written /\ file.token = t
             THEN "remove" ELSE "idle")
  /\ UNCHANGED <<file, attempt, alive, collided, failed>>

Remove(t) ==
  /\ Runs(t) /\ pc[t] = "remove"
  /\ file' = Absent
  /\ Goto(t, "idle")
  /\ UNCHANGED <<attempt, alive, collided, failed>>

\* An OSError.  Where it is caught the attempt or the exit goes on without the
\* call; elsewhere it goes up to the caller, who has no lock then, although the
\* file may be there, with its payload or without.
CallFails(t) ==
  /\ Runs(t)
  /\ \/ /\ pc[t] \in {"open", "check", "remove"}
        /\ Goto(t, "idle")
        /\ UNCHANGED file
     \/ /\ pc[t] = "write"
        /\ Goto(t, "idle")
        /\ file' \in {file, IF file # Absent /\ file.token = t
                          THEN [file EXCEPT !.written = TRUE] ELSE file}
     \/ /\ pc[t] \in {"inspect", "break"}
        /\ Goto(t, "retry")
        /\ UNCHANGED file
  /\ failed' = (failed \/ pc[t] \in {"write", "check", "remove"})
  /\ UNCHANGED <<attempt, alive, collided>>

\* stale_seconds pass.
Age ==
  /\ file # Absent /\ ~ file.old
  /\ file' = [file EXCEPT !.old = TRUE]
  /\ UNCHANGED <<pc, attempt, alive, collided, failed>>

\* A process is killed or exits between two calls of its threads.
Crash(p) ==
  /\ p \in alive
  /\ alive' = alive \ {p}
  /\ pc' = [t \in Thread |-> IF processOf[t] = p THEN "dead" ELSE pc[t]]
  /\ UNCHANGED <<file, attempt, collided, failed>>

Call(t) == Open(t) \/ Write(t) \/ Inspect(t) \/ Break(t) \/ Retry(t)
           \/ CheckToken(t) \/ Remove(t)

Next ==
  \/ \E t \in Thread : Enter(t) \/ Call(t) \/ CallFails(t) \/ Exit(t)
  \/ Age
  \/ \E p \in Process : Crash(p)

\* The scheduler runs every thread that is inside a lock call; it promises
\* nothing about when a body starts or ends, files age or processes die.
Fairness == \A t \in Thread : WF_vars(Call(t))

Spec == Init /\ [][Next]_vars /\ Fairness

-----------------------------------------------------------------------------
(* Properties *)

\* Between the return of __enter__ and the end of __exit__.
Holders == {t \in Thread : pc[t] \in {"locked", "check", "remove"}}

\* At most one thread is inside the guarded body, whatever the timing of
\* opens, retries, ageing files and timeouts, as long as no process died
\* (a long-running holder is never robbed of its lock).
ExclusiveUntilCrash ==
  alive = Process => \A t, u \in Holders : t = u

\* A death alone costs nothing: as long as no two threads were about to remove
\* the same stale file, one thread at most is inside and the file is its own, so
\* that its __exit__ removes no lock of somebody else, whatever process died
\* where and whichever calls the system failed.
OneBreakerIsSafe ==
  ~ collided => \A t, u \in Holders : t = u /\ file # Absent /\ file.token = t

\* As long as no process died and no call failed a lock file belongs to a thread
\* that is on its way to remove it: no timeout, failed attempt or exit leaves one.
NoFileLeftBehind ==
  (alive = Process /\ ~ failed /\ file # Absent)
    => pc[file.token] \in {"write", "locked", "check", "remove"}

\* __enter__ answers, with the lock or with lock_timeout: neither contention
\* nor stale files keep a thread in the loop for ever.
EnterAnswers ==
  \A t \in Thread : pc[t] = "open" ~> pc[t] \in {"idle", "locked", "dead"}

\* specs/016-agent-team/spec.md:217 (concurrent writes are safe under the
\* lock, a stale lock is recovered): refuted when two threads break the same
\* stale file, the second removes the lock the first has just taken.
Exclusive == \A t, u \in Holders : t = u

\* specs/016-agent-team/plan.md:179 (a lock past the threshold whose process
\* is not known to live may be cleared): refuted by a process that dies
\* between creating the file and writing into it.
OrphanIsStale ==
  (file # Absent /\ file.old /\ processOf[file.token] \notin alive) => IsStale
=============================================================================
