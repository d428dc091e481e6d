-------------------------------- MODULE Notes --------------------------------
(* The notes of the long-term memory and their index (huicode/memory:        *)
(* manager.py, updater.py, notes.py, index.py).  A turn that ends schedules  *)
(* an update on the executor's one thread; the user's commands run updates   *)
(* and rebuilds on the main thread at the same time.  An update asks a model *)
(* for operations, carries them out one by one and rebuilds the index.       *)
(*                                                                           *)
(* Left out: titles, the sections and the order of the index, scrubbing of   *)
(* secrets, the prompt's copy of the index (read anew for each request).     *)
(* A note's summary stands for its texts; one file is written in one step.   *)
EXTENDS Naturals, FiniteSets

CONSTANTS
  NoteId, NoteTexts,
  IndexLimit,    \* index_max_lines, less the lines that list no note
  MaxUpdates,    \* bound: updates scheduled
  MaxCommands,   \* bound: updates and rebuilds asked for by the user
  MaxOperations  \* bound: operations of an update

ASSUME NotesAssumption == {IndexLimit, MaxUpdates, MaxOperations} \subseteq Nat

VARIABLES
  notes,       \* the files: by scope and id, the summary
  index,       \* the index file: the notes it lists
  updates,     \* how many updates wait in the executor
  updater,     \* per thread: what it is doing, and what it read before
  pendingCount,\* state.memory.pending_updates
  finalState,  \* "open", "closing": close() waits, "closed"
  updateCount, commandCount,
  broken       \* history: why the index need not be right, or pending be zero

noteVars == <<notes, index, updates, updater, pendingCount, finalState, updateCount,
              commandCount, broken>>

Scopes == {"project", "user"}
Threads == {"main", "worker"}
NoNote == "none"
Note(s, n) == <<s, n, notes[s][n]>>
Notes == {Note(s, n) : s \in Scopes, n \in NoteId} \ {<<s, n, NoNote>> : s \in Scopes, n \in NoteId}
Doing(thread, what) == updater[thread].at = what
AtRest == [at |-> "rest", left |-> 0, listed |-> {}, counted |-> 0, changed |-> FALSE]

NotesTypeOK ==
  /\ notes \in [Scopes -> [NoteId -> NoteTexts \cup {NoNote}]]
  /\ \A t \in Threads : updater[t].at \in {"rest", "asking", "applying", "listing", "listed",
                                           "reporting", "counting"}
  /\ updates \in 0 .. MaxUpdates /\ pendingCount \in 0 .. MaxUpdates

\* start() has written an index if there was none (load_text).
NotesInit ==
  /\ notes \in [Scopes -> [NoteId -> {NoNote}]]
  /\ index = {} /\ updates = 0 /\ pendingCount = 0
  /\ updater = [t \in Threads |-> AtRest]
  /\ finalState = "open" /\ updateCount = 0 /\ commandCount = 0
  /\ broken = [raised |-> 0, index |-> FALSE]

Files == UNCHANGED <<notes, index>>
Counts == UNCHANGED <<pendingCount, updates, finalState, updateCount, commandCount>>
Go(thread, what) == updater' = [updater EXCEPT ![thread].at = what]
MainIsFree == finalState = "open" /\ Doing("main", "rest")

\* Where the caller of update_from_turn goes on, with or without a report.
Return(thread) == updater' = [updater EXCEPT ![thread] =
                    IF thread = "main" THEN AtRest ELSE [AtRest EXCEPT !.at = "reporting"]]

-----------------------------------------------------------------------------
(* Updates are scheduled and asked for *)

\* schedule_update_after_final, when a turn ends.
ScheduleUpdate ==
  /\ MainIsFree /\ updateCount < MaxUpdates
  /\ updateCount' = updateCount + 1
  /\ updates' = updates + 1 /\ pendingCount' = pendingCount + 1
  /\ Files /\ UNCHANGED <<updater, finalState, commandCount, broken>>

RunUpdate ==
  /\ updates > 0 /\ Doing("worker", "rest")
  /\ updates' = updates - 1 /\ Go("worker", "asking")
  /\ Files /\ UNCHANGED <<pendingCount, finalState, updateCount, commandCount, broken>>

\* update_now and rebuild_index
UserCommand ==
  /\ MainIsFree /\ commandCount < MaxCommands /\ commandCount' = commandCount + 1
  /\ \E what \in {"asking", "listing"} : Go("main", what)
  /\ Files /\ UNCHANGED <<updates, pendingCount, finalState, updateCount, broken>>

\* update_from_turn: plan mode, an empty turn, a failed request, an answer that
\* is not one JSON object with operations: nothing is done.
NoOperations(thread) ==
  /\ Doing(thread, "asking") /\ Return(thread)
  /\ Files /\ Counts /\ UNCHANGED broken

ModelAnswers(thread) ==
  /\ Doing(thread, "asking")
  /\ updater' = [updater EXCEPT ![thread].at = "applying", ![thread].left = MaxOperations]
  /\ Files /\ Counts /\ UNCHANGED broken

-----------------------------------------------------------------------------
(* _apply_operations *)

Applying(thread) == Doing(thread, "applying") /\ updater[thread].left > 0

\* An operation that may have changed a note of another thread's listing.
Applied(thread) ==
  /\ updater' = [updater EXCEPT ![thread].left = @ - 1, ![thread].changed = TRUE]
  /\ broken' = [broken EXCEPT !.index = @ \/ \E t \in Threads \ {thread} : Doing(t, "listed")]
  /\ UNCHANGED index /\ Counts

CreateNote(thread, s, n, text) ==
  /\ Applying(thread)
  /\ notes' = [notes EXCEPT ![s][n] = text]
  /\ Applied(thread)

\* The newest note of the id, which both scopes may have; a field the model
\* leaves out is written empty.
UpdateNote(thread, s, n, text) ==
  /\ Applying(thread) /\ notes[s][n] # NoNote
  /\ notes' = [notes EXCEPT ![s][n] = text]
  /\ Applied(thread)

DeleteNote(thread, s, n) ==
  /\ Applying(thread) /\ notes[s][n] # NoNote
  /\ notes' = [notes EXCEPT ![s][n] = NoNote]
  /\ Applied(thread)

\* An operation that is no object or has no known action ends the update with
\* a report, those before it done and the index as it was.
BadOperation(thread) ==
  /\ Applying(thread) /\ Return(thread)
  /\ broken' = [broken EXCEPT !.index = @ \/ updater[thread].changed]
  /\ Files /\ Counts

\* A bad scope or category raises instead: the worker's future keeps it.
BadNote(thread) ==
  /\ Applying(thread)
  /\ updater' = [updater EXCEPT ![thread] = AtRest]
  /\ broken' = [raised |-> broken.raised + (IF thread = "worker" THEN 1 ELSE 0),
                index |-> broken.index \/ updater[thread].changed]
  /\ Files /\ Counts

-----------------------------------------------------------------------------
(* rebuild: the notes are listed, the index is written *)

\* Mutant: the notes of the user's own directory are not looked at.
ListProject(thread) ==
  /\ Doing(thread, "applying") \/ Doing(thread, "listing")
  /\ updater' = [updater EXCEPT ![thread].at = "listed",
                                ![thread].listed = {note \in Notes : note[1] = "project"}]
  /\ Files /\ Counts /\ UNCHANGED broken

List(thread) ==
  /\ Doing(thread, "applying") \/ Doing(thread, "listing")
  /\ updater' = [updater EXCEPT ![thread].at = "listed", ![thread].listed = Notes]
  /\ Files /\ Counts /\ UNCHANGED broken

\* _render: what does not fit is left out.
Render(listed) ==
  IF Cardinality(listed) <= IndexLimit THEN {listed}
  ELSE {some \in SUBSET listed : Cardinality(some) = IndexLimit}

WriteIndex(thread) ==
  /\ Doing(thread, "listed")
  /\ index' \in Render(updater[thread].listed)
  /\ Return(thread)
  /\ broken' = IF \A t \in Threads \ {thread} : ~ updater[t].changed /\ ~ Doing(t, "listed")
               THEN [broken EXCEPT !.index = updater[thread].listed # Notes] ELSE broken
  /\ UNCHANGED notes /\ Counts

\* A file cannot be read or written: the error ends the update or the command.
\* Of the index it may leave the old lines, or none.
RebuildFails(thread) ==
  /\ updater[thread].at \in {"applying", "listing", "listed"}
  /\ updater' = [updater EXCEPT ![thread] = AtRest]
  /\ index' = index \/ (Doing(thread, "listed") /\ index' = {})
  /\ broken' = [raised |-> broken.raised + (IF thread = "worker" THEN 1 ELSE 0),
                index |-> broken.index \/ updater[thread].changed \/ index' # index]
  /\ UNCHANGED notes /\ Counts

-----------------------------------------------------------------------------
(* run_update after its report: one less is pending.  Between the reading   *)
(* and the writing of the count the main thread may add one.                *)

CountRead ==
  /\ Doing("worker", "reporting")
  /\ updater' = [updater EXCEPT !["worker"].at = "counting", !["worker"].counted = pendingCount]
  /\ Files /\ Counts /\ UNCHANGED broken

CountWritten ==
  /\ Doing("worker", "counting")
  /\ pendingCount' = IF updater["worker"].counted = 0 THEN 0 ELSE updater["worker"].counted - 1
  /\ updater' = [updater EXCEPT !["worker"] = AtRest]
  /\ Files /\ UNCHANGED <<updates, finalState, updateCount, commandCount, broken>>

\* close(): shutdown(wait=True) lets every update that waits run.
CloseMemory ==
  /\ MainIsFree /\ finalState' = "closing"
  /\ Files /\ UNCHANGED <<updater, updates, pendingCount, updateCount, commandCount, broken>>

Closed ==
  /\ finalState = "closing" /\ updates = 0 /\ Doing("worker", "rest") /\ finalState' = "closed"
  /\ Files /\ UNCHANGED <<updater, updates, pendingCount, updateCount, commandCount, broken>>

\* The process dies and is started again.
MemoryDies ==
  /\ finalState # "closed"
  /\ updater' = [t \in Threads |-> AtRest] /\ updates' = 0 /\ pendingCount' = 0
  /\ finalState' = "open"
  /\ broken' = [raised |-> 0, index |-> broken.index \/ \E t \in Threads : updater[t].changed]
  /\ Files /\ UNCHANGED <<updateCount, commandCount>>

-----------------------------------------------------------------------------
UpdateStep(thread) ==
  \/ NoOperations(thread) \/ ModelAnswers(thread) \/ BadOperation(thread) \/ BadNote(thread)
  \/ \E s \in Scopes, n \in NoteId :
       \/ \E text \in NoteTexts : CreateNote(thread, s, n, text) \/ UpdateNote(thread, s, n, text)
       \/ DeleteNote(thread, s, n)
  \/ List(thread) \/ WriteIndex(thread) \/ RebuildFails(thread)

NotesNext ==
  \/ ScheduleUpdate \/ RunUpdate \/ UserCommand
  \/ \E thread \in Threads : UpdateStep(thread)
  \/ CountRead \/ CountWritten \/ CloseMemory \/ Closed \/ MemoryDies

NotesSpec == NotesInit /\ [][NotesNext]_noteVars

-----------------------------------------------------------------------------
NothingUnderWay == updates = 0 /\ \A t \in Threads : Doing(t, "rest")

(* When nothing is under way, the index lists the notes as they are, as many *)
(* as it has room for, and none is counted as pending but those whose update *)
(* raised (manager.py:85-108).  Excepted are an update that was broken off   *)
(* after it had changed a note, and a note changed by one thread while the   *)
(* other was rebuilding, until an index is written in peace.                 *)
NotesSettle ==
  NothingUnderWay =>
    /\ pendingCount <= broken.raised
    /\ ~ broken.index => index \in Render(Notes)
=============================================================================
