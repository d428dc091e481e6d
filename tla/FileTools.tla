----------------------------- MODULE FileTools -----------------------------
(* The file tools of one agent (tools/files.py) over a file that others      *)
(* change as well, with the cache of what was read (tools/base.py): an agent *)
(* reads in parallel and then writes, one call at a time (agent.py).         *)
(*                                                                           *)
(* A content is the number of its version: later ones are newer.  The cache  *)
(* knows a file by the time and the size that stat reports; the sizes are 0  *)
(* of the truncated file and 1 of any other.  Others are the user, other     *)
(* agents in the same tree, and a command that goes on after its timeout     *)
(* (tools/shell.py).  Left out: texts that are not UTF-8, arguments that are *)
(* refused, and the search for the text to be replaced.                      *)
EXTENDS Naturals

CONSTANTS
  Slot,         \* threads of a batch of reads
  MaxVersion    \* bound: versions of the file

VARIABLES
  disk,      \* the file: whether it exists, its version, its time and size
  cached,    \* the entry of the cache for the file, or NoEntry
  reader,    \* per thread where its read is, what it got, what there was when
             \* it began, and (history) whether the cache may have been wrong
  writer,    \* the call with side effects under way, and what it has read
  overread,  \* history: others changed the file between a read and its entry
  blurred    \* history: two versions within one tick of the clock

fileVars == <<disk, cached, reader, writer, overread, blurred>>

NoEntry == [key |-> <<>>, version |-> 0]
NoRead == [at |-> "idle", got |-> 0, since |-> 0, excused |-> FALSE]
NoWriter == [call |-> "none", base |-> 0]
Key == <<disk.time, disk.size>>

FilesInit ==
  /\ disk = [exists |-> TRUE, version |-> 1, time |-> 1, size |-> 1]
  /\ cached = NoEntry
  /\ reader = [s \in Slot |-> NoRead] /\ writer = NoWriter
  /\ overread = FALSE /\ blurred = FALSE

NoOneReads == \A s \in Slot : reader[s].at = "idle"

\* Mutant: a write does not wait for the reads of its answer.
BatchOverAtOnce == TRUE

\* execute_tool_batches leaves the pool when all reads of the answer are over.
BatchOver == NoOneReads

-----------------------------------------------------------------------------
(* Read *)

At(s, where, got) == reader' = [reader EXCEPT ![s].at = where, ![s].got = got]
ReadEnds(s) == reader' = [reader EXCEPT ![s] = NoRead]

\* FileReadCache.get
LookUp(s) ==
  /\ writer = NoWriter /\ disk.exists /\ reader[s].at = "idle"
  /\ reader' = [reader EXCEPT ![s] =
       IF cached.key = Key
       THEN [at |-> "done", got |-> cached.version, since |-> disk.version,
             excused |-> overread \/ blurred]
       ELSE [at |-> "missed", got |-> 0, since |-> disk.version, excused |-> FALSE]]
  /\ UNCHANGED <<disk, cached, writer, overread, blurred>>

ReadText(s) ==
  /\ reader[s].at = "missed"
  /\ IF disk.exists THEN At(s, "read", disk.version) ELSE ReadEnds(s)
  /\ UNCHANGED <<disk, cached, writer, overread, blurred>>

\* FileReadCache.put asks for the time and the size once more, after the text
\* was read; it keeps one entry for a file.
PutRead(s) ==
  /\ reader[s].at = "read"
  /\ IF disk.exists
     THEN /\ cached' = [key |-> Key, version |-> reader[s].got]
          /\ At(s, "done", reader[s].got)
     ELSE ReadEnds(s) /\ UNCHANGED cached
  /\ UNCHANGED <<disk, writer, overread, blurred>>

Answered(s) ==
  /\ reader[s].at = "done"
  /\ ReadEnds(s)
  /\ UNCHANGED <<disk, cached, writer, overread, blurred>>

-----------------------------------------------------------------------------
(* Changes: the clock may stand still.  What was put too late, or under the  *)
(* same time, is past with the next change that comes in a later tick.       *)

Change(size, time) ==
  /\ disk.version < MaxVersion
  /\ time \in {disk.time, disk.time + 1}
  /\ disk' = [exists |-> TRUE, version |-> disk.version + 1, time |-> time, size |-> size]

\* write_text truncates first: the rest follows within the same tick.
OpenForWriting(time) ==
  /\ Change(0, time)
  /\ writer' = [call |-> "fill", base |-> 0]
  /\ overread' = (overread /\ time = disk.time)
  /\ blurred' = (time = disk.time)

WriteFile ==
  /\ writer = NoWriter /\ BatchOver
  /\ \E time \in {disk.time, disk.time + 1} : OpenForWriting(time)
  /\ UNCHANGED <<cached, reader>>

\* Edit reads the file itself, not the cache.
EditReads ==
  /\ writer = NoWriter /\ BatchOver /\ disk.exists
  /\ writer' = [call |-> "edit", base |-> disk.version]
  /\ UNCHANGED <<disk, cached, reader, overread, blurred>>

EditWrites ==
  /\ writer.call = "edit"
  /\ \E time \in {disk.time, disk.time + 1} : OpenForWriting(time)
  /\ UNCHANGED <<cached, reader>>

Fill ==
  /\ writer.call = "fill"
  /\ Change(1, disk.time)
  /\ writer' = NoWriter
  /\ UNCHANGED <<cached, reader, overread, blurred>>

\* An error in the middle, or the end of the program.
WriteFails ==
  /\ writer.call = "fill"
  /\ writer' = NoWriter
  /\ UNCHANGED <<disk, cached, reader, overread, blurred>>

Overread == \E s \in Slot : reader[s].at = "read"

OthersWrite ==
  /\ \E time \in {disk.time, disk.time + 1} :
       /\ Change(1, time)
       /\ overread' = (Overread \/ (overread /\ time = disk.time))
       /\ blurred' = (time = disk.time)
  /\ UNCHANGED <<cached, reader, writer>>

OthersDelete ==
  /\ disk.exists
  /\ disk' = [disk EXCEPT !.exists = FALSE]
  /\ UNCHANGED <<cached, reader, writer, overread, blurred>>

FilesNext ==
  \/ WriteFile \/ EditReads \/ EditWrites \/ Fill \/ WriteFails
  \/ OthersWrite \/ OthersDelete
  \/ \E s \in Slot : LookUp(s) \/ ReadText(s) \/ PutRead(s) \/ Answered(s)

FilesSpec == FilesInit /\ [][FilesNext]_fileVars

-----------------------------------------------------------------------------
(* Properties *)

\* What a read returns was in the file while it ran, however reads, writes,
\* edits and the changes of others interleave; but for a change that came
\* between the text and its entry in the cache, or in the same tick of the
\* clock, and until the next one (tools/files.py:38-42, agent.py:637-700).
ReadsAreFresh ==
  \A s \in Slot : reader[s].at = "done" /\ ~ reader[s].excused =>
    reader[s].got >= reader[s].since

\* Not so: the same whatever others do.  The entry made from the old text has
\* the new time and size, and every later read gets it (tools/base.py:34-40).
ReadsAreAlwaysFresh ==
  ~ blurred => \A s \in Slot : reader[s].at = "done" => reader[s].got >= reader[s].since

\* Not so: an edit builds on what is in the file; what others wrote between
\* its read and its write is gone (tools/files.py:108-123).
EditsKeepOthers ==
  [][writer.call = "edit" /\ writer'.call = "fill" => writer.base = disk.version]_fileVars
=============================================================================
