----------------------------- MODULE MCFileLock -----------------------------
(* One thread of a process that can die, two of another. *)
EXTENDS FileLock
CONSTANTS a, b, c, p, q
ProcessOf == [t \in Thread |-> IF t = a THEN p ELSE q]
=============================================================================
