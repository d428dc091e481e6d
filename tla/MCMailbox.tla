----------------------------- MODULE MCMailbox -----------------------------
(***************************************************************************)
(* Mailbox for TLC.  Mailboxes, messages and threads are interchangeable,  *)
(* and the promise is a safety property: symmetry is sound for it.         *)
(***************************************************************************)
EXTENDS Mailbox, TLC

Symmetry == Permutations(Box) \cup Permutations(Msg) \cup Permutations(Worker)
=============================================================================
