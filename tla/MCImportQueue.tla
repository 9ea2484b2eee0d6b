---------------------------- MODULE MCImportQueue ----------------------------
(***************************************************************************)
(* A small instance of ImportQueue: two tasks, and a message that is none. *)
(***************************************************************************)
EXTENDS ImportQueue

CONSTANTS t1, t2, garbage

MCTasks   == {t1, t2, garbage}
MCGarbled == {garbage}
=============================================================================
