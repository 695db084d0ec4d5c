--------------------------- MODULE MCBonitoReads ---------------------------
(***************************************************************************)
(* A small instance of BonitoReads for TLC: the pids of one server are     *)
(* also pids of the other, and one row names no blocked session.           *)
(***************************************************************************)
EXTENDS BonitoReads

CONSTANTS app, app2

Pair(of, blocking, blocked, mode) ==
  [of |-> of, blocking_pid |-> blocking, blocked_pid |-> blocked, lock_mode |-> mode]

Locks == {Pair(app, 1, 2, "relation"), Pair(app2, 1, 3, "tuple"), Pair(app2, 3, 0, "relation")}
=============================================================================
