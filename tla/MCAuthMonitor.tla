--------------------------- MODULE MCAuthMonitor ---------------------------
(***************************************************************************)
(* Bounds for TLC: two logins and two Telegram users.  A challenge         *)
(* outlives the poll timeout by one tick, as 300 s outlive 120 s, and the  *)
(* clock reaches the timeout of every login.                               *)
(***************************************************************************)
EXTENDS AuthMonitor
=============================================================================
