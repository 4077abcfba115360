------------------------------- MODULE MCAuth -------------------------------
(***************************************************************************)
(* Bounds for TLC: two clients that poll two challenges for two Telegram   *)
(* users, so that first logins of one user, and of two, race.              *)
(***************************************************************************)
EXTENDS Auth, TLC

AuthSymmetry == Permutations(Challenge) \cup Permutations(Telegram)
                \cup Permutations(UserId) \cup Permutations(Client)
=============================================================================
