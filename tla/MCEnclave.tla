------------------------------ MODULE MCEnclave ------------------------------
(***************************************************************************)
(* The enclave alone on a small instance: two identities and two digests   *)
(* so that the ticket can be presented for the wrong one, two concurrent   *)
(* callers that may present it at once, a clock long enough for it to be   *)
(* minted, to age and to expire, and one restart.  The cache treats every  *)
(* nonce on its own, so one ticket is enough.                              *)
(***************************************************************************)
EXTENDS Enclave, TLC

Symmetry == Permutations(Call) \cup Permutations(Key) \cup Permutations(Digest)
=============================================================================
