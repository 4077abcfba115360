------------------------------ MODULE MCSigner ------------------------------
(***************************************************************************)
(* The API and the enclave on small instances; one .cfg per question.      *)
(***************************************************************************)
EXTENDS SignerInvariant, TLC

CONSTANTS i1, k1

NoMigrated == {}
NoMigratedKey == [i \in {} |-> None]
OneMigrated == {i1}
OneMigratedKey == [i \in {i1} |-> k1]

Symmetry == Permutations(Call)
=============================================================================
