--------------------------- MODULE CustodyProofs ---------------------------
(***************************************************************************)
(* The tables and signatures of the API implement IdentityCustody, in both *)
(* signer modes and for any number of identities, keys and requests.       *)
(*                                                                         *)
(* Eight actions write a table or record a signature; StoreEffect says so. *)
(* SignerInv, which they preserve, says that every copy of a key is the    *)
(* one generated for the identity; what is missing is that no two          *)
(* identities were given the same key (KeysOwned).                         *)
(***************************************************************************)
EXTENDS SignerProofs

\* Keys are generated once, and for one identity.
KeysOwned ==
    /\ \A i \in Identity : keyOf[i] # None => keyOf[i] \in born
    /\ \A i, j \in Identity : keyOf[i] # None /\ keyOf[i] = keyOf[j] => i = j

-----------------------------------------------------------------------------
\* What the steps of the system do to keys and stores.

Untouched == UNCHANGED <<row, backup, sigs>>
KeysUntouched == UNCHANGED <<keyOf, born>>

\* The actions that generate a key.
Creates(r) ==
    \E u \in User, i \in Identity :
        (\E k \in Key : CreateWorker(r, u, i, k)) \/ CreateEnclave(r, u, i)

\* The actions that write a table or record a signature.
Stores(r) ==
    \/ PutBackup(r) \/ ReadExported(r) \/ DeleteBackup(r)
    \/ Insert(r) \/ MarkDestroyed(r)
    \/ BackupSign(r) \/ ReadSignature(r)
    \/ \E n \in Nonce, d \in Digest : BatchTicket(r, n, d)

\* Starting a request.
LEMMA StartEffect ==
    ASSUME NEW r \in Call, Start(r)
    PROVE  Untouched /\ (KeysUntouched \/ Creates(r))
  <1> USE DEF Untouched, KeysUntouched
  <1>1. PICK u \in User, i \in Identity :
            \/ (\E k \in Key : CreateWorker(r, u, i, k)) \/ CreateEnclave(r, u, i)
            \/ StartRestore(r, u, i) \/ StartAdopt(r, u, i)
            \/ StartBatch(r, u, i) \/ StartDestroy(r, u, i)
            \/ (\E d \in Digest : StartIntent(r, u, i, d))
            \/ \E d \in Digest, n \in Nonce : StartSign(r, u, i, d, n)
    BY DEF Start
  <1>2. CASE (\E k \in Key : CreateWorker(r, u, i, k)) \/ CreateEnclave(r, u, i)
    <2>1. Untouched
      BY <1>2 DEF CreateWorker, CreateEnclave, stores
    <2>2. Creates(r)
      BY <1>2 DEF Creates
    <2> QED BY <2>1, <2>2
  <1>3. CASE \/ StartRestore(r, u, i) \/ StartAdopt(r, u, i)
             \/ StartBatch(r, u, i) \/ StartDestroy(r, u, i)
    BY <1>3 DEF StartRestore, StartAdopt, StartBatch, StartDestroy, stores, history,
                enclaveVars
  <1>4. CASE \/ \E d \in Digest : StartIntent(r, u, i, d)
             \/ \E d \in Digest, n \in Nonce : StartSign(r, u, i, d, n)
    BY <1>4 DEF StartIntent, StartSign, stores, history, enclaveVars
  <1> QED BY <1>1, <1>2, <1>3, <1>4

\* A running request.
LEMMA StepEffect ==
    ASSUME NEW r \in Call, Step(r)
    PROVE  KeysUntouched /\ (Untouched \/ Stores(r))
  <1> USE DEF Untouched, KeysUntouched
  <1>1. CASE HandlerFinish(r) /\ UNCHANGED apiVars
    BY <1>1 DEF apiVars, HandlerFinish, SignVerify, ExportSealed, ImportSet
  <1>2. CASE ReadGenerated(r) \/ BackupMissing(r) \/ BackupImport(r)
    BY <1>2 DEF ReadGenerated, BackupMissing, BackupImport, ExportRead, ImportStart,
                stores, history, enclaveVars, enclaveRest
  <1>3. CASE ReadImported(r)
    BY <1>3 DEF ReadImported, SignLookup, Destroy, stores, history, enclaveRest
  <1>4. CASE BackupCheckFormat(r) \/ BackupCapture(r) \/ \E n \in Nonce : MintTicket(r, n)
    BY <1>4 DEF BackupCheckFormat, BackupCapture, MintTicket, stores, history, enclaveVars
  <1>5. CASE CheckTicket(r) \/ TicketStoreError(r) \/ CallSign(r) \/ MarkUsed(r)
    BY <1>5 DEF CheckTicket, TicketStoreError, CallSign, SignLookup, MarkUsed, stores,
                history, enclaveVars
  <1>6. CASE CallDestroy(r) \/ ReadDestroyed(r) \/ AddAuditEvent(r)
    BY <1>6 DEF CallDestroy, ReadDestroyed, AddAuditEvent, Destroy, stores, history,
                enclaveVars, enclaveRest
  <1>7. CASE Stores(r)
    <2>1. PutBackup(r) \/ ReadExported(r) \/ DeleteBackup(r) => KeysUntouched
      BY DEF PutBackup, ReadExported, DeleteBackup, history, enclaveVars, enclaveRest
    <2>2. Insert(r) \/ MarkDestroyed(r) => KeysUntouched
      BY DEF Insert, MarkDestroyed, history, enclaveVars
    <2>3. \/ BackupSign(r) \/ ReadSignature(r)
          \/ \E n \in Nonce, d \in Digest : BatchTicket(r, n, d)
          => KeysUntouched
      BY DEF BackupSign, ReadSignature, BatchTicket, enclaveVars, enclaveRest
    <2>4. KeysUntouched
      BY <1>7, <2>1, <2>2, <2>3 DEF Stores
    <2> QED BY <1>7, <2>4
  <1> QED BY <1>1, <1>2, <1>3, <1>4, <1>5, <1>6, <1>7 DEF Step, Stores

\* Any step.
LEMMA StoreEffect ==
    ASSUME [SignerNext]_signerVars
    PROVE  \/ Untouched /\ KeysUntouched
           \/ \E r \in Call : \/ Untouched /\ Creates(r)
                              \/ KeysUntouched /\ Stores(r)
  <1>1. CASE (Tick /\ UNCHANGED apiVars) \/ EnclaveRestart
    BY <1>1 DEF Tick, Restart, EnclaveRestart, apiVars, Untouched, KeysUntouched
  <1>2. CASE \E n \in Nonce : KvExpire(n)
    BY <1>2 DEF KvExpire, enclaveVars, history, Untouched, KeysUntouched
  <1>3. CASE \E r \in Call : Start(r) \/ Step(r)
    BY <1>3, StartEffect, StepEffect
  <1>4. CASE \E r \in Call : Crash(r)
    BY <1>4 DEF Crash, enclaveRest, stores, Untouched, KeysUntouched
  <1>5. CASE UNCHANGED signerVars
    BY <1>5 DEF signerVars, apiVars, enclaveVars, Untouched, KeysUntouched
  <1> QED BY <1>1, <1>2, <1>3, <1>4, <1>5 DEF SignerNext

-----------------------------------------------------------------------------
\* No two identities have the same key.
LEMMA KeysOwnedInit == SignerInit => KeysOwned
  BY SignerAssumption, EnclaveAssumption DEF SignerInit, KeysOwned

LEMMA KeysOwnedNext ==
    ASSUME SignerInv, KeysOwned, [SignerNext]_signerVars PROVE KeysOwned'
  <1>0. keyOf \in [Identity -> Key \cup {None}] /\ EnclaveTypeOK
    BY DEF SignerInv, SignerTypeOK
  <1>1. CASE KeysUntouched
    BY <1>1 DEF KeysUntouched, KeysOwned
  <1>2. ASSUME NEW r \in Call, NEW u \in User, NEW i \in Identity, NEW k \in Key,
               CreateWorker(r, u, i, k)
        PROVE  KeysOwned'
    BY <1>0, <1>2 DEF CreateWorker, KeysOwned
  <1>3. ASSUME NEW r \in Call, NEW u \in User, NEW i \in Identity, CreateEnclave(r, u, i)
        PROVE  KeysOwned'
    <2>1. keysByIdentityId[i] = None
      BY <1>3 DEF CreateEnclave, SignerInv, KeysAgree
    <2>2. PICK k \in Key \ born : born' = born \cup {k} /\ call'[r].key = k
      BY <1>0, <1>3, <2>1 DEF CreateEnclave, Generate, Reply, EnclaveTypeOK
    <2>3. keyOf' = [keyOf EXCEPT ![i] = k] /\ keyOf[i] = None
      BY <1>3, <2>2 DEF CreateEnclave
    <2> QED BY <1>0, <2>2, <2>3 DEF KeysOwned
  <1> QED BY <1>1, <1>2, <1>3, StoreEffect DEF Creates

\* KeysOwned holds in every reachable state.
THEOREM KeysStayOwned == SignerSpec => []KeysOwned
  <1>1. SignerInv /\ KeysOwned /\ [SignerNext]_signerVars => KeysOwned'
    BY KeysOwnedNext
  <1> QED BY KeysOwnedInit, <1>1, SignerInvariance, PTL DEF SignerSpec

-----------------------------------------------------------------------------
\* The refinement.

\* The vault of IdentityCustody, in the terms of the tables.
Vault == [i \in Identity |-> IF backup[i] = None THEN None ELSE backup[i].key]

LEMMA CustodyInitRefined == SignerInit => Custody!CustodyInit
  <1> SUFFICES ASSUME SignerInit PROVE Custody!CustodyInit
    OBVIOUS
  <1>1. \A i \in Identity : backup[i] = IF i \in imported
            THEN [key |-> MigratedKey[i], fmt |-> "enclave"] ELSE None
    BY DEF SignerInit
  <1>2. \A i \in imported : [key |-> MigratedKey[i], fmt |-> "enclave"] # None
    <2>1. ASSUME NEW i \in imported
          PROVE  [key |-> MigratedKey[i], fmt |-> "enclave"] \in Sealed
      BY SignerAssumption DEF SignerInit, Sealed
    <2> QED BY <2>1, SignerAssumption
  <1>3. \A i \in Identity : Vault[i] = IF i \in imported THEN MigratedKey[i] ELSE None
    <2> TAKE i \in Identity
    <2>1. CASE i \in imported
      <3>1. backup[i] = [key |-> MigratedKey[i], fmt |-> "enclave"]
        BY <1>1, <2>1
      <3>2. backup[i] # None
        BY <1>2, <2>1, <3>1
      <3>3. Vault[i] = backup[i].key
        BY <3>2 DEF Vault
      <3> QED BY <2>1, <3>1, <3>3
    <2>2. CASE i \notin imported
      BY <1>1, <2>2 DEF Vault
    <2> QED BY <2>1, <2>2
  <1>4. Vault \in [Identity -> Key \cup {None}]
    BY <1>3, SignerAssumption DEF Vault, SignerInit
  <1>5. ASSUME NEW i \in Identity, Vault[i] # None, NEW j \in Identity \ {i}
        PROVE  Vault[j] # Vault[i] /\ row[j].pk # Vault[i]
    BY <1>3, <1>5, SignerAssumption, EnclaveAssumption DEF SignerInit, NoRow
  <1> QED BY <1>4, <1>5 DEF Custody!CustodyInit, Custody!OwnKey, Custody!NoAccount, Vault,
                            SignerInit, NoRow

\* The actions of IdentityCustody.
LEMMA CustodyActions ==
    ASSUME NEW i \in Identity,
           \/ \E k \in Key : Custody!Deposit(i, k)
           \/ \E u \in User : Custody!Open(i, u)
           \/ Custody!Sign(i) \/ Custody!Close(i) \/ Custody!Erase(i)
    PROVE  Custody!CustodyNext
  BY DEF Custody!CustodyNext

\* What SignerInv and KeysOwned say of the vault.
LEMMA VaultKeys ==
    ASSUME SignerInv, KeysOwned, NEW i \in Identity
    PROVE  /\ Vault[i] = IF backup[i] = None THEN None ELSE keyOf[i]
           /\ backup[i] # None => keyOf[i] \in Key
           /\ row[i] # NoRow => row[i].pk = keyOf[i] /\ keyOf[i] \in Key
           /\ keyOf[i] # None => Custody!OwnKey(i, keyOf[i])
  <1>1. \A j \in Identity :
            /\ keyOf[j] \in Key \cup {None}
            /\ backup[j] # None => backup[j] \in Sealed /\ backup[j].key = keyOf[j]
            /\ row[j] \in Row \cup {NoRow}
            /\ row[j] # NoRow => row[j].pk = keyOf[j]
    BY DEF SignerInv, SignerTypeOK, KeysAgree
  <1>2. \A j \in Identity : Vault[j] = IF backup[j] = None THEN None ELSE keyOf[j]
    BY <1>1 DEF Vault
  <1>3. /\ backup[i] # None => keyOf[i] \in Key
        /\ row[i] # NoRow => row[i].pk = keyOf[i] /\ keyOf[i] \in Key
    BY <1>1 DEF Sealed, Row
  <1>4. ASSUME keyOf[i] # None, NEW j \in Identity \ {i}
        PROVE  Vault[j] # keyOf[i] /\ row[j].pk # keyOf[i]
    BY <1>1, <1>2, <1>4 DEF KeysOwned, NoRow
  <1> QED BY <1>2, <1>3, <1>4 DEF Custody!OwnKey, Vault

\* Storing a sealed key is a deposit.
LEMMA BackupRefined ==
    ASSUME SignerInv, KeysOwned, NEW i \in Identity, NEW b \in Sealed,
           NEW k \in Key,
           row[i] = NoRow, k = keyOf[i], b.key = k,
           backup' = [backup EXCEPT ![i] = b], UNCHANGED <<row, sigs>>
    PROVE  Custody!Deposit(i, k)
  <1>1. /\ Vault[i] \in {None, k}
        /\ Custody!OwnKey(i, k)
    BY VaultKeys, EnclaveAssumption
  <1>2. b # None /\ backup \in [Identity -> Sealed \cup {None}]
    BY SignerAssumption DEF SignerInv, SignerTypeOK
  <1>3. Vault' = [Vault EXCEPT ![i] = k]
    BY <1>2 DEF Vault
  <1> QED BY <1>1, <1>3 DEF Custody!Deposit, Custody!NoAccount, NoRow, Vault

\* A signature is recorded for a row, with its key.
LEMMA SignRefined ==
    ASSUME SignerInv, NEW i \in Identity, row[i] # NoRow,
           sigs' = sigs \cup {<<i, keyOf[i]>>}, UNCHANGED <<row, backup>>
    PROVE  Custody!Sign(i)
  BY DEF Custody!Sign, Custody!NoAccount, SignerInv, KeysAgree, NoRow

\* putBackup, in both modes.
LEMMA PutBackupRefined ==
    ASSUME SignerInv, KeysOwned, NEW r \in Call, PutBackup(r) \/ ReadExported(r)
    PROVE  [Custody!CustodyNext]_Custody!custodyVars
  <1>1. req[r].pc \in {"putBackup", "exporting"}
    BY DEF PutBackup, ReadExported, At
  <1>2. req[r] # Idle /\ req[r].op = "create" /\ req[r].id \in Identity
    BY <1>1, OpAt DEF Idle, Request
  <1> PICK i \in Identity : i = req[r].id
    BY <1>2
  <1>3. row[i] = NoRow /\ keyOf[i] \in Key
    BY <1>1, <1>2 DEF SignerInv, SignerTypeOK, RequestInv, RequestOrdered
  <1>4. ASSUME NEW b \in Sealed, b.key = keyOf[i],
               backup' = [backup EXCEPT ![i] = b], UNCHANGED <<row, sigs>>
        PROVE  Custody!CustodyNext
    <2> PICK k \in Key : k = keyOf[i]
      BY <1>3
    <2>1. Custody!Deposit(i, k)
      BY <1>3, <1>4, BackupRefined
    <2> QED BY <2>1, CustodyActions
  <1>5. CASE PutBackup(r)
    <2> DEFINE b == [key |-> req[r].key, fmt |-> "worker"]
    <2>1. req[r].key \in Key /\ req[r].key = keyOf[i]
      BY <1>2, EnclaveAssumption DEF SignerInv, RequestInv, RequestTyped, KeyHeld
    <2>2. b \in Sealed /\ b.key = keyOf[i]
      BY <2>1 DEF Sealed
    <2>3. backup' = [backup EXCEPT ![i] = b] /\ UNCHANGED <<row, sigs>>
      BY <1>5 DEF PutBackup, history
    <2> HIDE DEF b
    <2> QED BY <1>4, <2>2, <2>3
  <1>6. CASE ReadExported(r) /\ ~Answered(r, 200)
    BY <1>6 DEF ReadExported, history, Custody!custodyVars
  <1>7. CASE ReadExported(r) /\ Answered(r, 200)
    <2> DEFINE b == [key |-> call[r].key, fmt |-> "enclave"]
    <2>1. call[r].key = keyOf[i]
      BY <1>7 DEF ReadExported, At, SignerInv, RequestInv, KeyHeld
    <2>2. b \in Sealed /\ b.key = keyOf[i]
      BY <1>3, <2>1 DEF Sealed
    <2>3. backup' = [backup EXCEPT ![i] = b] /\ UNCHANGED <<row, sigs>>
      BY <1>7 DEF ReadExported, history
    <2> HIDE DEF b
    <2> QED BY <1>4, <2>2, <2>3
  <1> QED BY <1>5, <1>6, <1>7

\* createIdentity, when it does not fail.
LEMMA InsertRefined ==
    ASSUME SignerInv, KeysOwned, NEW r \in Call, Insert(r)
    PROVE  [Custody!CustodyNext]_Custody!custodyVars
  <1> DEFINE i == req[r].id
  <1>0. At(r, "insert") /\ UNCHANGED <<backup, sigs>>
    BY DEF Insert, history
  <1>1. req[r] # Idle /\ req[r].op \in {"create", "adopt"}
    BY <1>0, OpAt DEF At, Idle
  <1>2. i \in Identity /\ req[r].user \in User
    BY <1>1, OpAt DEF Request
  <1>3. req[r].key \in Key /\ req[r].key = keyOf[i]
    BY <1>1, EnclaveAssumption DEF SignerInv, RequestInv, RequestTyped, KeyHeld
  <1>4. CASE UNCHANGED row
    BY <1>0, <1>4 DEF Custody!custodyVars
  <1>5. CASE /\ row[i] = NoRow
             /\ row' = [row EXCEPT ![i] =
                          [status |-> "active", owner |-> req[r].user, pk |-> req[r].key]]
    <2>1. backup[i] # None
      BY <1>0, <1>1, <1>5 DEF At, SignerInv, RequestInv, RequestOrdered
    <2>2. Vault[i] = req[r].key /\ Vault[i] # None
      BY <1>2, <1>3, <2>1, VaultKeys, EnclaveAssumption
    <2>3. Custody!Open(i, req[r].user)
      BY <1>0, <1>5, <2>2 DEF Custody!Open, Custody!NoAccount, NoRow, Vault
    <2> QED BY <1>2, <2>3 DEF Custody!CustodyNext
  <1> QED BY <1>4, <1>5 DEF Insert

\* markIdentityDestroyed and deleteBackup.
LEMMA DestroyRefined ==
    ASSUME SignerInv, KeysOwned, NEW r \in Call, MarkDestroyed(r) \/ DeleteBackup(r)
    PROVE  [Custody!CustodyNext]_Custody!custodyVars
  <1>1. req[r].pc \in {"markRow", "delBackup"}
    BY DEF MarkDestroyed, DeleteBackup, At
  <1>2. req[r] # Idle /\ req[r].op = "destroy" /\ req[r].id \in Identity
    BY <1>1, OpAt DEF Idle, Request
  <1> PICK i \in Identity : i = req[r].id
    BY <1>2
  <1>3. CASE MarkDestroyed(r)
    <2>1. row[i] \in Row
      BY <1>2 DEF SignerInv, SignerTypeOK, RequestInv, RequestOrdered
    <2>2. row' = [row EXCEPT ![i].status = "destroyed"] /\ UNCHANGED <<backup, sigs>>
      BY <1>3 DEF MarkDestroyed, history
    <2>3. CASE row[i].status = "active"
      <3>1. Custody!Close(i)
        BY <2>2, <2>3 DEF Custody!Close
      <3> QED BY <1>2, <3>1 DEF Custody!CustodyNext
    <2>4. CASE row[i].status = "destroyed"
      <3>1. UNCHANGED <<row, backup, sigs>>
        BY <1>2, <2>1, <2>2, <2>4 DEF Row, SignerInv, SignerTypeOK
      <3> QED BY <3>1 DEF Custody!custodyVars
    <2> QED BY <2>1, <2>3, <2>4 DEF Row
  <1>4. CASE DeleteBackup(r)
    <2>1. row[i].status = "destroyed"
      BY <1>4 DEF DeleteBackup, At, SignerInv, RequestInv, RequestOrdered
    <2>2. backup' = [backup EXCEPT ![i] = None] /\ UNCHANGED <<row, sigs>>
      BY <1>4 DEF DeleteBackup, history
    <2>3. Vault' = [Vault EXCEPT ![i] = None]
      BY <1>2, <2>2 DEF Vault, SignerInv, SignerTypeOK
    <2>4. Custody!Erase(i)
      BY <2>1, <2>2, <2>3 DEF Custody!Erase, Vault
    <2> QED BY <1>2, <2>4, CustodyActions
  <1> QED BY <1>3, <1>4

\* The three places where the API comes by a signature.
LEMMA SignaturesRefined ==
    ASSUME SignerInv, KeysOwned, NEW r \in Call,
           \/ BackupSign(r) \/ ReadSignature(r)
           \/ \E n \in Nonce, d \in Digest : BatchTicket(r, n, d)
    PROVE  [Custody!CustodyNext]_Custody!custodyVars
  <1> DEFINE i == req[r].id
  <1>0. UNCHANGED <<row, backup>>
    BY DEF BackupSign, ReadSignature, BatchTicket, stores
  <1>1. req[r].pc \in {"getBackup", "signing", "ticket"}
        /\ (BackupSign(r) => req[r].op = "sign")
        /\ (~BackupSign(r) => req[r].pc # "getBackup")
    BY DEF BackupSign, ReadSignature, BatchTicket, At
  <1>2. req[r] # Idle /\ req[r].op \in {"sign", "batch"} /\ i \in Identity
    BY <1>1, OpAt DEF Idle, Request
  <1>3. row[i] # NoRow /\ keyOf[i] \in Key
    BY <1>2, VaultKeys DEF SignerInv, RequestInv, RequestOrdered
  <1>4. ASSUME sigs' = sigs \cup {<<i, keyOf[i]>>}
        PROVE  Custody!CustodyNext
    BY <1>0, <1>2, <1>3, <1>4, SignRefined DEF Custody!CustodyNext
  <1>5. CASE UNCHANGED sigs
    BY <1>0, <1>5 DEF Custody!custodyVars
  <1>6. CASE BackupSign(r) /\ Obtain(r, req[r].nonce, backup[i].key)
    BY <1>2, <1>4, <1>6 DEF BackupSign, Obtain, SignerInv, KeysAgree
  <1>7. CASE ReadSignature(r) /\ Answered(r, 200) /\ Obtain(r, req[r].nonce, call[r].key)
    BY <1>4, <1>7 DEF ReadSignature, At, Obtain, SignerInv, RequestInv, KeyHeld
  <1>8. ASSUME NEW n \in Nonce, NEW d \in Digest, BatchTicket(r, n, d), Mode = "worker",
               Obtain(r, n, req[r].key)
        PROVE  Custody!CustodyNext
    <2>1. req[r].op = "batch" /\ req[r].pc = "ticket"
      BY <1>2, <1>8, OpAt DEF BatchTicket, At
    <2>2. req[r].key = keyOf[i]
      BY <1>8, <2>1, EnclaveAssumption DEF SignerInv, RequestInv, RequestTyped, KeyHeld
    <2> QED BY <1>4, <1>8, <2>2 DEF Obtain
  <1> QED BY <1>5, <1>6, <1>7, <1>8 DEF BackupSign, ReadSignature, BatchTicket

\* A step of the API is a step of IdentityCustody or leaves it unchanged.
LEMMA CustodyStepRefined ==
    ASSUME SignerInv, KeysOwned, [SignerNext]_signerVars
    PROVE  [Custody!CustodyNext]_Custody!custodyVars
  <1>1. CASE Untouched
    BY <1>1 DEF Untouched, Custody!custodyVars
  <1>2. ASSUME NEW r \in Call, Stores(r) PROVE [Custody!CustodyNext]_Custody!custodyVars
    BY <1>2, PutBackupRefined, InsertRefined, DestroyRefined, SignaturesRefined DEF Stores
  <1> QED BY <1>1, <1>2, StoreEffect

\* Whatever handlers interleave and die half-way over its tables, and in both
\* signer modes, the API keeps an identity's key from before its row is active
\* until after it is destroyed, gives it to no other identity, and signs with no
\* other.
THEOREM SignerRefinesCustody == SignerSpec => ImplementsCustody
  <1>1. SignerInv /\ KeysOwned /\ [SignerNext]_signerVars
            => [Custody!CustodyNext]_Custody!custodyVars
    BY CustodyStepRefined
  <1> QED BY CustodyInitRefined, <1>1, SignerInvariance, KeysStayOwned, PTL
          DEF SignerSpec, ImplementsCustody, Custody!CustodySpec
=============================================================================
