---------------------------- MODULE TicketProofs ----------------------------
(***************************************************************************)
(* Theorems about tickets in the composed service, the API and the         *)
(* enclave: how many signatures the API obtains with a ticket, for any     *)
(* number of tickets, requests and restarts.                               *)
(*                                                                         *)
(* Most steps of the API are of no interest to tickets; TicketEffect says    *)
(* what the others do, and the invariants are proved from that alone.      *)
(***************************************************************************)
EXTENDS SignerProofs, FiniteSetTheorems

\* Requests that are about to read a signature made with the ticket n.
Unread(n) ==
    {r \in Call : req[r].pc = "signing" /\ Answered(r, 200) /\ req[r].nonce = n}

\* Every signature the API has obtained, or is about to read, is one the enclave
\* has counted since its last restart, or one of those before that.
Counted(n) ==
    /\ IsFiniteSet(Unread(n))
    /\ signed[n] + Cardinality(Unread(n)) <= uses[n] + restarts

SignaturesCounted == \A n \in Nonce : Counted(n)

\* The invariant behind the theorems below.
TicketInv == CacheInv /\ (Mode = "enclave" => SignaturesCounted)

-----------------------------------------------------------------------------
\* What the steps of the system do to tickets.

\* A step of request r that neither mints, signs nor reads a signature.
TicketQuiet(r) ==
    /\ UNCHANGED <<now, restarts, claims, uses>>
    /\ nonceReplayCache' \in {nonceReplayCache, pruneReplayCache}
    /\ Mode = "enclave" => UNCHANGED signed
    /\ \A p \in Call \ {r} : req'[p] = req[p] /\ call'[p] = call[p]
    /\ ~(req'[r].pc = "signing" /\ Answered(r, 200)')

\* A step of request r that mints the ticket n.
TicketMinted(r, n) ==
    /\ \E i \in Identity, d \in Digest : Mint(n, i, d)
    /\ UNCHANGED <<now, restarts, keysByIdentityId, nonceReplayCache, call, born, uses>>
    /\ Mode = "enclave" => UNCHANGED signed
    /\ \A p \in Call \ {r} : req'[p] = req[p]
    /\ req'[r].pc # "signing"

\* A step of request r that reads a signature.
SignatureRead(r) ==
    /\ UNCHANGED enclaveRest
    /\ req[r].pc = "signing" /\ Answered(r, 200) /\ req[r].nonce \in Nonce
    /\ signed' = [signed EXCEPT ![req[r].nonce] = IF @ < MaxSigned THEN @ + 1 ELSE @]
    /\ \A p \in Call \ {r} : req'[p] = req[p] /\ call'[p] = call[p]
    /\ req'[r].pc = "mark"

\* A step of the enclave or of the clock.
EnclaveSide ==
    /\ Tick \/ Restart \/ \E c \in Call : HandlerFinish(c)
    /\ UNCHANGED <<req, signed>>

\* Anything else.
TicketStutter == UNCHANGED <<enclaveRest, call, req, signed>>

\* Starting a request does not touch tickets.
LEMMA StartQuiet ==
    ASSUME SignerInv, NEW r \in Call, Start(r)
    PROVE  TicketQuiet(r)
  <1> USE DEF SignerInv, SignerTypeOK, TicketQuiet
  <1>1. PICK u \in User, i \in Identity :
            \/ (\E k \in Key : CreateWorker(r, u, i, k)) \/ CreateEnclave(r, u, i)
            \/ StartRestore(r, u, i) \/ StartAdopt(r, u, i)
            \/ StartBatch(r, u, i) \/ StartDestroy(r, u, i)
            \/ (\E d \in Digest : StartIntent(r, u, i, d))
            \/ \E d \in Digest, n \in Nonce : StartSign(r, u, i, d, n)
    BY DEF Start
  <1>2. CASE (\E k \in Key : CreateWorker(r, u, i, k)) \/ CreateEnclave(r, u, i)
    BY <1>2 DEF CreateWorker, CreateEnclave, Generate, NewRequest, EnclaveTypeOK
  <1>3. CASE StartRestore(r, u, i) \/ StartAdopt(r, u, i)
    BY <1>3 DEF StartRestore, StartAdopt, NewRequest, enclaveVars, history
  <1>4. CASE StartBatch(r, u, i) \/ StartDestroy(r, u, i)
    BY <1>4 DEF StartBatch, StartDestroy, NewRequest, enclaveVars, history
  <1>5. CASE \/ (\E d \in Digest : StartIntent(r, u, i, d))
             \/ \E d \in Digest, n \in Nonce : StartSign(r, u, i, d, n)
    BY <1>5 DEF StartIntent, StartSign, NewRequest, enclaveVars, history
  <1> QED BY <1>1, <1>2, <1>3, <1>4, <1>5

\* Most steps of a running request do not touch tickets.
LEMMA StepQuiet ==
    ASSUME SignerInv, NEW r \in Call, Step(r)
    PROVE  \/ EnclaveSide
           \/ TicketQuiet(r)
           \/ \E n \in Nonce : TicketMinted(r, n)
           \/ SignatureRead(r)
  <1> USE DEF SignerInv, SignerTypeOK, TicketQuiet, stores, history
  <1>1. CASE HandlerFinish(r) /\ UNCHANGED apiVars
    BY <1>1 DEF EnclaveSide, apiVars
  <1>2. CASE ReadGenerated(r) \/ ReadExported(r)
    <2>1. \A p \in Call \ {r} : req'[p] = req[p] /\ call'[p] = call[p]
      BY <1>2 DEF ReadGenerated, ReadExported, ExportRead, DropReply, End, Goto, EnclaveTypeOK
    <2>2. req'[r].pc # "signing"
      BY <1>2 DEF ReadGenerated, ReadExported, End, Goto, Idle, Request
    <2> QED BY <1>2, <2>1, <2>2 DEF ReadGenerated, ReadExported, ExportRead, enclaveRest
  <1>3. CASE PutBackup(r) \/ Insert(r) \/ BackupMissing(r)
    <2>1. \A p \in Call \ {r} : req'[p] = req[p] /\ call'[p] = call[p]
      BY <1>3 DEF PutBackup, Insert, BackupMissing, End, Goto, enclaveVars
    <2>2. req'[r].pc # "signing"
      BY <1>3 DEF PutBackup, Insert, BackupMissing, End, Goto, Idle, Request
    <2> QED BY <1>3, <2>1, <2>2 DEF PutBackup, Insert, BackupMissing, enclaveVars
  <1>4. CASE BackupImport(r) \/ ReadImported(r)
    <2>1. \A p \in Call \ {r} : req'[p] = req[p] /\ call'[p] = call[p]
      BY <1>4 DEF BackupImport, ReadImported, ImportStart, SignLookup, Destroy, DropReply, End,
                  Goto, EnclaveTypeOK
    <2>2. ~(req'[r].pc = "signing" /\ Answered(r, 200)')
      <3>1. CASE BackupImport(r)
        BY <3>1 DEF BackupImport, Goto, Request
      <3>2. CASE SignLookup(r, req[r].id, req[r].digest, req[r].nonce)
        BY <3>2 DEF SignLookup, Answered, Reply, Handler, EnclaveTypeOK
      <3>3. CASE ReadImported(r) /\ ~SignLookup(r, req[r].id, req[r].digest, req[r].nonce)
        BY <3>3 DEF ReadImported, End, Goto, Idle, Request
      <3> QED BY <1>4, <3>1, <3>2, <3>3
    <2>3. /\ UNCHANGED <<now, restarts, claims, uses, signed>>
          /\ nonceReplayCache' \in {nonceReplayCache, pruneReplayCache}
      BY <1>4 DEF BackupImport, ReadImported, ImportStart, SignLookup, Destroy, enclaveRest
    <2> QED BY <2>1, <2>2, <2>3
  <1>5. CASE BackupCheckFormat(r) \/ BackupSign(r) \/ BackupCapture(r)
    <2>1. \A p \in Call \ {r} : req'[p] = req[p] /\ call'[p] = call[p]
      BY <1>5 DEF BackupCheckFormat, BackupSign, BackupCapture, End, Goto, enclaveVars
    <2>2. req'[r].pc # "signing"
      BY <1>5 DEF BackupCheckFormat, BackupSign, BackupCapture, End, Goto, Idle, Request
    <2>3. /\ UNCHANGED <<now, restarts, claims, uses, nonceReplayCache>>
          /\ Mode = "enclave" => UNCHANGED signed
      BY <1>5 DEF BackupCheckFormat, BackupSign, BackupCapture, enclaveVars
    <2> QED BY <2>1, <2>2, <2>3
  <1>6. CASE (\E n \in Nonce : MintTicket(r, n)) \/ \E n \in Nonce, d \in Digest : BatchTicket(r, n, d)
    <2>1. PICK n \in Nonce : MintTicket(r, n) \/ \E d \in Digest : BatchTicket(r, n, d)
      BY <1>6
    <2>2. /\ req[r] \in Request /\ req[r].id \in Identity
          /\ req[r].pc = "mint" => req[r].digest \in Digest
      <3>0. req[r].pc \in {"mint", "ticket"}
        <4>1. CASE MintTicket(r, n)
          BY <4>1 DEF MintTicket, At
        <4>2. CASE \E d \in Digest : BatchTicket(r, n, d)
          BY <4>2 DEF BatchTicket, At
        <4> QED BY <2>1, <4>1, <4>2
      <3>1. req[r] # Idle
        BY <3>0 DEF Idle
      <3>2. req[r] \in Request /\ (req[r].pc = "mint" => req[r].op = "intent")
        BY <3>0, <3>1, OpAt
      <3>3. RequestTyped(r)
        BY DEF RequestInv
      <3> QED BY <3>0, <3>2, <3>3 DEF Request, RequestTyped
    <2>3. \E i \in Identity, d \in Digest : Mint(n, i, d)
      BY <2>1, <2>2 DEF MintTicket, BatchTicket, At
    <2>4. /\ \A p \in Call \ {r} : req'[p] = req[p]
          /\ req'[r].pc # "signing"
      <3>1. CASE MintTicket(r, n)
        BY <3>1 DEF MintTicket, End, Idle
      <3>2. CASE \E d \in Digest : BatchTicket(r, n, d)
        BY <2>2, <3>2 DEF BatchTicket, Request
      <3> QED BY <2>1, <3>1, <3>2
    <2>5. /\ UNCHANGED <<now, restarts, keysByIdentityId, nonceReplayCache, call, born, uses>>
          /\ Mode = "enclave" => UNCHANGED signed
      BY <2>1 DEF MintTicket, BatchTicket
    <2> QED BY <2>3, <2>4, <2>5 DEF TicketMinted
  <1>7. CASE CheckTicket(r) \/ TicketStoreError(r)
    <2>1. \A p \in Call \ {r} : req'[p] = req[p] /\ call'[p] = call[p]
      BY <1>7 DEF CheckTicket, TicketStoreError, End, Goto, enclaveVars
    <2>2. req'[r].pc # "signing"
      BY <1>7 DEF CheckTicket, TicketStoreError, End, Goto, Idle, Request
    <2> QED BY <1>7, <2>1, <2>2 DEF CheckTicket, TicketStoreError, enclaveVars
  <1>8. CASE CallSign(r)
    <2>1. \A p \in Call \ {r} : req'[p] = req[p] /\ call'[p] = call[p]
      BY <1>8 DEF CallSign, SignLookup, Goto, EnclaveTypeOK
    <2>2. ~Answered(r, 200)'
      BY <1>8 DEF CallSign, SignLookup, Answered, Reply, Handler, EnclaveTypeOK
    <2> QED BY <1>8, <2>1, <2>2 DEF CallSign, SignLookup
  <1>9. CASE ReadSignature(r)
    <2>1. \A p \in Call \ {r} : req'[p] = req[p] /\ call'[p] = call[p]
      BY <1>9 DEF ReadSignature, End, Goto, DropReply, EnclaveTypeOK
    <2>2. req[r] \in Request /\ HasTicket(r)
      BY <1>9, OpAt DEF ReadSignature, At, Idle, RequestInv, RequestTyped
    <2>3. CASE Answered(r, 200) /\ Obtain(r, req[r].nonce, call[r].key) /\ Goto(r, "mark")
      BY <1>9, <2>1, <2>2, <2>3
         DEF ReadSignature, At, SignatureRead, Obtain, Goto, Request, HasTicket
    <2>4. CASE (End(r) \/ Goto(r, "getBackup")) /\ UNCHANGED <<signed, sigs>>
      <3>1. req'[r].pc # "signing"
        BY <2>2, <2>4 DEF End, Goto, Idle, Request
      <3> QED BY <1>9, <2>1, <2>4, <3>1 DEF ReadSignature, enclaveRest
    <2> QED BY <1>9, <2>3, <2>4 DEF ReadSignature
  <1>10. CASE MarkUsed(r) \/ MarkDestroyed(r) \/ DeleteBackup(r) \/ AddAuditEvent(r)
    <2>1. \A p \in Call \ {r} : req'[p] = req[p] /\ call'[p] = call[p]
      BY <1>10 DEF MarkUsed, MarkDestroyed, DeleteBackup, AddAuditEvent, End, Goto, enclaveVars
    <2>2. req'[r].pc # "signing"
      BY <1>10 DEF MarkUsed, MarkDestroyed, DeleteBackup, AddAuditEvent, End, Goto, Idle, Request
    <2> QED BY <1>10, <2>1, <2>2
         DEF MarkUsed, MarkDestroyed, DeleteBackup, AddAuditEvent, enclaveVars
  <1>11. CASE CallDestroy(r) \/ ReadDestroyed(r)
    <2>1. \A p \in Call \ {r} : req'[p] = req[p] /\ call'[p] = call[p]
      BY <1>11 DEF CallDestroy, ReadDestroyed, Destroy, DropReply, End, Goto, EnclaveTypeOK
    <2>2. req'[r].pc # "signing"
      BY <1>11 DEF CallDestroy, ReadDestroyed, End, Goto, Idle, Request
    <2> QED BY <1>11, <2>1, <2>2 DEF CallDestroy, ReadDestroyed, Destroy, enclaveRest
  <1> QED BY <1>1, <1>2, <1>3, <1>4, <1>5, <1>6, <1>7, <1>8, <1>9, <1>10, <1>11 DEF Step

\* What any step is to tickets.
LEMMA TicketEffect ==
    ASSUME SignerInv, [SignerNext]_signerVars
    PROVE  \/ EnclaveSide
           \/ \E r \in Call :
                 \/ TicketQuiet(r)
                 \/ \E n \in Nonce : TicketMinted(r, n)
                 \/ SignatureRead(r)
           \/ TicketStutter
  <1>1. CASE Tick /\ UNCHANGED apiVars
    BY <1>1 DEF EnclaveSide, apiVars
  <1>2. CASE EnclaveRestart
    BY <1>2 DEF EnclaveRestart, EnclaveSide, apiVars
  <1>3. CASE \E n \in Nonce : KvExpire(n)
    BY <1>3 DEF TicketStutter, KvExpire, enclaveVars, enclaveRest, history
  <1>4. ASSUME NEW r \in Call, Start(r) \/ Step(r)
        PROVE  EnclaveSide \/ TicketQuiet(r) \/ (\E n \in Nonce : TicketMinted(r, n))
               \/ SignatureRead(r)
    BY <1>4, StartQuiet, StepQuiet
  <1>5. ASSUME NEW r \in Call, Crash(r) PROVE TicketQuiet(r)
    <2>1. EnclaveTypeOK /\ req'[r] = Idle /\ \A p \in Call \ {r} : req'[p] = req[p]
      BY <1>5 DEF Crash, End, SignerInv, SignerTypeOK
    <2>2. \A p \in Call \ {r} : call'[p] = call[p]
      BY <1>5, <2>1, DropReplyType DEF Crash
    <2> QED BY <1>5, <2>1, <2>2 DEF Crash, TicketQuiet, Idle, enclaveRest
  <1>6. CASE UNCHANGED signerVars
    BY <1>6 DEF TicketStutter, signerVars, apiVars, enclaveVars, enclaveRest
  <1>7. CASE \E r \in Call : Start(r) \/ Step(r) \/ Crash(r)
    BY <1>4, <1>5, <1>7
  <1> QED BY <1>1, <1>2, <1>3, <1>6, <1>7 DEF SignerNext

\* Minting is a step that the enclave's specification allows, and so are the
\* steps on the enclave's side.
LEMMA EnclaveSteps ==
    /\ EnclaveSide => EnclaveNext
    /\ \A r \in Call, n \in Nonce : TicketMinted(r, n) => EnclaveNext
  BY DEF EnclaveSide, TicketMinted, EnclaveNext

-----------------------------------------------------------------------------
\* The replay cache behind the API: what the enclave promises its callers does
\* not depend on which calls the API makes, or on responses it never reads.
LEMMA CacheStepInv ==
    ASSUME SignerInv, CacheInv, [SignerNext]_signerVars
    PROVE  CacheInv'
  <1>0. EnclaveTypeOK /\ EnclaveInv
    BY DEF SignerInv, SignerTypeOK, EnclaveInv, CacheInv
  <1>1. ASSUME NEW r \in Call, TicketQuiet(r) PROVE CacheInv'
    <2>1. UNCHANGED <<now, claims, uses>>
          /\ (nonceReplayCache' = nonceReplayCache \/ nonceReplayCache' = pruneReplayCache)
      BY <1>1 DEF TicketQuiet
    <2>2. CASE nonceReplayCache' = pruneReplayCache
      BY <1>0, <2>1, <2>2, PruneInv
    <2>3. CASE nonceReplayCache' = nonceReplayCache
      BY <2>1, <2>3, CacheInvUnchanged
    <2> QED BY <2>1, <2>2, <2>3
  <1>2. ASSUME EnclaveNext PROVE CacheInv'
    BY <1>0, <1>2, EnclaveNextInv DEF EnclaveInv, CacheInv
  <1>3. ASSUME UNCHANGED enclaveRest PROVE CacheInv'
    BY <1>3, CacheInvUnchanged DEF enclaveRest
  <1>4. CASE EnclaveSide \/ \E r \in Call, n \in Nonce : TicketMinted(r, n)
    BY <1>2, <1>4, EnclaveSteps
  <1>5. CASE (\E r \in Call : SignatureRead(r)) \/ TicketStutter
    BY <1>3, <1>5 DEF SignatureRead, TicketStutter, enclaveRest
  <1>6. CASE \E r \in Call : TicketQuiet(r)
    BY <1>1, <1>6
  <1> QED BY <1>4, <1>5, <1>6, TicketEffect

-----------------------------------------------------------------------------
\* The count of the signatures made with one ticket.

\* The numbers that are counted.
LEMMA CountTypes ==
    ASSUME SignerInv, NEW n \in Nonce
    PROVE  signed[n] \in 0..MaxSigned /\ uses[n] \in Nat /\ restarts \in Nat /\ MaxSigned \in Nat
  BY SignerAssumption DEF SignerInv, SignerTypeOK, EnclaveTypeOK

\* A step after which no more signatures wait to be read.
LEMMA CountKept ==
    ASSUME SignerInv, SignerInv', NEW n \in Nonce, Counted(n),
           Unread(n)' \subseteq Unread(n),
           signed'[n] = signed[n],
           uses[n] + restarts <= uses'[n] + restarts'
    PROVE  Counted(n)'
  <1>1. /\ IsFiniteSet(Unread(n)')
        /\ Cardinality(Unread(n)') \in Nat /\ Cardinality(Unread(n)) \in Nat
        /\ Cardinality(Unread(n)') <= Cardinality(Unread(n))
    BY FS_Subset, FS_CardinalityType DEF Counted
  <1>2. uses[n] \in Nat /\ restarts \in Nat /\ signed[n] \in Nat
    BY CountTypes
  <1>3. uses'[n] \in Nat /\ restarts' \in Nat
    BY DEF SignerInv, SignerTypeOK, EnclaveTypeOK
  <1> QED BY <1>1, <1>2, <1>3 DEF Counted

\* The enclave signs: it counts one more signature, and one more may wait.
LEMMA CountSigned ==
    ASSUME SignerInv, SignerInv', CacheInv, NEW c \in Call, SignVerify(c), Refusal(c) = 200,
           UNCHANGED <<req, signed>>, NEW n \in Nonce, Counted(n)
    PROVE  Counted(n)'
  <1>1. /\ EnclaveTypeOK
        /\ call[c].h = "verify" /\ call[c].nonce \in Nonce
        /\ req[c].pc = "signing" => call[c].nonce = req[c].nonce
    BY DEF SignVerify, SignerInv, SignerTypeOK, EnclaveTypeOK, RequestInv, CallMatches
  <1>2. \A p \in Call \ {c} : call'[p] = call[p]
    BY <1>1 DEF SignVerify, EnclaveTypeOK
  <1>3. CASE n # call[c].nonce
    <2>1. Unread(n)' \subseteq Unread(n)
      BY <1>1, <1>2, <1>3 DEF Unread, Answered
    <2>2. UNCHANGED restarts /\ uses'[n] = uses[n]
      BY <1>1, <1>3 DEF SignVerify, EnclaveTypeOK
    <2> QED BY <2>1, <2>2, CountKept, CountTypes
  <1>4. CASE n = call[c].nonce
    <2>1. UNCHANGED restarts /\ uses'[n] = uses[n] + 1
      BY <1>1, <1>4 DEF SignVerify, EnclaveTypeOK
    <2>2. Unread(n)' \subseteq Unread(n) \cup {c}
      BY <1>2 DEF Unread, Answered
    <2>3. /\ IsFiniteSet(Unread(n) \cup {c})
          /\ Cardinality(Unread(n) \cup {c}) <= Cardinality(Unread(n)) + 1
          /\ Cardinality(Unread(n)) \in Nat
      <3>1. IsFiniteSet(Unread(n)) /\ Cardinality(Unread(n)) \in Nat
        BY FS_CardinalityType DEF Counted
      <3>2. /\ IsFiniteSet(Unread(n) \cup {c})
            /\ \/ Cardinality(Unread(n) \cup {c}) = Cardinality(Unread(n))
               \/ Cardinality(Unread(n) \cup {c}) = Cardinality(Unread(n)) + 1
        BY <3>1, FS_AddElement
      <3> QED BY <3>1, <3>2
    <2>4. /\ IsFiniteSet(Unread(n)')
          /\ Cardinality(Unread(n)') \in Nat
          /\ Cardinality(Unread(n)') <= Cardinality(Unread(n) \cup {c})
          /\ Cardinality(Unread(n) \cup {c}) \in Nat
      BY <2>2, <2>3, FS_Subset, FS_CardinalityType
    <2> QED BY <2>1, <2>3, <2>4, CountTypes DEF Counted
  <1> QED BY <1>3, <1>4

\* The API reads a signature: it no longer waits.
LEMMA CountRead ==
    ASSUME SignerInv, SignerInv', NEW r \in Call, SignatureRead(r), NEW n \in Nonce, Counted(n)
    PROVE  Counted(n)'
  <1>1. UNCHANGED <<uses, restarts>> /\ req[r].nonce \in Nonce
    BY DEF SignatureRead, enclaveRest
  <1>2. CASE n # req[r].nonce
    <2>1. Unread(n)' \subseteq Unread(n)
      BY DEF Unread, SignatureRead, Answered
    <2>2. signed'[n] = signed[n]
      BY <1>2 DEF SignatureRead, SignerInv, SignerTypeOK
    <2> QED BY <1>1, <2>1, <2>2, CountKept, CountTypes
  <1>3. CASE n = req[r].nonce
    <2>1. r \in Unread(n) /\ Unread(n)' \subseteq Unread(n) \ {r}
      BY <1>3 DEF Unread, SignatureRead, Answered
    <2>2. /\ IsFiniteSet(Unread(n) \ {r})
          /\ Cardinality(Unread(n) \ {r}) = Cardinality(Unread(n)) - 1
          /\ Cardinality(Unread(n)) \in Nat
      BY <2>1, FS_RemoveElement, FS_CardinalityType DEF Counted
    <2>3. /\ IsFiniteSet(Unread(n)')
          /\ Cardinality(Unread(n)') \in Nat
          /\ Cardinality(Unread(n)') <= Cardinality(Unread(n) \ {r})
      BY <2>1, <2>2, FS_Subset, FS_CardinalityType
    <2>4. signed'[n] \in Nat /\ signed'[n] <= signed[n] + 1
      BY <1>3, CountTypes DEF SignatureRead, SignerInv, SignerTypeOK
    <2> QED BY <1>1, <2>2, <2>3, <2>4, CountTypes DEF Counted
  <1> QED BY <1>2, <1>3

\* The enclave's own steps.  A restart forgets at most one signature.
LEMMA CountEnclave ==
    ASSUME SignerInv, SignerInv', CacheInv, EnclaveSide, NEW n \in Nonce, Counted(n)
    PROVE  Counted(n)'
  <1>0. signed'[n] = signed[n] /\ EnclaveTypeOK
    BY DEF EnclaveSide, SignerInv, SignerTypeOK
  <1>1. CASE Tick
    <2>1. Unread(n)' \subseteq Unread(n)
      BY <1>1 DEF EnclaveSide, Tick, Unread, Answered
    <2> QED BY <1>0, <1>1, <2>1, CountKept, CountTypes DEF Tick
  <1>2. CASE Restart
    <2>1. Unread(n)' \subseteq Unread(n)
      BY <1>2 DEF EnclaveSide, Restart, Unread, Answered, Reply
    <2>2. uses[n] <= 1 /\ uses'[n] = 0 /\ restarts' = restarts + 1
      BY <1>2 DEF Restart, CacheInv, OneSignaturePerTicket
    <2> QED BY <1>0, <2>1, <2>2, CountKept, CountTypes
  <1>3. ASSUME NEW c \in Call, HandlerFinish(c)
        PROVE  Counted(n)'
    <2>1. CASE SignVerify(c) /\ Refusal(c) = 200
      BY <2>1, CountSigned DEF EnclaveSide
    <2>2. CASE ~(SignVerify(c) /\ Refusal(c) = 200)
      <3>1. \A p \in Call \ {c} : call'[p] = call[p]
        BY <1>0, <1>3 DEF HandlerFinish, SignVerify, ExportSealed, ImportSet, EnclaveTypeOK
      <3>2. UNCHANGED <<uses, restarts>>
        BY <1>3, <2>2 DEF HandlerFinish, SignVerify, ExportSealed, ImportSet
      <3>3. req[c].pc = "signing" => ~Answered(c, 200)'
        <4>1. req[c].pc = "signing" => call[c].h \in {"verify", "reply"}
          BY DEF SignerInv, RequestInv, CallMatches
        <4> QED BY <1>0, <1>3, <2>2, <4>1
             DEF HandlerFinish, SignVerify, ExportSealed, ImportSet, Answered, Reply,
                 EnclaveTypeOK
      <3>4. Unread(n)' \subseteq Unread(n)
        BY <3>1, <3>3 DEF EnclaveSide, Unread, Answered
      <3> QED BY <1>0, <3>2, <3>4, CountKept, CountTypes
    <2> QED BY <2>1, <2>2
  <1> QED BY <1>1, <1>2, <1>3 DEF EnclaveSide

\* Steps of a request that do not read a signature.
LEMMA CountQuiet ==
    ASSUME SignerInv, SignerInv', Mode = "enclave", NEW r \in Call,
           TicketQuiet(r) \/ \E n \in Nonce : TicketMinted(r, n),
           NEW n \in Nonce, Counted(n)
    PROVE  Counted(n)'
  <1>1. UNCHANGED <<uses, restarts, signed>>
    BY DEF TicketQuiet, TicketMinted
  <1>2. CASE TicketQuiet(r)
    BY <1>1, <1>2, CountKept, CountTypes DEF TicketQuiet, Unread, Answered
  <1>3. CASE \E m \in Nonce : TicketMinted(r, m)
    BY <1>1, <1>3, CountKept, CountTypes DEF TicketMinted, Unread, Answered
  <1> QED BY <1>2, <1>3

LEMMA TicketInitInv == SignerInit => TicketInv
  <1> SUFFICES ASSUME SignerInit PROVE TicketInv
    OBVIOUS
  <1>1. CacheInv
    BY DEF SignerInit, EnclaveBoot, CacheInv, OneSignaturePerTicket, CachedOnlyIfSigned,
           CachedUntilExpired
  <1>2. ASSUME NEW n \in Nonce PROVE Counted(n)
    <2>1. Unread(n) = {}
      BY DEF SignerInit, Unread, Idle
    <2> QED BY <2>1, FS_EmptySet DEF Counted, SignerInit, EnclaveBoot
  <1> QED BY <1>1, <1>2 DEF TicketInv, SignaturesCounted

LEMMA TicketNextInv ==
    ASSUME SignerInv, TicketInv, [SignerNext]_signerVars PROVE TicketInv'
  <1>1. SignerInv' /\ CacheInv'
    BY SignerNextInv, CacheStepInv DEF TicketInv
  <1>2. ASSUME Mode = "enclave", NEW n \in Nonce PROVE Counted(n)'
    <2>0. CacheInv /\ Counted(n)
      BY <1>2 DEF TicketInv, SignaturesCounted
    <2>1. CASE EnclaveSide
      BY <1>1, <2>0, <2>1, CountEnclave
    <2>2. ASSUME NEW r \in Call, TicketQuiet(r) \/ \E m \in Nonce : TicketMinted(r, m)
          PROVE  Counted(n)'
      BY <1>1, <1>2, <2>0, <2>2, CountQuiet
    <2>3. ASSUME NEW r \in Call, SignatureRead(r) PROVE Counted(n)'
      BY <1>1, <2>0, <2>3, CountRead
    <2>4. CASE TicketStutter
      BY <1>1, <2>0, <2>4, CountKept, CountTypes
         DEF TicketStutter, enclaveRest, Unread, Answered
    <2> QED BY <2>1, <2>2, <2>3, <2>4, TicketEffect
  <1> QED BY <1>1, <1>2 DEF TicketInv, SignaturesCounted

\* TicketInv holds in every reachable state of the composed service.
THEOREM TicketInvariance == SignerSpec => []TicketInv
  <1>1. SignerInit => TicketInv
    BY TicketInitInv
  <1>2. SignerInv /\ TicketInv /\ [SignerNext]_signerVars => TicketInv'
    BY TicketNextInv
  <1> QED BY <1>1, <1>2, SignerInvariance, PTL DEF SignerSpec

\* However the API retries and however its requests interleave, the enclave it
\* calls signs at most once per ticket between two restarts.
THEOREM ServiceSignsOncePerTicket == SignerSpec => []OneSignaturePerTicket
  <1>1. TicketInv => OneSignaturePerTicket
    BY DEF TicketInv, CacheInv
  <1> QED BY <1>1, TicketInvariance, PTL

\* In enclave mode the API obtains one signature with a ticket, and at most one
\* more for every restart that loses the replay cache: neither the retry after a
\* 404 nor concurrent requests with the same ticket add any.
THEOREM TicketsSignPerRestart ==
    ASSUME Mode = "enclave" PROVE SignerSpec => []SignaturesPerTicket
  <1>1. SignerInv /\ TicketInv => SignaturesPerTicket
    <2> SUFFICES ASSUME SignerInv, TicketInv, NEW n \in Nonce
                 PROVE  signed[n] <= 1 + restarts
      BY DEF SignaturesPerTicket
    <2>1. Counted(n) /\ uses[n] <= 1
      BY DEF TicketInv, SignaturesCounted, CacheInv, OneSignaturePerTicket
    <2>2. Cardinality(Unread(n)) \in Nat
      BY <2>1, FS_CardinalityType DEF Counted
    <2> QED BY <2>1, <2>2, CountTypes DEF Counted
  <1> QED BY <1>1, SignerInvariance, TicketInvariance, PTL

-----------------------------------------------------------------------------
\* The service implements the ledger.

\* A step of the service is a step of the ledger or leaves it unchanged.
LEMMA ServiceStepRefined ==
    ASSUME SignerInv, TicketInv, [SignerNext]_signerVars
    PROVE  [Ledger!LedgerNext]_Ledger!ledgerVars
  <1>1. EnclaveInv
    BY DEF SignerInv, SignerTypeOK, TicketInv, CacheInv, EnclaveInv
  <1>2. CASE EnclaveSide \/ \E r \in Call, n \in Nonce : TicketMinted(r, n)
    BY <1>1, <1>2, EnclaveSteps, LedgerStepRefined
  <1>3. CASE \/ \E r \in Call : TicketQuiet(r) \/ SignatureRead(r)
             \/ TicketStutter
    <2>1. UNCHANGED <<now, claims, uses>>
      BY <1>3 DEF TicketQuiet, SignatureRead, TicketStutter, enclaveRest
    <2> QED BY <2>1 DEF Ledger!ledgerVars
  <1> QED BY <1>2, <1>3, TicketEffect

\* Through the whole service, API and enclave, a minted ticket is redeemed at
\* most once, before it expires, until the enclave restarts.
THEOREM ServiceRefinesLedger == SignerSpec => ImplementsLedger
  <1>1. SignerInit => Ledger!LedgerInit
    BY DEF SignerInit, EnclaveBoot, Ledger!LedgerInit
  <1>2. SignerInv /\ TicketInv /\ [SignerNext]_signerVars
            => [Ledger!LedgerNext]_Ledger!ledgerVars
    BY ServiceStepRefined
  <1> QED BY <1>1, <1>2, SignerInvariance, TicketInvariance, PTL
          DEF SignerSpec, ImplementsLedger, Ledger!LedgerSpec

=============================================================================
