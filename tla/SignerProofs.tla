---------------------------- MODULE SignerProofs ----------------------------
(***************************************************************************)
(* Theorems about identity custody and signing, for any number of users,   *)
(* identities and concurrent requests, in both signer modes, with crashes. *)
(*                                                                         *)
(* SignerInv is proved inductive.  A step of request r changes req[r],     *)
(* call[r] and one store; Others says why the local invariant of every     *)
(* other request survives it, so that each action is left with its own     *)
(* request and the invariants of the stores.                               *)
(***************************************************************************)
EXTENDS SignerInvariant, EnclaveProofs

\* How any step may change the stores that other requests rely on.
StoresGrow ==
    /\ imported' = imported
    /\ \A i \in Identity :
          /\ keyOf[i] # None => keyOf'[i] = keyOf[i]
          /\ row[i] # NoRow => row'[i] # NoRow
          /\ row[i].status = "destroyed" => row'[i].status = "destroyed"
          /\ backup'[i] = None => backup[i] = None \/ row[i] # NoRow
          /\ backup[i] = None => backup'[i] = None \/ row[i] = NoRow
    /\ \A n \in Nonce :
          /\ claims[n] # None => claims'[n] # None
          /\ kv[n] # "fresh" /\ claims[n] # None => kv'[n] # "fresh"
    /\ redeemed \subseteq redeemed'

\* No step of another request breaks the local invariant of p.
LEMMA Others ==
    ASSUME SignerInv, StoresGrow, NEW p \in Call,
           req'[p] = req[p], call'[p] = call[p],
           req[p].op = "create" /\ req[p].pc # "audit" =>
               row'[req[p].id] = row[req[p].id]
    PROVE  RequestInv(p)'
  <1>0. RequestInv(p) /\ (req[p] = Idle \/ req[p].id \in Identity)
    BY DEF SignerInv, SignerTypeOK, Request
  <1>1. RequestTyped(p)'
    BY <1>0 DEF StoresGrow, RequestInv, RequestTyped, HasTicket
  <1>2. CallMatches(p)'
    BY <1>0 DEF RequestInv, CallMatches, InFlight
  <1>3. req[p] # Idle /\ keyOf[req[p].id] # None => keyOf'[req[p].id] = keyOf[req[p].id]
    BY <1>0 DEF StoresGrow
  <1>4. KeyHeld(p)'
    <2>1. /\ req[p].key # None => req[p] # Idle /\ keyOf[req[p].id] # None
          /\ InFlight(p) => req[p] # Idle /\ keyOf[req[p].id] # None
      BY <1>0, EnclaveAssumption
         DEF RequestInv, KeyHeld, CallMatches, InFlight, NoCall, Idle, SignerInv,
             SignerTypeOK, EnclaveTypeOK
    <2>2. req[p].pc \in {"exporting", "signing"} => req[p] # Idle /\ keyOf[req[p].id] # None
      BY <1>0, EnclaveAssumption
         DEF RequestInv, RequestTyped, PcsOf, RequestOrdered, Idle, SignerInv, SignerTypeOK,
             KeysAgree, Request, Row, NoRow, Ops
    <2> QED BY <1>0, <1>3, <2>1, <2>2 DEF RequestInv, KeyHeld, InFlight, Answered
  <1>5. RequestOrdered(p)'
    BY <1>0, <1>3 DEF StoresGrow, RequestInv, RequestOrdered, Idle
  <1>6. TicketHeld(p)'
    BY <1>0 DEF StoresGrow, RequestInv, RequestTyped, HasTicket, TicketHeld
  <1> QED BY <1>1, <1>2, <1>4, <1>5, <1>6 DEF RequestInv

\* An idle request satisfies its local invariant.
LEMMA IdleInv ==
    ASSUME NEW r \in Call, req'[r] = Idle, call'[r] = NoCall
    PROVE  RequestInv(r)'
  BY DEF Idle, NoCall, RequestInv, RequestTyped, PcsOf, CallMatches, KeyHeld, RequestOrdered,
         TicketHeld, InFlight, Answered

\* The step of request r that changes no store another request relies on.
Quiet(r) ==
    /\ UNCHANGED <<row, backup, audit, kv, held, imported, keyOf, redeemed, sigs, claims>>
    /\ \A p \in Call \ {r} : req'[p] = req[p] /\ call'[p] = call[p]
    /\ req'[r].op = "create" => req[r].op = "create" /\ req'[r].id = req[r].id
    /\ \A i \in Identity :
          keysByIdentityId'[i] # None => keysByIdentityId'[i] = keyOf[i]

\* What is left to prove of such a step.
LEMMA QuietStep ==
    ASSUME SignerInv, NEW r \in Call, Quiet(r), SignerTypeOK', RequestInv(r)'
    PROVE  SignerInv'
  <1>1. StoresGrow
    BY DEF Quiet, StoresGrow
  <1>2. KeysAgree' /\ StoresOrdered' /\ TicketsMarked'
    BY DEF Quiet, SignerInv, KeysAgree, StoresOrdered, TicketsMarked
  <1>3. CreatesDistinct'
    BY DEF Quiet, SignerInv, CreatesDistinct
  <1>4. \A p \in Call : RequestInv(p)'
    BY <1>1, Others DEF Quiet
  <1> QED BY <1>2, <1>3, <1>4 DEF SignerInv

-----------------------------------------------------------------------------
\* The actions that change req[r] alone, to q.
LEMMA ApiOnlyStep ==
    ASSUME SignerInv, NEW r \in Call, NEW q \in Request \cup {Idle},
           req' = [req EXCEPT ![r] = q],
           UNCHANGED <<enclaveVars, stores, held, history>>,
           q.op = "create" => req[r].op = "create" /\ q.id = req[r].id,
           req'[r] = q => RequestInv(r)'
    PROVE  SignerInv'
  <1>1. SignerTypeOK'
    BY DEF SignerInv, SignerTypeOK, enclaveVars, stores, history, EnclaveTypeOK, InFlight
  <1>2. req'[r] = q
    BY DEF SignerInv, SignerTypeOK
  <1>3. Quiet(r)
    BY <1>2 DEF SignerInv, SignerTypeOK, KeysAgree, Quiet, enclaveVars, stores, history
  <1> QED BY <1>1, <1>2, <1>3, QuietStep

\* An idle request has no call in the enclave.
LEMMA IdleCall ==
    ASSUME SignerInv, NEW r \in Call, IsIdle(r) PROVE call[r] = NoCall
  BY DEF SignerInv, RequestInv, CallMatches, IsIdle, Idle

\* An owned row is not NoRow.
LEMMA OwnedRow ==
    ASSUME SignerInv, NEW i \in Identity, NEW u \in User, row[i].owner = u
    PROVE  row[i] \in Row /\ row[i] # NoRow /\ keyOf[i] \in Key
  BY SignerAssumption, EnclaveAssumption DEF SignerInv, SignerTypeOK, KeysAgree, Row, NoRow

\* What the record of a new request must satisfy.
GoodStart(q) ==
    /\ q \in Request
    /\ q.op # "create"
    /\ q.pc \in PcsOf(q.op) \cap {"getBackup", "mint", "check", "ticket", "markRow", "callDestroy"}
    /\ q.key = None \/ q.key = keyOf[q.id]
    /\ q.op = "adopt" => q.id \in imported /\ q.key \in Key
    /\ q.op \in {"intent", "sign"} => q.digest \in Digest
    /\ q.op = "sign" => q.nonce \in held
    /\ q.op = "batch" => q.left > 0 /\ (Mode = "enclave" <=> q.pc = "ticket")
    /\ q.op \in {"restore", "sign", "batch", "destroy"} => row[q.id] # NoRow
    /\ q.late => q.op = "sign" /\ q.pc = "check" /\ q.nonce \in redeemed

LEMMA StartInv ==
    ASSUME SignerInv, NEW r \in Call, NEW q, GoodStart(q), IsIdle(r),
           req' = [req EXCEPT ![r] = q],
           UNCHANGED <<enclaveVars, stores, held, history>>
    PROVE  SignerInv'
  <1>1. q \in Request /\ q.op # "create"
    BY DEF GoodStart
  <1>2. /\ call'[r] = NoCall
        /\ UNCHANGED <<row, backup, kv, imported, keyOf, redeemed, claims>>
    BY IdleCall DEF enclaveVars, stores, history
  <1>3. q.op = "sign" => q.nonce \in Nonce /\ claims[q.nonce] # None
    BY DEF GoodStart, SignerInv, SignerTypeOK, TicketsMarked
  <1>4. ASSUME req'[r] = q PROVE RequestInv(r)'
    <2>1. RequestTyped(r)'
      BY <1>2, <1>3, <1>4, SignerAssumption DEF GoodStart, RequestTyped, HasTicket
    <2>2. CallMatches(r)' /\ KeyHeld(r)'
      BY <1>2, <1>4 DEF GoodStart, NoCall, CallMatches, KeyHeld, InFlight, Answered
    <2>3. RequestOrdered(r)' /\ TicketHeld(r)'
      BY <1>2, <1>4 DEF GoodStart, RequestOrdered, TicketHeld
    <2> QED BY <2>1, <2>2, <2>3 DEF RequestInv
  <1> QED BY <1>1, <1>2, <1>4, ApiOnlyStep

LEMMA StartRestoreInv ==
    ASSUME SignerInv, NEW r \in Call, NEW u \in User, NEW i \in Identity, StartRestore(r, u, i)
    PROVE  SignerInv'
  <1> DEFINE q == NewRequest("restore", "getBackup", u, i, None, None, None, 0, FALSE)
  <1>1. row[i] # NoRow
    BY OwnedRow DEF StartRestore
  <1>2. GoodStart(q)
    BY <1>1, SignerAssumption DEF NewRequest, GoodStart, Request, Ops, Pcs, PcsOf
  <1> HIDE DEF q
  <1> QED BY <1>2, StartInv DEF StartRestore, q

LEMMA StartAdoptInv ==
    ASSUME SignerInv, NEW r \in Call, NEW u \in User, NEW i \in Identity, StartAdopt(r, u, i)
    PROVE  SignerInv'
  <1> DEFINE q == NewRequest("adopt", "getBackup", u, i, keyOf[i], None, None, 0, FALSE)
  <1>1. keyOf[i] \in Key
    BY DEF StartAdopt, SignerInv, SignerTypeOK, KeysAgree
  <1>2. GoodStart(q)
    BY <1>1, SignerAssumption DEF StartAdopt, NewRequest, GoodStart, Request, Ops, Pcs, PcsOf
  <1> HIDE DEF q
  <1> QED BY <1>2, StartInv DEF StartAdopt, q

LEMMA StartIntentInv ==
    ASSUME SignerInv, NEW r \in Call, NEW u \in User, NEW i \in Identity, NEW d \in Digest,
           StartIntent(r, u, i, d)
    PROVE  SignerInv'
  <1> DEFINE q == NewRequest("intent", "mint", u, i, None, None, d, 0, FALSE)
  <1>1. GoodStart(q)
    BY SignerAssumption DEF NewRequest, GoodStart, Request, Ops, Pcs, PcsOf
  <1> HIDE DEF q
  <1> QED BY <1>1, StartInv DEF StartIntent, q

LEMMA StartSignInv ==
    ASSUME SignerInv, NEW r \in Call, NEW u \in User, NEW i \in Identity, NEW d \in Digest,
           NEW n \in Nonce, StartSign(r, u, i, d, n)
    PROVE  SignerInv'
  <1> DEFINE late == n \in redeemed
  <1> DEFINE q == NewRequest("sign", "check", u, i, None, n, d, 0, late)
  <1>0. late \in BOOLEAN /\ (late => n \in redeemed)
    OBVIOUS
  <1>1. /\ row[i] # NoRow
        /\ req' = [req EXCEPT ![r] = q]
    BY OwnedRow DEF StartSign, ownedActiveIdentity
  <1> HIDE DEF late
  <1>2. GoodStart(q)
    BY <1>0, <1>1, SignerAssumption DEF StartSign, NewRequest, GoodStart, Request, Ops, Pcs, PcsOf
  <1> HIDE DEF q
  <1> QED BY <1>1, <1>2, StartInv DEF StartSign

LEMMA StartBatchInv ==
    ASSUME SignerInv, NEW r \in Call, NEW u \in User, NEW i \in Identity, StartBatch(r, u, i)
    PROVE  SignerInv'
  <1> DEFINE pc == IF Mode = "worker" THEN "getBackup" ELSE "ticket"
  <1> DEFINE q == NewRequest("batch", pc, u, i, None, None, None, BatchSize, FALSE)
  <1>1. row[i] # NoRow
    BY OwnedRow DEF StartBatch, ownedActiveIdentity
  <1>2. GoodStart(q)
    BY <1>1, SignerAssumption DEF NewRequest, GoodStart, Request, Ops, Pcs, PcsOf
  <1> HIDE DEF q
  <1> QED BY <1>2, StartInv DEF StartBatch, q

LEMMA StartDestroyInv ==
    ASSUME SignerInv, NEW r \in Call, NEW u \in User, NEW i \in Identity, StartDestroy(r, u, i)
    PROVE  SignerInv'
  <1> DEFINE pc == IF Mode = "worker" THEN "markRow" ELSE "callDestroy"
  <1> DEFINE q == NewRequest("destroy", pc, u, i, None, None, None, 0, FALSE)
  <1>1. row[i] # NoRow
    BY OwnedRow DEF StartDestroy, ownedActiveIdentity
  <1>2. GoodStart(q)
    BY <1>1, SignerAssumption DEF NewRequest, GoodStart, Request, Ops, Pcs, PcsOf
  <1> HIDE DEF q
  <1> QED BY <1>2, StartInv DEF StartDestroy, q

-----------------------------------------------------------------------------
\* Ending a request that has no call in the enclave.
LEMMA EndInv ==
    ASSUME SignerInv, NEW r \in Call, End(r), call[r] = NoCall,
           UNCHANGED <<enclaveVars, stores, held, history>>
    PROVE  SignerInv'
  <1>1. call'[r] = NoCall
    BY DEF enclaveVars
  <1>2. Idle.op # "create"
    BY DEF Idle
  <1> QED BY <1>1, <1>2, IdleInv, ApiOnlyStep DEF End

\* Going on to pc.
LEMMA GotoStep ==
    ASSUME SignerInv, NEW r \in Call, NEW pc \in Pcs, Goto(r, pc), req[r] # Idle,
           UNCHANGED <<enclaveVars, stores, held, history>>,
           req'[r] = [req[r] EXCEPT !.pc = pc] => RequestInv(r)'
    PROVE  SignerInv'
  <1> DEFINE q == [req[r] EXCEPT !.pc = pc]
  <1>1. q \in Request /\ q.op = req[r].op /\ q.id = req[r].id
    BY DEF SignerInv, SignerTypeOK, Request
  <1>2. req' = [req EXCEPT ![r] = q]
    BY DEF Goto
  <1> HIDE DEF q
  <1> QED BY <1>1, <1>2, ApiOnlyStep DEF q

\* A request whose pc is not one of those that wait for the enclave.
LEMMA NoCallAt ==
    ASSUME SignerInv, NEW r \in Call,
           req[r].pc \notin {"generated", "destroying", "exporting", "importing", "signing"}
    PROVE  call[r] = NoCall
  BY DEF SignerInv, RequestInv, CallMatches

LEMMA BackupMissingInv ==
    ASSUME SignerInv, NEW r \in Call, BackupMissing(r) PROVE SignerInv'
  <1> USE DEF BackupMissing, At
  <1>1. call[r] = NoCall /\ req[r] # Idle
    BY NoCallAt DEF Idle
  <1>2. CASE req[r].op # "destroy"
    BY <1>1, <1>2, EndInv
  <1>3. CASE req[r].op = "destroy"
    <2>1. "markRow" \in Pcs
      BY DEF Pcs
    <2>2. ASSUME req'[r] = [req[r] EXCEPT !.pc = "markRow"] PROVE RequestInv(r)'
      BY <1>1, <1>3, <2>2
         DEF SignerInv, SignerTypeOK, Request, RequestInv, RequestTyped, PcsOf, CallMatches,
             KeyHeld, RequestOrdered, TicketHeld, InFlight, Answered, NoCall, enclaveVars,
             stores, history
    <2> QED BY <1>1, <1>3, <2>1, <2>2, GotoStep
  <1> QED BY <1>2, <1>3

LEMMA BackupCheckFormatInv ==
    ASSUME SignerInv, NEW r \in Call, BackupCheckFormat(r) PROVE SignerInv'
  <1> USE DEF BackupCheckFormat, At
  <1>1. call[r] = NoCall /\ req[r] # Idle
    BY NoCallAt DEF Idle
  <1>2. CASE End(r)
    BY <1>1, <1>2, EndInv
  <1>3. CASE req[r].op = "adopt" /\ Goto(r, "insert")
    <2>1. "insert" \in Pcs
      BY DEF Pcs
    <2>2. ASSUME req'[r] = [req[r] EXCEPT !.pc = "insert"] PROVE RequestInv(r)'
      BY <1>1, <1>3, <2>2
         DEF SignerInv, SignerTypeOK, Request, RequestInv, RequestTyped, PcsOf, CallMatches,
             KeyHeld, RequestOrdered, TicketHeld, InFlight, Answered, NoCall, enclaveVars,
             stores, history
    <2> QED BY <1>1, <1>3, <2>1, <2>2, GotoStep
  <1> QED BY <1>2, <1>3

LEMMA BackupCaptureInv ==
    ASSUME SignerInv, NEW r \in Call, BackupCapture(r) PROVE SignerInv'
  <1> USE DEF BackupCapture, At
  <1>1. call[r] = NoCall /\ req[r] # Idle
    BY NoCallAt DEF Idle
  <1>2. CASE End(r)
    BY <1>1, <1>2, EndInv
  <1>3. CASE req' = [req EXCEPT ![r].pc = "ticket", ![r].key = backup[req[r].id].key]
    <2> DEFINE q == [req[r] EXCEPT !.pc = "ticket", !.key = backup[req[r].id].key]
    <2>1. /\ backup[req[r].id].key \in Key
          /\ backup[req[r].id].key = keyOf[req[r].id]
      BY <1>1 DEF SignerInv, SignerTypeOK, KeysAgree, Request, Sealed
    <2>2. req' = [req EXCEPT ![r] = q] /\ q \in Request /\ q.op = "batch"
      <3>1. req[r] \in Request /\ req \in [Call -> Request \cup {Idle}]
        BY <1>1 DEF SignerInv, SignerTypeOK
      <3>2. q \in Request /\ q.op = req[r].op
        BY <2>1, <3>1 DEF Request, Pcs
      <3>3. req' = [req EXCEPT ![r] = q]
        BY <1>3, <3>1
      <3> QED BY <3>2, <3>3
    <2>3. ASSUME req'[r] = q PROVE RequestInv(r)'
      BY <1>1, <2>1, <2>3
         DEF SignerInv, SignerTypeOK, Request, RequestInv, RequestTyped, PcsOf, CallMatches,
             KeyHeld, RequestOrdered, TicketHeld, InFlight, Answered, NoCall, enclaveVars,
             stores, history
    <2> HIDE DEF q
    <2> QED BY <2>2, <2>3, ApiOnlyStep
  <1> QED BY <1>2, <1>3

LEMMA CheckTicketInv ==
    ASSUME SignerInv, NEW r \in Call, CheckTicket(r) PROVE SignerInv'
  <1> USE DEF CheckTicket, At
  <1>1. call[r] = NoCall /\ req[r] # Idle
    BY NoCallAt DEF Idle
  <1>2. CASE End(r)
    BY <1>1, <1>2, EndInv
  <1>3. CASE TicketAccepted(r) /\ Goto(r, IF Mode = "worker" THEN "getBackup" ELSE "lookup")
    <2> DEFINE pc == IF Mode = "worker" THEN "getBackup" ELSE "lookup"
    <2>1. pc \in Pcs
      BY DEF Pcs
    <2>2. ~req[r].late
      BY <1>1, <1>3 DEF TicketAccepted, SignerInv, TicketsMarked, RequestInv, TicketHeld
    <2>3. req[r].op = "sign" /\ HasTicket(r) /\ row[req[r].id] # NoRow
      BY <1>1 DEF SignerInv, RequestInv, RequestTyped, RequestOrdered, PcsOf, SignerTypeOK,
                  Request, Ops
    <2>4. ASSUME req'[r] = [req[r] EXCEPT !.pc = pc] PROVE RequestInv(r)'
      <3> HIDE DEF pc
      <3>1. pc \in {"getBackup", "lookup"} /\ (pc = "lookup" => Mode = "enclave")
        BY SignerAssumption DEF pc
      <3>2. RequestTyped(r)'
        BY <1>1, <2>3, <2>4, <3>1 DEF SignerInv, SignerTypeOK, Request, RequestTyped, HasTicket,
                           PcsOf, enclaveVars
      <3> QED BY <1>1, <2>2, <2>3, <2>4, <3>1, <3>2
           DEF SignerInv, SignerTypeOK, Request, RequestInv, CallMatches, KeyHeld, RequestOrdered,
               TicketHeld, InFlight, Answered, NoCall, enclaveVars, stores, history
    <2> QED BY <1>1, <1>3, <2>1, <2>4, GotoStep
  <1> QED BY <1>2, <1>3

LEMMA TicketStoreErrorInv ==
    ASSUME SignerInv, NEW r \in Call, TicketStoreError(r) PROVE SignerInv'
  BY NoCallAt, EndInv DEF TicketStoreError

-----------------------------------------------------------------------------
\* The actions that call the enclave, or read its response, and write no store.

\* The handlers that can be at a pc.
LEMMA OpAt ==
    ASSUME SignerInv, NEW r \in Call, req[r] # Idle
    PROVE  /\ req[r] \in Request
           /\ req[r].pc \in {"generated", "exporting", "putBackup"} => req[r].op = "create"
           /\ req[r].pc = "insert" => req[r].op \in {"create", "adopt"}
           /\ req[r].pc \in {"getBackup", "importing"} =>
                 req[r].op \in {"restore", "adopt", "sign", "batch", "destroy"}
           /\ req[r].pc = "mint" => req[r].op = "intent"
           /\ req[r].pc = "ticket" => req[r].op = "batch"
           /\ req[r].pc \in {"lookup", "signing", "mark"} => req[r].op \in {"sign", "batch"}
           /\ req[r].pc \in {"callDestroy", "destroying", "markRow", "delBackup"} =>
                 req[r].op = "destroy"
           /\ req[r].pc = "audit" => req[r].op \in {"create", "adopt", "sign", "batch", "destroy"}
  BY DEF SignerInv, SignerTypeOK, RequestInv, RequestTyped, PcsOf, Request, Ops

LEMMA CallStep ==
    ASSUME SignerInv, NEW r \in Call, NEW q \in Request \cup {Idle},
           req' = [req EXCEPT ![r] = q],
           EnclaveTypeOK',
           \A p \in Call \ {r} : call'[p] = call[p],
           UNCHANGED <<claims, stores, held, history>>,
           \A i \in Identity : keysByIdentityId'[i] # None => keysByIdentityId'[i] = keyOf[i],
           q.op = "create" => req[r].op = "create" /\ q.id = req[r].id,
           req'[r] = q => RequestInv(r)'
    PROVE  SignerInv'
  <1>1. SignerTypeOK'
    BY DEF SignerInv, SignerTypeOK, stores, history
  <1>2. req'[r] = q
    BY DEF SignerInv, SignerTypeOK
  <1>3. Quiet(r)
    BY <1>2 DEF SignerInv, SignerTypeOK, Quiet, stores, history
  <1> QED BY <1>1, <1>2, <1>3, QuietStep

\* Dropping a response keeps the types of the enclave.
LEMMA DropReplyType ==
    ASSUME EnclaveTypeOK, NEW r \in Call, DropReply(r), UNCHANGED enclaveRest
    PROVE  EnclaveTypeOK' /\ call'[r] = NoCall /\ \A p \in Call \ {r} : call'[p] = call[p]
  BY CallTypes DEF EnclaveTypeOK, DropReply, enclaveRest, InFlight, NoCall

\* Reading a response and going on to pc, or ending.
LEMMA ReadReplyStep ==
    ASSUME SignerInv, NEW r \in Call, NEW q \in Request \cup {Idle},
           DropReply(r), req' = [req EXCEPT ![r] = q],
           UNCHANGED <<enclaveRest, stores, held, history>>,
           q.op = "create" => req[r].op = "create" /\ q.id = req[r].id,
           req'[r] = q /\ call'[r] = NoCall => RequestInv(r)'
    PROVE  SignerInv'
  <1>1. EnclaveTypeOK
    BY DEF SignerInv, SignerTypeOK
  <1>2. EnclaveTypeOK' /\ call'[r] = NoCall /\ \A p \in Call \ {r} : call'[p] = call[p]
    BY <1>1, DropReplyType
  <1>3. UNCHANGED claims /\ \A i \in Identity :
           keysByIdentityId'[i] # None => keysByIdentityId'[i] = keyOf[i]
    BY DEF enclaveRest, SignerInv, KeysAgree
  <1> QED BY <1>2, <1>3, CallStep

\* Reading a response and ending.
LEMMA ReadReplyEnd ==
    ASSUME SignerInv, NEW r \in Call, DropReply(r), End(r),
           UNCHANGED <<enclaveRest, stores, held, history>>
    PROVE  SignerInv'
  <1>1. Idle.op # "create"
    BY DEF Idle
  <1> QED BY <1>1, IdleInv, ReadReplyStep DEF End

LEMMA ReadGeneratedInv ==
    ASSUME SignerInv, NEW r \in Call, ReadGenerated(r) PROVE SignerInv'
  <1> USE DEF ReadGenerated, At
  <1>1. CASE End(r) /\ DropReply(r) /\ UNCHANGED enclaveRest
    BY <1>1, ReadReplyEnd
  <1>2. CASE ExportRead(r, req[r].id) /\ Goto(r, "exporting")
    <2> DEFINE q == [req[r] EXCEPT !.pc = "exporting"]
    <2>1. req[r] \in Request /\ req[r].op = "create"
      BY OpAt DEF Idle
    <2>2. q \in Request /\ q.op = "create" /\ q.id = req[r].id /\ req' = [req EXCEPT ![r] = q]
      BY <1>2, <2>1 DEF Request, Pcs, Goto
    <2>3. EnclaveTypeOK'
      BY <1>2, <2>1, ExportReadType DEF SignerInv, SignerTypeOK, Request
    <2>4. /\ UNCHANGED <<claims, keysByIdentityId>>
          /\ \A p \in Call \ {r} : call'[p] = call[p]
          /\ \/ call'[r] = Reply(404, None)
             \/ /\ keysByIdentityId[req[r].id] # None
                /\ call'[r] = Handler("seal", req[r].id, keysByIdentityId[req[r].id], None, None)
      BY <1>2 DEF ExportRead, SignerInv, SignerTypeOK, EnclaveTypeOK
    <2>5. ASSUME req'[r] = q PROVE RequestInv(r)'
      BY <2>1, <2>4, <2>5
         DEF SignerInv, RequestInv, RequestTyped, PcsOf, CallMatches, KeyHeld, RequestOrdered,
             TicketHeld, KeysAgree, InFlight, Answered, Reply, Handler, stores, history, Request
    <2>6. \A i \in Identity : keysByIdentityId'[i] # None => keysByIdentityId'[i] = keyOf[i]
      BY <2>4 DEF SignerInv, KeysAgree
    <2> HIDE DEF q
    <2> QED BY <2>1, <2>2, <2>3, <2>4, <2>5, <2>6, CallStep
  <1> QED BY <1>1, <1>2

LEMMA BackupImportInv ==
    ASSUME SignerInv, NEW r \in Call, BackupImport(r) PROVE SignerInv'
  <1> USE DEF BackupImport, At
  <1> DEFINE q == [req[r] EXCEPT !.pc = "importing"]
             k == backup[req[r].id].key
  <1>1. req[r] \in Request /\ req[r].op \in {"restore", "adopt", "sign", "batch", "destroy"}
    BY OpAt DEF Idle
  <1>2. q \in Request /\ q.op = req[r].op /\ q.id = req[r].id /\ req' = [req EXCEPT ![r] = q]
    BY <1>1 DEF Request, Pcs, Goto
  <1>3. k \in Key /\ k = keyOf[req[r].id]
    BY <1>1 DEF SignerInv, SignerTypeOK, KeysAgree, Request, Sealed
  <1>4. EnclaveTypeOK'
    BY <1>1, <1>3, ImportStartType DEF SignerInv, SignerTypeOK, Request
  <1>5. /\ UNCHANGED <<claims, keysByIdentityId>>
        /\ \A p \in Call \ {r} : call'[p] = call[p]
        /\ call'[r] = Handler("unseal", req[r].id, k, None, None)
    BY DEF ImportStart, SignerInv, SignerTypeOK, EnclaveTypeOK
  <1>6. ASSUME req'[r] = q PROVE RequestInv(r)'
    <2> HIDE DEF k
    <2>1. RequestTyped(r)'
      BY <1>1, <1>5, <1>6
         DEF SignerInv, RequestInv, RequestTyped, HasTicket, PcsOf, Request
    <2>2. backup[req[r].id] # None
      OBVIOUS
    <2> QED BY <1>1, <1>3, <1>5, <1>6, <2>1, <2>2
       DEF SignerInv, RequestInv, CallMatches, KeyHeld, RequestOrdered, TicketHeld, InFlight,
           Answered, Handler, stores, history, Request
  <1>7. \A i \in Identity : keysByIdentityId'[i] # None => keysByIdentityId'[i] = keyOf[i]
    BY <1>5 DEF SignerInv, KeysAgree
  <1> HIDE DEF q
  <1> QED BY <1>1, <1>2, <1>4, <1>5, <1>6, <1>7, CallStep

\* The record q is p at another pc, for a first call or a retry.
Moved(q, p, pc) == \E b \in BOOLEAN : q = [p EXCEPT !.pc = pc, !.retried = b]

\* A call of /internal/sign, with the ticket of the request.
LEMMA SignCallInv ==
    ASSUME SignerInv, NEW r \in Call, NEW q \in Request,
           SignLookup(r, req[r].id, req[r].digest, req[r].nonce),
           req[r] # Idle, req[r].pc \in {"lookup", "importing"}, req[r].op \in {"sign", "batch"},
           req' = [req EXCEPT ![r] = q],
           Moved(q, req[r], "signing"),
           UNCHANGED <<stores, held, history>>
    PROVE  SignerInv'
  <1>1. req[r] \in Request /\ HasTicket(r)
    BY OpAt DEF SignerInv, RequestInv, RequestTyped
  <1>2. /\ q.op = req[r].op /\ q.id = req[r].id /\ q.nonce = req[r].nonce
        /\ q.digest = req[r].digest /\ q.left = req[r].left /\ q.late = req[r].late
        /\ q.key = req[r].key /\ q.pc = "signing"
    BY <1>1 DEF Request, Moved
  <1>3. EnclaveTypeOK'
    BY <1>1, SignLookupType DEF SignerInv, SignerTypeOK, Request, HasTicket
  <1>4. /\ UNCHANGED <<claims, keysByIdentityId>>
        /\ \A p \in Call \ {r} : call'[p] = call[p]
        /\ \/ call'[r] = Reply(404, None)
           \/ /\ keysByIdentityId[req[r].id] # None
              /\ call'[r] = Handler("verify", req[r].id, keysByIdentityId[req[r].id],
                                    req[r].nonce, req[r].digest)
    BY DEF SignLookup, SignerInv, SignerTypeOK, EnclaveTypeOK
  <1>5. ASSUME req'[r] = q PROVE RequestInv(r)'
    <2>1. RequestTyped(r)'
      BY <1>1, <1>2, <1>4, <1>5
         DEF SignerInv, RequestInv, RequestTyped, HasTicket, PcsOf, Request
    <2>2. CallMatches(r)'
      <3>1. CASE call'[r] = Reply(404, None)
        BY <1>2, <1>5, <3>1 DEF CallMatches, InFlight, Reply
      <3>2. CASE call'[r] = Handler("verify", req[r].id, keysByIdentityId[req[r].id],
                                    req[r].nonce, req[r].digest)
        BY <1>2, <1>5, <3>2 DEF CallMatches, InFlight, Handler
      <3> QED BY <1>4, <3>1, <3>2
    <2>3. KeyHeld(r)'
      BY <1>1, <1>2, <1>4, <1>5
         DEF SignerInv, RequestInv, KeysAgree, KeyHeld, InFlight, Answered, Reply, Handler,
             stores, history, Request
    <2>4. RequestOrdered(r)' /\ TicketHeld(r)'
      BY <1>2, <1>5 DEF SignerInv, RequestInv, RequestOrdered, TicketHeld, stores, history
    <2> QED BY <2>1, <2>2, <2>3, <2>4 DEF RequestInv
  <1>6. \A i \in Identity : keysByIdentityId'[i] # None => keysByIdentityId'[i] = keyOf[i]
    BY <1>4 DEF SignerInv, KeysAgree
  <1> QED BY <1>2, <1>3, <1>4, <1>5, <1>6, CallStep

LEMMA CallSignInv ==
    ASSUME SignerInv, NEW r \in Call, CallSign(r) PROVE SignerInv'
  <1> USE DEF CallSign, At
  <1> DEFINE q == [req[r] EXCEPT !.pc = "signing", !.retried = req[r].retried]
  <1>1. req[r] # Idle
    BY DEF Idle
  <1>2. req[r] \in Request /\ req[r].op \in {"sign", "batch"}
    BY <1>1, OpAt
  <1>3. req[r].retried \in BOOLEAN /\ q \in Request /\ req' = [req EXCEPT ![r] = q]
    BY <1>2 DEF Request, Pcs, Goto
  <1> QED BY <1>1, <1>2, <1>3, SignCallInv DEF Moved

\* A call of /internal/destroy.
LEMMA DestroyCallInv ==
    ASSUME SignerInv, NEW r \in Call, NEW q \in Request,
           Destroy(r, req[r].id), req[r] # Idle, req[r].op = "destroy",
           req' = [req EXCEPT ![r] = q],
           Moved(q, req[r], "destroying"),
           req[r].pc \in {"callDestroy", "importing"},
           UNCHANGED <<stores, held, history>>
    PROVE  SignerInv'
  <1>1. req[r] \in Request
    BY OpAt
  <1>2. /\ q.op = req[r].op /\ q.id = req[r].id /\ q.late = req[r].late
        /\ q.key = req[r].key /\ q.pc = "destroying"
    BY <1>1 DEF Request, Moved
  <1>3. EnclaveTypeOK'
    BY <1>1, DestroyType DEF SignerInv, SignerTypeOK, Request
  <1>4. /\ UNCHANGED claims
        /\ \A p \in Call \ {r} : call'[p] = call[p]
        /\ \E code \in Codes : call'[r] = Reply(code, None)
        /\ \A i \in Identity : keysByIdentityId'[i] # None =>
              keysByIdentityId'[i] = keysByIdentityId[i]
    BY DEF Destroy, SignerInv, SignerTypeOK, EnclaveTypeOK, Codes
  <1>5. ASSUME req'[r] = q PROVE RequestInv(r)'
    <2>1. call'[r].h = "reply"
      BY <1>4 DEF Reply
    <2>2. RequestTyped(r)'
      BY <1>2, <1>5 DEF RequestTyped, PcsOf
    <2>3. CallMatches(r)'
      BY <1>2, <1>5, <2>1 DEF CallMatches, InFlight
    <2>4. KeyHeld(r)' /\ RequestOrdered(r)' /\ TicketHeld(r)'
      BY <1>2, <1>5, <2>1
         DEF SignerInv, RequestInv, KeyHeld, RequestOrdered, TicketHeld, InFlight, stores, history
    <2> QED BY <2>2, <2>3, <2>4 DEF RequestInv
  <1>6. \A i \in Identity : keysByIdentityId'[i] # None => keysByIdentityId'[i] = keyOf[i]
    BY <1>4 DEF SignerInv, KeysAgree
  <1> QED BY <1>2, <1>3, <1>4, <1>5, <1>6, CallStep

LEMMA CallDestroyInv ==
    ASSUME SignerInv, NEW r \in Call, CallDestroy(r) PROVE SignerInv'
  <1> USE DEF CallDestroy, At
  <1> DEFINE q == [req[r] EXCEPT !.pc = "destroying", !.retried = req[r].retried]
  <1>1. req[r] # Idle
    BY DEF Idle
  <1>2. req[r] \in Request /\ req[r].op = "destroy"
    BY <1>1, OpAt
  <1>3. req[r].retried \in BOOLEAN /\ q \in Request /\ req' = [req EXCEPT ![r] = q]
    BY <1>2 DEF Request, Pcs, Goto
  <1> QED BY <1>1, <1>2, <1>3, DestroyCallInv DEF Moved

\* Reading a response, dropping it and going on to pc.
LEMMA ReadReplyGoto ==
    ASSUME SignerInv, NEW r \in Call, NEW pc \in Pcs, req[r] # Idle,
           Goto(r, pc), DropReply(r), UNCHANGED <<enclaveRest, stores, held, history>>,
           req'[r] = [req[r] EXCEPT !.pc = pc] /\ call'[r] = NoCall => RequestInv(r)'
    PROVE  SignerInv'
  <1> DEFINE q == [req[r] EXCEPT !.pc = pc]
  <1>1. q \in Request /\ q.op = req[r].op /\ q.id = req[r].id /\ req' = [req EXCEPT ![r] = q]
    BY OpAt DEF Request, Goto
  <1> HIDE DEF q
  <1> QED BY <1>1, ReadReplyStep DEF q

LEMMA ReadImportedInv ==
    ASSUME SignerInv, NEW r \in Call, ReadImported(r) PROVE SignerInv'
  <1> USE DEF ReadImported, At
  <1>1. req[r] # Idle
    BY DEF Idle
  <1>2. req[r] \in Request
    BY <1>1, OpAt
  <1>3. CASE End(r) /\ DropReply(r) /\ UNCHANGED enclaveRest
    BY <1>3, ReadReplyEnd
  <1>4. CASE req[r].op = "adopt" /\ Goto(r, "insert") /\ DropReply(r) /\ UNCHANGED enclaveRest
    <2>1. "insert" \in Pcs
      BY DEF Pcs
    <2>2. ASSUME req'[r] = [req[r] EXCEPT !.pc = "insert"], call'[r] = NoCall
          PROVE  RequestInv(r)'
      BY <1>2, <1>4, <2>2
         DEF Request, SignerInv, RequestInv, RequestTyped, PcsOf, CallMatches, KeyHeld,
             RequestOrdered, TicketHeld, InFlight, Answered, NoCall, stores, history
    <2> QED BY <1>1, <1>4, <2>1, <2>2, ReadReplyGoto
  <1>5. CASE /\ req[r].op \in {"sign", "batch"}
             /\ SignLookup(r, req[r].id, req[r].digest, req[r].nonce)
             /\ req' = [req EXCEPT ![r].pc = "signing", ![r].retried = TRUE]
    <2> DEFINE q == [req[r] EXCEPT !.pc = "signing", !.retried = TRUE]
    <2>1. q \in Request /\ req' = [req EXCEPT ![r] = q] /\ Moved(q, req[r], "signing")
      BY <1>2, <1>5 DEF Request, Pcs, SignerInv, SignerTypeOK, Moved
    <2> HIDE DEF q
    <2> QED BY <1>1, <1>5, <2>1, SignCallInv
  <1>6. CASE /\ req[r].op = "destroy"
             /\ Destroy(r, req[r].id)
             /\ req' = [req EXCEPT ![r].pc = "destroying", ![r].retried = TRUE]
    <2> DEFINE q == [req[r] EXCEPT !.pc = "destroying", !.retried = TRUE]
    <2>1. q \in Request /\ req' = [req EXCEPT ![r] = q] /\ Moved(q, req[r], "destroying")
      BY <1>2, <1>6 DEF Request, Pcs, SignerInv, SignerTypeOK, Moved
    <2> HIDE DEF q
    <2> QED BY <1>1, <1>6, <2>1, DestroyCallInv
  <1> QED BY <1>3, <1>4, <1>5, <1>6

LEMMA ReadDestroyedInv ==
    ASSUME SignerInv, NEW r \in Call, ReadDestroyed(r) PROVE SignerInv'
  <1> USE DEF ReadDestroyed, At
  <1>1. req[r] # Idle
    BY DEF Idle
  <1>2. req[r] \in Request /\ req[r].op = "destroy"
    BY <1>1, OpAt
  <1>3. CASE End(r)
    BY <1>3, ReadReplyEnd
  <1>4. ASSUME NEW pc \in {"markRow", "getBackup"}, Goto(r, pc) PROVE SignerInv'
    <2>1. pc \in Pcs
      BY DEF Pcs
    <2>2. ASSUME req'[r] = [req[r] EXCEPT !.pc = pc], call'[r] = NoCall
          PROVE  RequestInv(r)'
      BY <1>2, <2>2
         DEF Request, SignerInv, RequestInv, RequestTyped, PcsOf, CallMatches, KeyHeld,
             RequestOrdered, TicketHeld, InFlight, Answered, NoCall, stores, history
    <2> QED BY <1>1, <1>4, <2>1, <2>2, ReadReplyGoto
  <1> QED BY <1>3, <1>4

\* The enclave finishes a handler of request r.
LEMMA HandlerFinishInv ==
    ASSUME SignerInv, NEW r \in Call, HandlerFinish(r), UNCHANGED apiVars
    PROVE  SignerInv'
  <1> USE DEF HandlerFinish
  <1>1. InFlight(r) /\ call[r] \in CallState
    BY DEF SignVerify, ExportSealed, ImportSet, InFlight, SignerInv, SignerTypeOK, EnclaveTypeOK
  <1>2. req[r] # Idle
    BY <1>1 DEF SignerInv, RequestInv, CallMatches, InFlight, Idle, NoCall
  <1>3. req[r] \in Request
    BY <1>2, OpAt
  <1>4. /\ call[r].id = req[r].id
        /\ call[r].key = keyOf[req[r].id]
    BY <1>1 DEF SignerInv, RequestInv, CallMatches, KeyHeld
  <1>5. EnclaveTypeOK'
    BY SignVerifyType, ExportSealedType, ImportSetType DEF SignerInv, SignerTypeOK
  <1>6. /\ UNCHANGED claims
        /\ \A p \in Call \ {r} : call'[p] = call[p]
        /\ \A i \in Identity : \/ keysByIdentityId'[i] = keysByIdentityId[i]
                               \/ i = call[r].id /\ keysByIdentityId'[i] = call[r].key
    BY DEF SignVerify, ExportSealed, ImportSet, SignerInv, SignerTypeOK, EnclaveTypeOK
  <1>7. /\ call'[r].h = "reply"
        /\ call'[r].code = 200 /\ call[r].h # "unseal" => call'[r].key = call[r].key
    BY DEF SignVerify, ExportSealed, ImportSet, Reply, SignerInv, SignerTypeOK, EnclaveTypeOK
  <1>8. \A i \in Identity : keysByIdentityId'[i] # None => keysByIdentityId'[i] = keyOf[i]
    BY <1>4, <1>6 DEF SignerInv, KeysAgree
  <1>9. RequestInv(r)'
    <2>1. RequestTyped(r)' /\ RequestOrdered(r)' /\ TicketHeld(r)'
      BY <1>6 DEF SignerInv, RequestInv, RequestTyped, HasTicket, RequestOrdered, TicketHeld,
                  apiVars
    <2>2. CallMatches(r)' /\ KeyHeld(r)'
      BY <1>1, <1>4, <1>7
         DEF SignerInv, RequestInv, CallMatches, KeyHeld, InFlight, Answered, NoCall, apiVars
    <2> QED BY <2>1, <2>2 DEF RequestInv
  <1>10. req' = [req EXCEPT ![r] = req[r]]
    BY DEF SignerInv, SignerTypeOK, apiVars
  <1> QED BY <1>3, <1>5, <1>6, <1>8, <1>9, <1>10, CallStep DEF apiVars, stores, history

-----------------------------------------------------------------------------
\* The actions that write a store.

LEMMA StoreStep ==
    ASSUME SignerInv, NEW r \in Call, StoresGrow,
           \A p \in Call \ {r} : req'[p] = req[p] /\ call'[p] = call[p],
           \A p \in Call \ {r} : req[p].op = "create" /\ req[p].pc # "audit" =>
               row'[req[p].id] = row[req[p].id],
           req'[r].op = "create" =>
               \A p \in Call \ {r} : req[p].op = "create" => req[p].id # req'[r].id,
           SignerTypeOK', KeysAgree', StoresOrdered', TicketsMarked', RequestInv(r)'
    PROVE  SignerInv'
  <1>1. CreatesDistinct'
    BY DEF SignerInv, CreatesDistinct
  <1>2. \A p \in Call : RequestInv(p)'
    BY Others
  <1> QED BY <1>1, <1>2 DEF SignerInv

\* Generating a key does not change what others hold: no one has a copy of the
\* key of an identity that has none yet.
LEMMA CreateStep ==
    ASSUME SignerInv, NEW r \in Call, NEW q \in Request,
           q.op = "create", q.pc \in {"generated", "putBackup"}, q.key \in Key, q.late = FALSE,
           keyOf[q.id] = None, keyOf' = [keyOf EXCEPT ![q.id] = q.key],
           EnclaveTypeOK',
           req' = [req EXCEPT ![r] = q],
           \A p \in Call \ {r} : call'[p] = call[p],
           q.pc = "generated" => call'[r].h = "reply",
           q.pc = "putBackup" => call'[r] = NoCall,
           \A j \in Identity : \/ keysByIdentityId'[j] = keysByIdentityId[j]
                               \/ j = q.id /\ keysByIdentityId'[j] = q.key,
           UNCHANGED <<claims, stores, held, imported, crashed, redeemed, signed, sigs>>
    PROVE  SignerInv'
  <1>1. q.id \in Identity /\ q.key # None
    BY EnclaveAssumption DEF Request
  <1>2. req'[r] = q /\ \A p \in Call \ {r} : req'[p] = req[p]
    BY DEF SignerInv, SignerTypeOK
  <1>3. SignerTypeOK'
    BY <1>1 DEF SignerInv, SignerTypeOK, stores
  <1>4. /\ keyOf'[q.id] = q.key
        /\ \A j \in Identity : j # q.id => keyOf'[j] = keyOf[j]
    BY <1>1 DEF SignerInv, SignerTypeOK
  <1>5. row[q.id] = NoRow /\ backup[q.id] = None /\ q.id \notin imported
    BY <1>1, EnclaveAssumption DEF SignerInv, SignerTypeOK, KeysAgree, Row, Sealed
  <1>6. StoresGrow
    BY <1>1, <1>4 DEF StoresGrow, stores
  <1>7. KeysAgree'
    <2>1. \A s \in sigs : s[1] \in Identity /\ s[1] # q.id
      BY <1>5 DEF SignerInv, SignerTypeOK, KeysAgree
    <2> QED BY <1>1, <1>4, <1>5, <2>1 DEF SignerInv, KeysAgree, stores
  <1>8. StoresOrdered' /\ TicketsMarked'
    BY DEF SignerInv, StoresOrdered, TicketsMarked, stores
  <1>9. \A p \in Call \ {r} : req[p].op = "create" => req[p].id # q.id
    BY DEF SignerInv, RequestInv, RequestOrdered
  <1>10. RequestInv(r)'
    <2>1. RequestTyped(r)'
      BY <1>2 DEF RequestTyped, PcsOf
    <2>2. RequestOrdered(r)'
      BY <1>1, <1>2, <1>4, <1>5 DEF RequestOrdered, stores
    <2>3. TicketHeld(r)'
      BY <1>2 DEF TicketHeld
    <2>4. CallMatches(r)'
      BY <1>2 DEF CallMatches, InFlight, NoCall
    <2>5. KeyHeld(r)'
      BY <1>2, <1>4 DEF KeyHeld, InFlight, NoCall
    <2> QED BY <2>1, <2>2, <2>3, <2>4, <2>5 DEF RequestInv
  <1>11. UNCHANGED row
    BY DEF stores
  <1> QED BY <1>2, <1>3, <1>6, <1>7, <1>8, <1>9, <1>10, <1>11, StoreStep

LEMMA CreateWorkerInv ==
    ASSUME SignerInv, NEW r \in Call, NEW u \in User, NEW i \in Identity, NEW k \in Key,
           CreateWorker(r, u, i, k)
    PROVE  SignerInv'
  <1> USE DEF CreateWorker
  <1> DEFINE q == NewRequest("create", "putBackup", u, i, k, None, None, 0, FALSE)
  <1>1. EnclaveTypeOK'
    BY DEF SignerInv, SignerTypeOK, EnclaveTypeOK, InFlight
  <1>2. call'[r] = NoCall
    BY IdleCall
  <1>3. /\ q \in Request /\ q.op = "create" /\ q.pc = "putBackup" /\ q.id = i /\ q.key = k
        /\ q.late = FALSE
    BY SignerAssumption DEF NewRequest, Request, Ops, Pcs
  <1>4. req' = [req EXCEPT ![r] = q]
    OBVIOUS
  <1> HIDE DEF q
  <1> QED BY <1>1, <1>2, <1>3, <1>4, CreateStep

LEMMA CreateEnclaveInv ==
    ASSUME SignerInv, NEW r \in Call, NEW u \in User, NEW i \in Identity,
           CreateEnclave(r, u, i)
    PROVE  SignerInv'
  <1> USE DEF CreateEnclave
  <1>1. keysByIdentityId[i] = None
    BY DEF SignerInv, KeysAgree
  <1>2. EnclaveTypeOK'
    BY GenerateType DEF SignerInv, SignerTypeOK
  <1>3. PICK k \in Key : /\ keysByIdentityId' = [keysByIdentityId EXCEPT ![i] = k]
                         /\ call' = [call EXCEPT ![r] = Reply(200, k)]
    BY <1>1 DEF Generate
  <1>4. /\ call'[r] = Reply(200, k)
        /\ \A p \in Call \ {r} : call'[p] = call[p]
        /\ \A j \in Identity : \/ keysByIdentityId'[j] = keysByIdentityId[j]
                               \/ j = i /\ keysByIdentityId'[j] = k
        /\ UNCHANGED claims
    BY <1>3 DEF SignerInv, SignerTypeOK, EnclaveTypeOK, Generate
  <1>5. call'[r].h = "reply" /\ call'[r].key = k
    BY <1>4 DEF Reply
  <1> DEFINE q == NewRequest("create", "generated", u, i, k, None, None, 0, FALSE)
  <1>6. /\ q \in Request /\ q.op = "create" /\ q.pc = "generated" /\ q.id = i /\ q.key = k
        /\ q.late = FALSE
    BY SignerAssumption DEF NewRequest, Request, Ops, Pcs
  <1>7. req' = [req EXCEPT ![r] = q] /\ keyOf' = [keyOf EXCEPT ![i] = k]
    BY <1>5
  <1>8. /\ keyOf[q.id] = None
        /\ UNCHANGED <<stores, held, imported, crashed, redeemed, signed, sigs>>
    BY <1>6
  <1> HIDE DEF q, CreateEnclave
  <1>9. /\ q \in Request /\ q.op = "create" /\ q.pc \in {"generated", "putBackup"}
        /\ q.key \in Key /\ q.late = FALSE
    BY <1>6
  <1>10. keyOf[q.id] = None /\ keyOf' = [keyOf EXCEPT ![q.id] = q.key]
    BY <1>6, <1>7, <1>8
  <1>11. /\ q.pc = "generated" => call'[r].h = "reply"
         /\ q.pc = "putBackup" => call'[r] = NoCall
    BY <1>5, <1>6
  <1>12. \A j \in Identity : \/ keysByIdentityId'[j] = keysByIdentityId[j]
                             \/ j = q.id /\ keysByIdentityId'[j] = q.key
    BY <1>4, <1>6
  <1>13. UNCHANGED <<claims, stores, held, imported, crashed, redeemed, signed, sigs>>
    BY <1>4, <1>8
  <1>14. req' = [req EXCEPT ![r] = q] /\ \A p \in Call \ {r} : call'[p] = call[p]
    BY <1>4, <1>7
  <1> QED BY <1>2, <1>9, <1>10, <1>11, <1>12, <1>13, <1>14, CreateStep

\* A create stores the backup of its identity, which has no row yet.
LEMMA BackupStep ==
    ASSUME SignerInv, NEW r \in Call, NEW b \in Sealed,
           req[r].op = "create", req[r] # Idle, req[r].pc # "audit",
           b.key = keyOf[req[r].id],
           backup' = [backup EXCEPT ![req[r].id] = b],
           Goto(r, "insert"),
           EnclaveTypeOK', call'[r] = NoCall,
           \A p \in Call \ {r} : call'[p] = call[p],
           UNCHANGED <<claims, keysByIdentityId, row, audit, kv, held, history>>
    PROVE  SignerInv'
  <1> DEFINE q == [req[r] EXCEPT !.pc = "insert"]
  <1>1. req[r] \in Request /\ req[r].id \in Identity
    BY OpAt DEF Request
  <1>2. /\ q \in Request /\ q.op = "create" /\ q.pc = "insert" /\ q.id = req[r].id
        /\ q.key = req[r].key /\ q.late = req[r].late
    BY <1>1 DEF Request, Pcs
  <1>3. req' = [req EXCEPT ![r] = q]
    BY DEF Goto
  <1> HIDE DEF q
  <1>4. req'[r] = q /\ \A p \in Call \ {r} : req'[p] = req[p]
    BY <1>3 DEF SignerInv, SignerTypeOK
  <1>5. row[req[r].id] = NoRow /\ b # None
    BY SignerAssumption DEF SignerInv, RequestInv, RequestOrdered
  <1>6. /\ backup'[req[r].id] = b
        /\ \A i \in Identity : i # req[r].id => backup'[i] = backup[i]
    BY <1>1 DEF SignerInv, SignerTypeOK
  <1>7. SignerTypeOK'
    BY <1>1, <1>2, <1>3 DEF SignerInv, SignerTypeOK, history
  <1>8. StoresGrow
    BY <1>5, <1>6 DEF StoresGrow, history
  <1>9. KeysAgree'
    BY <1>5, <1>6 DEF SignerInv, KeysAgree, history
  <1>10. StoresOrdered'
    BY <1>5, <1>6 DEF SignerInv, StoresOrdered, NoRow
  <1>11. TicketsMarked'
    BY DEF SignerInv, TicketsMarked, history
  <1>12. RequestInv(r)'
    <2>1. RequestTyped(r)' /\ CallMatches(r)' /\ TicketHeld(r)'
      BY <1>2, <1>4
         DEF SignerInv, RequestInv, RequestTyped, PcsOf, CallMatches, TicketHeld, InFlight, NoCall
    <2>2. KeyHeld(r)' /\ RequestOrdered(r)'
      BY <1>2, <1>4, <1>5, <1>6
         DEF SignerInv, RequestInv, KeyHeld, RequestOrdered, InFlight, NoCall, history
    <2> QED BY <2>1, <2>2 DEF RequestInv
  <1>13. \A p \in Call \ {r} : req[p].op = "create" => req[p].id # q.id
    BY <1>2 DEF SignerInv, CreatesDistinct
  <1> QED BY <1>4, <1>7, <1>8, <1>9, <1>10, <1>11, <1>12, <1>13, StoreStep

LEMMA PutBackupInv ==
    ASSUME SignerInv, NEW r \in Call, PutBackup(r) PROVE SignerInv'
  <1> USE DEF PutBackup, At
  <1> DEFINE b == [key |-> req[r].key, fmt |-> "worker"]
  <1>1. req[r] # Idle /\ req[r].op = "create" /\ call[r] = NoCall
    BY OpAt, NoCallAt DEF Idle
  <1>2. req[r].key \in Key /\ req[r].key = keyOf[req[r].id]
    BY <1>1, EnclaveAssumption DEF SignerInv, RequestInv, RequestTyped, KeyHeld
  <1>3. b \in Sealed /\ b.key = keyOf[req[r].id]
    BY <1>2 DEF Sealed
  <1>4. EnclaveTypeOK' /\ UNCHANGED <<claims, call, keysByIdentityId>>
    BY DEF SignerInv, SignerTypeOK, EnclaveTypeOK, InFlight, enclaveVars
  <1> HIDE DEF b
  <1> QED BY <1>1, <1>3, <1>4, BackupStep DEF b

LEMMA ReadExportedInv ==
    ASSUME SignerInv, NEW r \in Call, ReadExported(r) PROVE SignerInv'
  <1> USE DEF ReadExported, At
  <1>1. req[r] # Idle /\ req[r].op = "create" /\ req[r].id \in Identity
    BY OpAt DEF Idle, Request
  <1>2. CASE End(r) /\ UNCHANGED backup
    BY <1>2, ReadReplyEnd DEF stores
  <1>3. CASE Answered(r, 200) /\ Goto(r, "insert")
             /\ backup' = [backup EXCEPT ![req[r].id] = [key |-> call[r].key, fmt |-> "enclave"]]
    <2> DEFINE b == [key |-> call[r].key, fmt |-> "enclave"]
    <2>1. call[r].key = keyOf[req[r].id]
      BY <1>3 DEF SignerInv, RequestInv, KeyHeld
    <2>2. keyOf[req[r].id] \in Key
      BY <1>1 DEF SignerInv, SignerTypeOK, RequestInv, RequestOrdered
    <2>3. b \in Sealed /\ b.key = keyOf[req[r].id]
      BY <2>1, <2>2 DEF Sealed
    <2>4. EnclaveTypeOK' /\ call'[r] = NoCall /\ \A p \in Call \ {r} : call'[p] = call[p]
      BY DropReplyType DEF SignerInv, SignerTypeOK
    <2>5. UNCHANGED <<claims, keysByIdentityId>>
      BY DEF enclaveRest
    <2> HIDE DEF b
    <2> QED BY <1>1, <1>3, <2>3, <2>4, <2>5, BackupStep DEF b
  <1> QED BY <1>2, <1>3

LEMMA InsertInv ==
    ASSUME SignerInv, NEW r \in Call, Insert(r) PROVE SignerInv'
  <1> USE DEF Insert, At
  <1>1. req[r] # Idle /\ req[r].op \in {"create", "adopt"} /\ call[r] = NoCall
    BY OpAt, NoCallAt DEF Idle
  <1>2. CASE End(r) /\ UNCHANGED row
    BY <1>1, <1>2, EndInv DEF stores
  <1>3. CASE /\ row[req[r].id] = NoRow
             /\ Goto(r, "audit")
             /\ row' = [row EXCEPT ![req[r].id] =
                          [status |-> "active", owner |-> req[r].user, pk |-> req[r].key]]
    <2> DEFINE q == [req[r] EXCEPT !.pc = "audit"]
               w == [status |-> "active", owner |-> req[r].user, pk |-> req[r].key]
               i == req[r].id
    <2>1. req[r] \in Request /\ i \in Identity
      BY <1>1, OpAt DEF Request
    <2>2. /\ q \in Request /\ q.op = req[r].op /\ q.pc = "audit" /\ q.id = i
          /\ q.key = req[r].key /\ q.late = req[r].late /\ req' = [req EXCEPT ![r] = q]
      BY <1>3, <2>1 DEF Request, Pcs, Goto
    <2>3. /\ req[r].key \in Key /\ req[r].key = keyOf[i]
      BY <1>1, EnclaveAssumption DEF SignerInv, RequestInv, RequestTyped, KeyHeld
    <2>4. w \in Row /\ w # NoRow /\ w.pk = keyOf[i] /\ w.status = "active"
      BY <2>1, <2>3 DEF Row, NoRow, Request
    <2>5. row' = [row EXCEPT ![i] = w]
      BY <1>3
    <2> HIDE DEF q, w
    <2>6. req'[r] = q /\ \A p \in Call \ {r} : req'[p] = req[p]
      BY <2>2 DEF SignerInv, SignerTypeOK
    <2>7. row'[i] = w /\ \A j \in Identity : j # i => row'[j] = row[j]
      BY <2>1, <2>5 DEF SignerInv, SignerTypeOK
    <2>8. backup[i] # None
      BY <1>1, <1>3 DEF SignerInv, RequestInv, RequestOrdered
    <2>9. SignerTypeOK'
      BY <2>1, <2>2, <2>4, <2>5
         DEF SignerInv, SignerTypeOK, EnclaveTypeOK, InFlight, history, enclaveVars
    <2>10. StoresGrow
      BY <1>3, <2>4, <2>7 DEF StoresGrow, history, enclaveVars, NoRow
    <2>11. KeysAgree'
      BY <2>4, <2>7 DEF SignerInv, KeysAgree, history, enclaveVars, SignerTypeOK
    <2>12. StoresOrdered'
      BY <1>3, <2>4, <2>7, <2>8 DEF SignerInv, StoresOrdered, NoRow
    <2>13. TicketsMarked'
      BY DEF SignerInv, TicketsMarked, history, enclaveVars
    <2>14. RequestInv(r)'
      <3>1. RequestTyped(r)' /\ CallMatches(r)' /\ TicketHeld(r)'
        BY <1>1, <2>2, <2>3, <2>6
           DEF SignerInv, RequestInv, RequestTyped, PcsOf, CallMatches, TicketHeld, InFlight,
               NoCall, enclaveVars
      <3>2. KeyHeld(r)' /\ RequestOrdered(r)'
        BY <1>1, <2>2, <2>3, <2>4, <2>6, <2>7
           DEF SignerInv, RequestInv, KeyHeld, RequestOrdered, InFlight, NoCall, history,
               enclaveVars
      <3> QED BY <3>1, <3>2 DEF RequestInv
    <2>15. \A p \in Call \ {r} : req[p].op = "create" => req[p].id # i
      BY <1>1 DEF SignerInv, CreatesDistinct, RequestInv, RequestOrdered
    <2>16. \A p \in Call \ {r} : req[p].op = "create" => row'[req[p].id] = row[req[p].id]
      BY <2>7, <2>15, OpAt DEF Idle, Request
    <2>17. \A p \in Call : call'[p] = call[p]
      BY DEF enclaveVars
    <2> QED BY <2>2, <2>6, <2>9, <2>10, <2>11, <2>12, <2>13, <2>14, <2>15, <2>16, <2>17, StoreStep
  <1> QED BY <1>2, <1>3

\* A fresh ticket: minted, stored in KV.
LEMMA TicketStep ==
    ASSUME SignerInv, NEW r \in Call, NEW n \in Nonce, NEW d \in Digest,
           NEW q \in Request \cup {Idle},
           req[r] # Idle, call[r] = NoCall, Mint(n, req[r].id, d),
           kv' = [kv EXCEPT ![n] = "fresh"],
           req' = [req EXCEPT ![r] = q],
           q.op # "create",
           held \subseteq held', held' \subseteq held \cup {n},
           signed' \in [Nonce -> 0..MaxSigned],
           sigs' = sigs \/ sigs' = sigs \cup {<<req[r].id, keyOf[req[r].id]>>},
           sigs' # sigs => row[req[r].id] # NoRow,
           UNCHANGED <<now, restarts, keysByIdentityId, nonceReplayCache, call, born, uses,
                       row, backup, audit, imported, crashed, keyOf, redeemed>>,
           req'[r] = q /\ claims'[n] # None => RequestInv(r)'
    PROVE  SignerInv'
  <1>1. req[r] \in Request /\ req[r].id \in Identity
    BY OpAt DEF Request
  <1>2. EnclaveTypeOK'
    BY <1>1, MintType DEF SignerInv, SignerTypeOK
  <1>3. /\ claims[n] = None /\ claims'[n] # None
        /\ \A m \in Nonce : claims[m] # None => claims'[m] = claims[m]
    <2>1. [id |-> req[r].id, digest |-> d, exp |-> now + TicketTtl] \in Claims
      BY <1>1, EnclaveAssumption DEF Claims, SignerInv, SignerTypeOK, EnclaveTypeOK
    <2> QED BY <2>1, EnclaveAssumption DEF Mint, SignerInv, SignerTypeOK, EnclaveTypeOK
  <1>4. /\ kv'[n] = "fresh"
        /\ \A m \in Nonce : m # n => kv'[m] = kv[m]
    BY DEF SignerInv, SignerTypeOK
  <1>5. sigs' # sigs => keyOf[req[r].id] \in Key
    BY <1>1, EnclaveAssumption DEF SignerInv, SignerTypeOK, KeysAgree, Row
  <1>6. SignerTypeOK'
    <2>1. sigs' \subseteq Identity \X Key
      BY <1>1, <1>5 DEF SignerInv, SignerTypeOK
    <2>2. kv' \in [Nonce -> {"none", "fresh", "used"}]
      BY DEF SignerInv, SignerTypeOK
    <2>3. held' \subseteq Nonce /\ req' \in [Call -> Request \cup {Idle}]
      BY DEF SignerInv, SignerTypeOK
    <2> QED BY <1>2, <2>1, <2>2, <2>3 DEF SignerInv, SignerTypeOK
  <1>7. StoresGrow
    BY <1>3, <1>4 DEF StoresGrow
  <1>8. KeysAgree' /\ StoresOrdered'
    BY DEF SignerInv, KeysAgree, StoresOrdered
  <1>9. TicketsMarked'
    BY <1>3, <1>4 DEF SignerInv, SignerTypeOK, TicketsMarked
  <1>10. req'[r] = q /\ \A p \in Call \ {r} : req'[p] = req[p]
    BY DEF SignerInv, SignerTypeOK
  <1> QED BY <1>3, <1>6, <1>7, <1>8, <1>9, <1>10, StoreStep

LEMMA MintTicketInv ==
    ASSUME SignerInv, NEW r \in Call, NEW n \in Nonce, MintTicket(r, n) PROVE SignerInv'
  <1> USE DEF MintTicket, At
  <1>1. req[r] # Idle /\ call[r] = NoCall
    BY NoCallAt DEF Idle
  <1>2. req[r].digest \in Digest
    BY <1>1, OpAt DEF SignerInv, RequestInv, RequestTyped
  <1>3. req' = [req EXCEPT ![r] = Idle] /\ Idle.op # "create" /\ UNCHANGED signed
    BY DEF End, Idle, history
  <1>4. req'[r] = Idle => RequestInv(r)'
    BY <1>1, IdleInv
  <1>5. signed' \in [Nonce -> 0..MaxSigned]
    BY <1>3 DEF SignerInv, SignerTypeOK
  <1> QED BY <1>1, <1>2, <1>3, <1>4, <1>5, TicketStep DEF history

LEMMA BatchTicketInv ==
    ASSUME SignerInv, NEW r \in Call, NEW n \in Nonce, NEW d \in Digest, BatchTicket(r, n, d)
    PROVE  SignerInv'
  <1> USE DEF BatchTicket, At
  <1>1. req[r] # Idle /\ call[r] = NoCall
    BY NoCallAt DEF Idle
  <1>2. req[r] \in Request /\ req[r].op = "batch"
    BY <1>1, OpAt
  <1>3. /\ req[r].left > 0 /\ row[req[r].id] # NoRow /\ ~req[r].late
        /\ req[r].key # None => req[r].key = keyOf[req[r].id]
        /\ Mode = "worker" => req[r].key \in Key
    BY <1>2 DEF SignerInv, RequestInv, RequestTyped, RequestOrdered, TicketHeld, KeyHeld
  <1>4. ASSUME NEW q \in Request, NEW pc \in {"lookup", "mark"},
               q.op = "batch", q.pc = pc, q.id = req[r].id, q.key = req[r].key,
               q.nonce = n, q.digest = d, q.left = req[r].left, q.late = req[r].late,
               req'[r] = q, claims'[n] # None,
               pc = "lookup" => Mode = "enclave"
        PROVE  RequestInv(r)'
    <2>1. RequestTyped(r)'
      BY <1>3, <1>4 DEF RequestTyped, HasTicket, PcsOf
    <2>2. CallMatches(r)' /\ TicketHeld(r)'
      BY <1>1, <1>3, <1>4 DEF CallMatches, TicketHeld, InFlight, NoCall
    <2>3. KeyHeld(r)' /\ RequestOrdered(r)'
      BY <1>1, <1>3, <1>4 DEF KeyHeld, RequestOrdered, InFlight, NoCall
    <2> QED BY <2>1, <2>2, <2>3 DEF RequestInv
  <1>5. CASE /\ Mode = "enclave"
             /\ req' = [req EXCEPT ![r].pc = "lookup", ![r].nonce = n,
                                   ![r].digest = d, ![r].retried = FALSE]
             /\ UNCHANGED <<signed, sigs>>
    <2> DEFINE q == [req[r] EXCEPT !.pc = "lookup", !.nonce = n, !.digest = d, !.retried = FALSE]
    <2>1. /\ q \in Request /\ q.op = "batch" /\ q.pc = "lookup" /\ q.id = req[r].id
          /\ q.key = req[r].key /\ q.nonce = n /\ q.digest = d /\ q.left = req[r].left
          /\ q.late = req[r].late
      BY <1>2 DEF Request, Pcs
    <2>2. req' = [req EXCEPT ![r] = q]
      BY <1>5 DEF SignerInv, SignerTypeOK
    <2>3. signed' \in [Nonce -> 0..MaxSigned]
      BY <1>5 DEF SignerInv, SignerTypeOK
    <2> HIDE DEF q
    <2>4. req'[r] = q /\ claims'[n] # None => RequestInv(r)'
      BY <1>4, <1>5, <2>1
    <2> QED BY <1>1, <1>5, <2>1, <2>2, <2>3, <2>4, TicketStep
  <1>6. CASE /\ Mode = "worker"
             /\ Obtain(r, n, req[r].key)
             /\ req' = [req EXCEPT ![r].pc = "mark", ![r].nonce = n, ![r].digest = d]
    <2> DEFINE q == [req[r] EXCEPT !.pc = "mark", !.nonce = n, !.digest = d]
    <2>1. /\ q \in Request /\ q.op = "batch" /\ q.pc = "mark" /\ q.id = req[r].id
          /\ q.key = req[r].key /\ q.nonce = n /\ q.digest = d /\ q.left = req[r].left
          /\ q.late = req[r].late
      BY <1>2 DEF Request, Pcs
    <2>2. req' = [req EXCEPT ![r] = q]
      BY <1>6 DEF SignerInv, SignerTypeOK
    <2>3. signed' \in [Nonce -> 0..MaxSigned]
      BY <1>6, SignerAssumption DEF Obtain, SignerInv, SignerTypeOK
    <2> HIDE DEF q
    <2>4. req'[r] = q /\ claims'[n] # None => RequestInv(r)'
      BY <1>4, <2>1
    <2>5. req[r].key \in Key
      BY <1>2, <1>6 DEF SignerInv, RequestInv, RequestTyped
    <2>6. sigs' = sigs \cup {<<req[r].id, keyOf[req[r].id]>>}
      BY <1>3, <1>6, <2>5, EnclaveAssumption DEF Obtain
    <2> QED BY <1>1, <1>3, <2>1, <2>2, <2>3, <2>4, <2>6, TicketStep
  <1> QED BY <1>5, <1>6

\* A signature under the key of the identity reaches the API.
LEMMA ObtainStep ==
    ASSUME SignerInv, NEW r \in Call, NEW k \in Key,
           req[r] # Idle, HasTicket(r), ~req[r].late,
           req[r].op = "sign" \/ (req[r].op = "batch" /\ req[r].pc = "signing" /\ Mode = "enclave"),
           Obtain(r, req[r].nonce, k), k = keyOf[req[r].id],
           Goto(r, "mark"),
           EnclaveTypeOK', call'[r] = NoCall,
           \A p \in Call \ {r} : call'[p] = call[p],
           UNCHANGED <<claims, keysByIdentityId, stores, held, imported, crashed, keyOf, redeemed>>
    PROVE  SignerInv'
  <1> DEFINE q == [req[r] EXCEPT !.pc = "mark"]
  <1>1. req[r] \in Request /\ req[r].id \in Identity
    BY OpAt DEF Request
  <1>2. /\ q \in Request /\ q.op = req[r].op /\ q.pc = "mark" /\ q.id = req[r].id
        /\ q.key = req[r].key /\ q.late = req[r].late /\ q.nonce = req[r].nonce
        /\ q.digest = req[r].digest /\ q.left = req[r].left
    BY <1>1 DEF Request, Pcs
  <1>3. req' = [req EXCEPT ![r] = q]
    BY DEF Goto
  <1> HIDE DEF q
  <1>4. req'[r] = q /\ \A p \in Call \ {r} : req'[p] = req[p]
    BY <1>3 DEF SignerInv, SignerTypeOK
  <1>5. row[req[r].id] # NoRow
    BY DEF SignerInv, RequestInv, RequestOrdered
  <1>6. SignerTypeOK'
    <2>1. signed' \in [Nonce -> 0..MaxSigned]
      BY SignerAssumption DEF Obtain, HasTicket, SignerInv, SignerTypeOK
    <2>2. sigs' \subseteq Identity \X Key
      BY <1>1 DEF Obtain, SignerInv, SignerTypeOK
    <2> QED BY <1>2, <1>3, <2>1, <2>2 DEF SignerInv, SignerTypeOK, stores
  <1>7. StoresGrow
    BY DEF StoresGrow, stores
  <1>8. KeysAgree' /\ StoresOrdered' /\ TicketsMarked'
    BY <1>5 DEF SignerInv, KeysAgree, StoresOrdered, TicketsMarked, Obtain, stores
  <1>9. RequestInv(r)'
    <2>1. RequestTyped(r)'
      BY <1>2, <1>4, <1>5 DEF SignerInv, RequestInv, RequestTyped, HasTicket, PcsOf
    <2>2. CallMatches(r)' /\ TicketHeld(r)'
      BY <1>2, <1>4 DEF CallMatches, TicketHeld, InFlight, NoCall
    <2>3. KeyHeld(r)' /\ RequestOrdered(r)'
      BY <1>2, <1>4
         DEF SignerInv, RequestInv, KeyHeld, RequestOrdered, InFlight, NoCall, stores
    <2> QED BY <2>1, <2>2, <2>3 DEF RequestInv
  <1>10. UNCHANGED row
    BY DEF stores
  <1> QED BY <1>2, <1>4, <1>6, <1>7, <1>8, <1>9, <1>10, StoreStep

LEMMA BackupSignInv ==
    ASSUME SignerInv, NEW r \in Call, BackupSign(r) PROVE SignerInv'
  <1> USE DEF BackupSign, At
  <1> DEFINE k == backup[req[r].id].key
  <1>1. req[r] # Idle /\ call[r] = NoCall
    BY NoCallAt DEF Idle
  <1>2. CASE End(r) /\ UNCHANGED <<signed, sigs>>
    BY <1>1, <1>2, EndInv DEF history
  <1>3. CASE Obtain(r, req[r].nonce, k) /\ Goto(r, "mark")
    <2>1. k \in Key /\ k = keyOf[req[r].id]
      BY <1>1, OpAt DEF SignerInv, SignerTypeOK, KeysAgree, Request, Sealed
    <2>2. HasTicket(r) /\ ~req[r].late
      BY DEF SignerInv, RequestInv, RequestTyped, TicketHeld
    <2>3. EnclaveTypeOK' /\ UNCHANGED <<claims, call, keysByIdentityId>>
      BY DEF SignerInv, SignerTypeOK, EnclaveTypeOK, InFlight, enclaveVars
    <2> HIDE DEF k
    <2> QED BY <1>1, <1>3, <2>1, <2>2, <2>3, ObtainStep
  <1> QED BY <1>2, <1>3

LEMMA ReadSignatureInv ==
    ASSUME SignerInv, NEW r \in Call, ReadSignature(r) PROVE SignerInv'
  <1> USE DEF ReadSignature, At
  <1> DEFINE k == call[r].key
  <1>1. req[r] # Idle
    BY DEF Idle
  <1>2. /\ req[r] \in Request /\ req[r].op \in {"sign", "batch"}
        /\ HasTicket(r) /\ ~req[r].late /\ Mode = "enclave"
    BY <1>1, OpAt DEF SignerInv, RequestInv, RequestTyped, TicketHeld
  <1>3. CASE End(r) /\ UNCHANGED <<signed, sigs>>
    BY <1>3, ReadReplyEnd DEF history
  <1>4. CASE Goto(r, "getBackup") /\ UNCHANGED <<signed, sigs>>
    <2>1. "getBackup" \in Pcs
      BY DEF Pcs
    <2>2. ASSUME req'[r] = [req[r] EXCEPT !.pc = "getBackup"], call'[r] = NoCall
          PROVE  RequestInv(r)'
      <3>1. RequestTyped(r)'
        BY <1>2, <2>2
           DEF Request, SignerInv, RequestInv, RequestTyped, HasTicket, PcsOf, enclaveRest
      <3> QED BY <1>2, <2>2, <3>1
           DEF Request, SignerInv, RequestInv, CallMatches, KeyHeld, RequestOrdered, TicketHeld,
               InFlight, Answered, NoCall, stores
    <2> QED BY <1>1, <1>4, <2>1, <2>2, ReadReplyGoto DEF history
  <1>5. CASE Answered(r, 200) /\ Obtain(r, req[r].nonce, k) /\ Goto(r, "mark")
    <2>1. k = keyOf[req[r].id]
      BY <1>5 DEF SignerInv, RequestInv, KeyHeld
    <2>2. keyOf[req[r].id] \in Key
      BY <1>2, EnclaveAssumption
         DEF SignerInv, SignerTypeOK, RequestInv, RequestOrdered, KeysAgree, Row, Request
    <2>3. EnclaveTypeOK' /\ call'[r] = NoCall /\ \A p \in Call \ {r} : call'[p] = call[p]
      BY DropReplyType DEF SignerInv, SignerTypeOK
    <2>4. UNCHANGED <<claims, keysByIdentityId>>
      BY DEF enclaveRest
    <2> HIDE DEF k
    <2> QED BY <1>1, <1>2, <1>5, <2>1, <2>2, <2>3, <2>4, ObtainStep
  <1> QED BY <1>3, <1>4, <1>5

\* markTicketUsed only marks, so it un-marks no ticket.
LEMMA MarkUsedInv ==
    ASSUME SignerInv, NEW r \in Call, MarkUsed(r) PROVE SignerInv'
  <1> USE DEF MarkUsed, At
  <1>1. req[r] # Idle /\ call[r] = NoCall
    BY NoCallAt DEF Idle
  <1>2. req[r] \in Request /\ req[r].op \in {"sign", "batch"} /\ HasTicket(r) /\ ~req[r].late
    BY <1>1, OpAt DEF SignerInv, RequestInv, RequestTyped, TicketHeld
  <1>3. PICK q \in Request :
           /\ req' = [req EXCEPT ![r] = q]
           /\ q.op = req[r].op /\ q.id = req[r].id /\ q.key = req[r].key
           /\ q.late = req[r].late /\ q.nonce = req[r].nonce /\ q.digest = req[r].digest
           /\ q.pc = "audit" \/ (q.op = "batch" /\ q.pc = "ticket" /\ q.left > 0)
    <2>1. CASE req[r].op = "batch"
      <3> DEFINE q == [req[r] EXCEPT !.left = req[r].left - 1,
                                     !.pc = IF req[r].left = 1 THEN "audit" ELSE "ticket"]
      <3>1. req[r].left > 0 /\ req[r].left \in 0..BatchSize
        BY <1>2, <2>1 DEF SignerInv, RequestInv, RequestTyped, Request
      <3>2. req[r].left - 1 \in 0..BatchSize /\ (req[r].left # 1 => req[r].left - 1 > 0)
        BY <3>1, SignerAssumption
      <3>3. /\ q \in Request /\ req' = [req EXCEPT ![r] = q]
            /\ q.op = req[r].op /\ q.id = req[r].id /\ q.key = req[r].key
            /\ q.late = req[r].late /\ q.nonce = req[r].nonce /\ q.digest = req[r].digest
            /\ q.pc = "audit" \/ (q.pc = "ticket" /\ q.left > 0)
        BY <1>2, <2>1, <3>2 DEF Request, Pcs, SignerInv, SignerTypeOK
      <3> HIDE DEF q
      <3> QED BY <2>1, <3>3
    <2>2. CASE req[r].op # "batch"
      <3> DEFINE q == [req[r] EXCEPT !.pc = "audit"]
      <3>1. /\ q \in Request /\ req' = [req EXCEPT ![r] = q]
            /\ q.op = req[r].op /\ q.id = req[r].id /\ q.key = req[r].key
            /\ q.late = req[r].late /\ q.nonce = req[r].nonce /\ q.digest = req[r].digest
            /\ q.pc = "audit"
        BY <1>2, <2>2 DEF Request, Pcs, Goto
      <3> HIDE DEF q
      <3> QED BY <3>1
    <2> QED BY <2>1, <2>2
  <1>4. req'[r] = q /\ \A p \in Call \ {r} : req'[p] = req[p]
    BY <1>3 DEF SignerInv, SignerTypeOK
  <1>5. /\ kv' \in [Nonce -> {"none", "fresh", "used"}]
        /\ kv'[req[r].nonce] # "fresh"
        /\ \A n \in Nonce : kv[n] # "fresh" => kv'[n] # "fresh"
    BY <1>2 DEF HasTicket, SignerInv, SignerTypeOK
  <1>6. SignerTypeOK'
    BY <1>3, <1>5 DEF SignerInv, SignerTypeOK, EnclaveTypeOK, InFlight, enclaveVars, history
  <1>7. StoresGrow
    BY <1>5 DEF StoresGrow, enclaveVars, history
  <1>8. KeysAgree' /\ StoresOrdered' /\ TicketsMarked'
    BY <1>5 DEF SignerInv, SignerTypeOK, KeysAgree, StoresOrdered, TicketsMarked, enclaveVars,
                history
  <1>9. RequestInv(r)'
    <2>1. RequestTyped(r)'
      BY <1>2, <1>3, <1>4
         DEF SignerInv, RequestInv, RequestTyped, HasTicket, PcsOf, enclaveVars
    <2>2. CallMatches(r)' /\ TicketHeld(r)'
      BY <1>1, <1>2, <1>3, <1>4, <1>5 DEF CallMatches, TicketHeld, InFlight, NoCall, enclaveVars
    <2>3. KeyHeld(r)' /\ RequestOrdered(r)'
      BY <1>1, <1>2, <1>3, <1>4
         DEF SignerInv, RequestInv, KeyHeld, RequestOrdered, InFlight, NoCall, enclaveVars, history
    <2> QED BY <2>1, <2>2, <2>3 DEF RequestInv
  <1>10. \A p \in Call \ {r} : call'[p] = call[p]
    BY DEF enclaveVars
  <1> QED BY <1>2, <1>3, <1>4, <1>6, <1>7, <1>8, <1>9, <1>10, StoreStep

LEMMA MarkDestroyedInv ==
    ASSUME SignerInv, NEW r \in Call, MarkDestroyed(r) PROVE SignerInv'
  <1> USE DEF MarkDestroyed, At
  <1> DEFINE q == [req[r] EXCEPT !.pc = "delBackup"]
             i == req[r].id
             w == [row[i] EXCEPT !.status = "destroyed"]
  <1>1. req[r] # Idle /\ call[r] = NoCall
    BY NoCallAt DEF Idle
  <1>2. req[r] \in Request /\ req[r].op = "destroy" /\ i \in Identity /\ row[i] # NoRow
    BY <1>1, OpAt DEF SignerInv, RequestInv, RequestOrdered, Request
  <1>3. /\ q \in Request /\ q.op = "destroy" /\ q.pc = "delBackup" /\ q.id = i
        /\ q.key = req[r].key /\ q.late = req[r].late /\ req' = [req EXCEPT ![r] = q]
    BY <1>2 DEF Request, Pcs, Goto
  <1>4. w \in Row /\ w.status = "destroyed" /\ w.pk = row[i].pk /\ row' = [row EXCEPT ![i] = w]
    BY <1>2 DEF Row, SignerInv, SignerTypeOK
  <1>5. w # NoRow
    BY <1>4 DEF NoRow
  <1> HIDE DEF q, w
  <1>6. req'[r] = q /\ \A p \in Call \ {r} : req'[p] = req[p]
    BY <1>3 DEF SignerInv, SignerTypeOK
  <1>7. row'[i] = w /\ \A j \in Identity : j # i => row'[j] = row[j]
    BY <1>2, <1>4 DEF SignerInv, SignerTypeOK
  <1>8. SignerTypeOK'
    BY <1>2, <1>3, <1>4
       DEF SignerInv, SignerTypeOK, EnclaveTypeOK, InFlight, enclaveVars, history
  <1>9. StoresGrow
    BY <1>4, <1>5, <1>7 DEF StoresGrow, enclaveVars, history
  <1>10. KeysAgree' /\ StoresOrdered' /\ TicketsMarked'
    BY <1>2, <1>4, <1>5, <1>7
       DEF SignerInv, SignerTypeOK, KeysAgree, StoresOrdered, TicketsMarked, enclaveVars, history
  <1>11. RequestInv(r)'
    BY <1>1, <1>2, <1>3, <1>4, <1>5, <1>6, <1>7
       DEF SignerInv, RequestInv, RequestTyped, PcsOf, CallMatches, KeyHeld, RequestOrdered,
           TicketHeld, InFlight, Answered, NoCall, enclaveVars, history
  <1>12. \A p \in Call \ {r} : req[p].op = "create" /\ req[p].pc # "audit" =>
            row'[req[p].id] = row[req[p].id]
    BY <1>2, <1>7, OpAt DEF Idle, Request, SignerInv, RequestInv, RequestOrdered
  <1>13. \A p \in Call : call'[p] = call[p]
    BY DEF enclaveVars
  <1> QED BY <1>3, <1>6, <1>8, <1>9, <1>10, <1>11, <1>12, <1>13, StoreStep

\* A backup is deleted only when its row is marked, so no row is left active
\* without one and no create is waiting to insert a row for it.
LEMMA DeleteBackupInv ==
    ASSUME SignerInv, NEW r \in Call, DeleteBackup(r) PROVE SignerInv'
  <1> USE DEF DeleteBackup, At
  <1> DEFINE q == [req[r] EXCEPT !.pc = "audit"]
             i == req[r].id
  <1>1. req[r] # Idle /\ call[r] = NoCall
    BY NoCallAt DEF Idle
  <1>2. /\ req[r] \in Request /\ req[r].op = "destroy" /\ i \in Identity
        /\ row[i].status = "destroyed" /\ row[i] # NoRow
    BY <1>1, OpAt DEF SignerInv, RequestInv, RequestOrdered, Request
  <1>3. /\ q \in Request /\ q.op = "destroy" /\ q.pc = "audit" /\ q.id = i
        /\ q.key = req[r].key /\ q.late = req[r].late /\ req' = [req EXCEPT ![r] = q]
    BY <1>2 DEF Request, Pcs, Goto
  <1> HIDE DEF q
  <1>4. req'[r] = q /\ \A p \in Call \ {r} : req'[p] = req[p]
    BY <1>3 DEF SignerInv, SignerTypeOK
  <1>5. backup'[i] = None /\ \A j \in Identity : j # i => backup'[j] = backup[j]
    BY <1>2 DEF SignerInv, SignerTypeOK
  <1>6. SignerTypeOK'
    BY <1>2, <1>3
       DEF SignerInv, SignerTypeOK, EnclaveTypeOK, InFlight, enclaveVars, history
  <1>7. StoresGrow
    BY <1>2, <1>5 DEF StoresGrow, enclaveVars, history
  <1>8. KeysAgree' /\ StoresOrdered' /\ TicketsMarked'
    BY <1>2, <1>5
       DEF SignerInv, KeysAgree, StoresOrdered, TicketsMarked, enclaveVars, history
  <1>9. RequestInv(r)'
    BY <1>1, <1>2, <1>3, <1>4, <1>5
       DEF SignerInv, RequestInv, RequestTyped, PcsOf, CallMatches, KeyHeld, RequestOrdered,
           TicketHeld, InFlight, Answered, NoCall, enclaveVars, history
  <1>10. \A p \in Call : call'[p] = call[p]
    BY DEF enclaveVars
  <1> QED BY <1>3, <1>4, <1>6, <1>7, <1>8, <1>9, <1>10, StoreStep

LEMMA AddAuditEventInv ==
    ASSUME SignerInv, NEW r \in Call, AddAuditEvent(r) PROVE SignerInv'
  <1> USE DEF AddAuditEvent, At
  <1> DEFINE i == req[r].id
  <1>1. req[r] # Idle /\ call[r] = NoCall
    BY NoCallAt DEF Idle
  <1>2. /\ req[r] \in Request /\ i \in Identity
        /\ req[r].op \in {"create", "adopt", "sign", "batch", "destroy"}
    BY <1>1, OpAt DEF Request
  <1>3. req'[r] = Idle /\ call'[r] = NoCall /\ \A p \in Call \ {r} : req'[p] = req[p]
    BY <1>1 DEF End, SignerInv, SignerTypeOK, enclaveVars
  <1>4. req[r].op = "sign" => HasTicket(r) /\ kv[req[r].nonce] # "fresh"
    BY DEF SignerInv, RequestInv, RequestTyped, TicketHeld
  <1>5. SignerTypeOK'
    <2>1. audit' \subseteq AuditActions \X Identity
      BY <1>2 DEF SignerInv, SignerTypeOK, AuditAction, AuditActions
    <2>2. redeemed' \subseteq Nonce
      BY <1>4 DEF HasTicket, SignerInv, SignerTypeOK
    <2>3. req' \in [Call -> Request \cup {Idle}]
      BY DEF End, SignerInv, SignerTypeOK
    <2> QED BY <2>1, <2>2, <2>3 DEF SignerInv, SignerTypeOK, EnclaveTypeOK, InFlight, enclaveVars
  <1>6. StoresGrow
    BY DEF StoresGrow, enclaveVars
  <1>7. KeysAgree' /\ TicketsMarked'
    BY <1>4 DEF HasTicket, SignerInv, KeysAgree, TicketsMarked, enclaveVars
  <1>8. StoresOrdered'
    <2>1. req[r].op = "destroy" => row[i].status = "destroyed" /\ backup[i] = None
      BY DEF SignerInv, RequestInv, RequestOrdered
    <2>2. AuditAction(req[r].op) = "identity.destroy" => req[r].op = "destroy"
      BY <1>2 DEF AuditAction
    <2> QED BY <2>1, <2>2 DEF SignerInv, StoresOrdered
  <1>9. RequestInv(r)'
    BY <1>3, IdleInv
  <1>10. req'[r].op # "create" /\ \A p \in Call : call'[p] = call[p]
    BY <1>3 DEF Idle, enclaveVars
  <1> QED BY <1>3, <1>5, <1>6, <1>7, <1>8, <1>9, <1>10, StoreStep

-----------------------------------------------------------------------------
\* Steps of nobody's: faults, expiry and the clock.

LEMMA CrashInv ==
    ASSUME SignerInv, NEW r \in Call, Crash(r) PROVE SignerInv'
  <1> USE DEF Crash
  <1>1. EnclaveTypeOK
    BY DEF SignerInv, SignerTypeOK
  <1>2. EnclaveTypeOK' /\ call'[r] = NoCall /\ \A p \in Call \ {r} : call'[p] = call[p]
    BY <1>1, DropReplyType
  <1>3. req'[r] = Idle /\ \A p \in Call \ {r} : req'[p] = req[p]
    BY DEF End, SignerInv, SignerTypeOK
  <1>4. SignerTypeOK'
    BY <1>2 DEF End, SignerInv, SignerTypeOK, stores
  <1>5. Quiet(r)
    BY <1>2, <1>3 DEF Quiet, Idle, SignerInv, KeysAgree, stores, enclaveRest
  <1> QED BY <1>2, <1>3, <1>4, <1>5, IdleInv, QuietStep

\* A step that leaves every request and every call as they are.
LEMMA SharedStep ==
    ASSUME SignerInv, SignerTypeOK', UNCHANGED <<req, call, row, backup, imported, keyOf>>,
           \A n \in Nonce : claims[n] # None => claims'[n] # None,
           \A n \in Nonce : kv[n] # "fresh" /\ claims[n] # None => kv'[n] # "fresh",
           redeemed \subseteq redeemed'
    PROVE  \A r \in Call : RequestInv(r)'
  <1>1. StoresGrow
    BY DEF StoresGrow
  <1> QED BY <1>1, Others

LEMMA KvExpireInv ==
    ASSUME SignerInv, NEW n \in Nonce, KvExpire(n) PROVE SignerInv'
  <1> USE DEF KvExpire, enclaveVars, history
  <1>1. SignerTypeOK'
    BY DEF SignerInv, SignerTypeOK, EnclaveTypeOK, InFlight
  <1>2. KeysAgree' /\ StoresOrdered' /\ TicketsMarked' /\ CreatesDistinct'
    BY DEF SignerInv, SignerTypeOK, KeysAgree, StoresOrdered, TicketsMarked, CreatesDistinct
  <1>3. \A m \in Nonce : kv[m] # "fresh" => kv'[m] # "fresh"
    BY DEF SignerInv, SignerTypeOK
  <1>4. \A r \in Call : RequestInv(r)'
    BY <1>1, <1>3, SharedStep
  <1> QED BY <1>1, <1>2, <1>4 DEF SignerInv

LEMMA SignerTickInv ==
    ASSUME SignerInv, Tick, UNCHANGED apiVars PROVE SignerInv'
  <1> USE DEF apiVars
  <1>1. SignerTypeOK'
    BY TickType DEF SignerInv, SignerTypeOK
  <1>2. UNCHANGED <<claims, call, keysByIdentityId>>
    BY DEF Tick
  <1>3. KeysAgree' /\ StoresOrdered' /\ TicketsMarked' /\ CreatesDistinct'
    BY <1>2 DEF SignerInv, KeysAgree, StoresOrdered, TicketsMarked, CreatesDistinct
  <1>4. \A r \in Call : RequestInv(r)'
    BY <1>1, <1>2, SharedStep
  <1> QED BY <1>1, <1>3, <1>4 DEF SignerInv

\* A restart answers the calls in flight with an error and changes nothing else
\* a request relies on: the keys in the enclave were copies.
LEMMA EnclaveRestartInv ==
    ASSUME SignerInv, EnclaveRestart PROVE SignerInv'
  <1> USE DEF EnclaveRestart, apiVars
  <1>1. SignerTypeOK'
    BY RestartType DEF SignerInv, SignerTypeOK
  <1>2. /\ UNCHANGED claims
        /\ \A i \in Identity : keysByIdentityId'[i] = None
        /\ \A r \in Call : IF InFlight(r) THEN call'[r] = Reply(0, None)
                                          ELSE call'[r] = call[r]
    BY DEF Restart
  <1>3. KeysAgree' /\ StoresOrdered' /\ TicketsMarked' /\ CreatesDistinct'
    BY <1>2 DEF SignerInv, KeysAgree, StoresOrdered, TicketsMarked, CreatesDistinct
  <1>4. ASSUME NEW r \in Call PROVE RequestInv(r)'
    <2>1. RequestInv(r)
      BY DEF SignerInv
    <2>2. RequestTyped(r)' /\ RequestOrdered(r)' /\ TicketHeld(r)'
      BY <1>2, <2>1 DEF RequestInv, RequestTyped, HasTicket, RequestOrdered, TicketHeld
    <2>3. CallMatches(r)' /\ KeyHeld(r)'
      <3>1. CASE InFlight(r)
        <4>1. call'[r] = Reply(0, None)
          BY <1>2, <3>1
        <4>2. req[r].pc \in {"exporting", "importing", "signing"}
          BY <2>1, <3>1 DEF RequestInv, CallMatches, InFlight, NoCall
        <4> QED BY <2>1, <4>1, <4>2
                DEF RequestInv, CallMatches, KeyHeld, InFlight, Answered, Reply
      <3>2. CASE ~InFlight(r)
        <4>1. call'[r] = call[r]
          BY <1>2, <3>2
        <4> QED BY <2>1, <4>1 DEF RequestInv, CallMatches, KeyHeld, InFlight, Answered
      <3> QED BY <3>1, <3>2
    <2> QED BY <2>2, <2>3 DEF RequestInv
  <1> QED BY <1>1, <1>3, <1>4 DEF SignerInv

LEMMA SignerStutterInv ==
    ASSUME SignerInv, UNCHANGED signerVars PROVE SignerInv'
  <1> USE DEF signerVars, apiVars, enclaveVars
  <1>1. SignerTypeOK'
    BY DEF SignerInv, SignerTypeOK, EnclaveTypeOK, InFlight
  <1>2. KeysAgree' /\ StoresOrdered' /\ TicketsMarked' /\ CreatesDistinct'
    BY DEF SignerInv, KeysAgree, StoresOrdered, TicketsMarked, CreatesDistinct
  <1>3. \A r \in Call : RequestInv(r)'
    BY <1>1, SharedStep
  <1> QED BY <1>1, <1>2, <1>3 DEF SignerInv

-----------------------------------------------------------------------------
\* The initial state: no request, and the imported backups.
LEMMA SignerInitInv == SignerInit => SignerInv
  <1> SUFFICES ASSUME SignerInit PROVE SignerInv
    OBVIOUS
  <1> USE DEF SignerInit, EnclaveBoot
  <1>1. \A i \in imported : i \in Identity /\ MigratedKey[i] \in Key
    BY SignerAssumption
  <1>2. SignerTypeOK
    <2>1. EnclaveTypeOK
      BY <1>1, EnclaveAssumption DEF EnclaveTypeOK, NoCall, CallState, Codes, InFlight
    <2>2. /\ keyOf \in [Identity -> Key \cup {None}]
          /\ backup \in [Identity -> Sealed \cup {None}]
      BY <1>1 DEF Sealed
    <2>3. signed \in [Nonce -> 0..MaxSigned] /\ imported \subseteq Identity
      BY <1>1, SignerAssumption
    <2> QED BY <2>1, <2>2, <2>3 DEF SignerTypeOK
  <1>3. KeysAgree
    BY <1>1, EnclaveAssumption DEF KeysAgree
  <1>4. StoresOrdered /\ TicketsMarked /\ CreatesDistinct
    BY DEF StoresOrdered, TicketsMarked, CreatesDistinct, NoRow, Idle
  <1>5. \A r \in Call : RequestInv(r)
    BY DEF Idle, NoCall, RequestInv, RequestTyped, PcsOf, CallMatches, KeyHeld,
           RequestOrdered, TicketHeld, InFlight, Answered
  <1> QED BY <1>2, <1>3, <1>4, <1>5 DEF SignerInv

\* Every step preserves the invariant.
LEMMA SignerNextInv == SignerInv /\ [SignerNext]_signerVars => SignerInv'
  <1> SUFFICES ASSUME SignerInv, [SignerNext]_signerVars PROVE SignerInv'
    OBVIOUS
  <1>1. CASE Tick /\ UNCHANGED apiVars
    BY <1>1, SignerTickInv
  <1>2. CASE EnclaveRestart
    BY <1>2, EnclaveRestartInv
  <1>3. CASE \E n \in Nonce : KvExpire(n)
    BY <1>3, KvExpireInv
  <1>4. ASSUME NEW r \in Call, Start(r) PROVE SignerInv'
    <2>1. PICK u \in User, i \in Identity :
            \/ \E k \in Key : CreateWorker(r, u, i, k)
            \/ CreateEnclave(r, u, i)
            \/ StartRestore(r, u, i)
            \/ StartAdopt(r, u, i)
            \/ StartBatch(r, u, i)
            \/ StartDestroy(r, u, i)
            \/ \E d \in Digest : StartIntent(r, u, i, d)
            \/ \E d \in Digest, n \in Nonce : StartSign(r, u, i, d, n)
      BY <1>4 DEF Start
    <2> QED BY <2>1, CreateWorkerInv, CreateEnclaveInv, StartRestoreInv, StartAdoptInv,
               StartBatchInv, StartDestroyInv, StartIntentInv, StartSignInv
  <1>5. ASSUME NEW r \in Call, Step(r) PROVE SignerInv'
    <2>1. CASE \/ HandlerFinish(r) /\ UNCHANGED apiVars
               \/ ReadGenerated(r) \/ ReadExported(r) \/ PutBackup(r) \/ Insert(r)
      BY <2>1, HandlerFinishInv, ReadGeneratedInv, ReadExportedInv, PutBackupInv, InsertInv
    <2>2. CASE \/ BackupMissing(r) \/ BackupImport(r) \/ ReadImported(r)
               \/ BackupCheckFormat(r) \/ BackupSign(r) \/ BackupCapture(r)
      BY <2>2, BackupMissingInv, BackupImportInv, ReadImportedInv, BackupCheckFormatInv,
         BackupSignInv, BackupCaptureInv
    <2>3. CASE \/ \E n \in Nonce : MintTicket(r, n)
               \/ CheckTicket(r)
               \/ \E n \in Nonce, d \in Digest : BatchTicket(r, n, d)
               \/ TicketStoreError(r)
      BY <2>3, MintTicketInv, CheckTicketInv, BatchTicketInv, TicketStoreErrorInv
    <2>4. CASE CallSign(r) \/ ReadSignature(r) \/ MarkUsed(r)
      BY <2>4, CallSignInv, ReadSignatureInv, MarkUsedInv
    <2>5. CASE \/ CallDestroy(r) \/ ReadDestroyed(r) \/ MarkDestroyed(r)
               \/ DeleteBackup(r) \/ AddAuditEvent(r)
      BY <2>5, CallDestroyInv, ReadDestroyedInv, MarkDestroyedInv, DeleteBackupInv,
         AddAuditEventInv
    <2> QED BY <1>5, <2>1, <2>2, <2>3, <2>4, <2>5 DEF Step
  <1>6. CASE \E r \in Call : Crash(r)
    BY <1>6, CrashInv
  <1>7. CASE UNCHANGED signerVars
    BY <1>7, SignerStutterInv
  <1> QED BY <1>1, <1>2, <1>3, <1>4, <1>5, <1>6, <1>7 DEF SignerNext

\* SignerInv holds in every reachable state.
THEOREM SignerInvariance == SignerSpec => []SignerInv
  <1>1. SignerInit => SignerInv
    BY SignerInitInv
  <1>2. SignerInv /\ [SignerNext]_signerVars => SignerInv'
    BY SignerNextInv
  <1> QED BY <1>1, <1>2, PTL DEF SignerSpec

\* The variables of the API and of the enclave hold values of their types.
THEOREM SignerTypeCorrect == SignerSpec => []SignerTypeOK
  <1>1. SignerInv => SignerTypeOK
    BY DEF SignerInv
  <1> QED BY <1>1, SignerInvariance, PTL

\* A row is inserted after its backup and its backup deleted after the row was
\* marked, so an active identity can be signed for, or restored, at any moment,
\* in both modes and whatever crashes.
THEOREM ActiveIsRecoverable == SignerSpec => []ActiveKeyRecoverable
  <1>1. SignerInv => ActiveKeyRecoverable
    BY EnclaveAssumption
       DEF SignerInv, SignerTypeOK, KeysAgree, StoresOrdered, ActiveKeyRecoverable, NoRow
  <1> QED BY <1>1, SignerInvariance, PTL

\* No interleaving of requests makes the API sign for one identity with the key
\* of another.
THEOREM SignsWithOwnKey == SignerSpec => []SignaturesVerify
  <1>1. SignerInv => SignaturesVerify
    BY DEF SignerInv, SignerTypeOK, KeysAgree, SignaturesVerify
  <1> QED BY <1>1, SignerInvariance, PTL

\* A destruction in the audit log is complete, for good.
THEOREM DestroyErases == SignerSpec => []AuditedDestroyErasesBackup
  <1>1. SignerInv => AuditedDestroyErasesBackup
    BY DEF SignerInv, StoresOrdered, AuditedDestroyErasesBackup
  <1> QED BY <1>1, SignerInvariance, PTL

\* A request that arrives with a redeemed ticket never gets as far as a
\* signature.
THEOREM NoReplay == SignerSpec => []ReplayRefused
  <1>1. SignerInv => ReplayRefused
    BY DEF SignerInv, RequestInv, TicketHeld, ReplayRefused
  <1> QED BY <1>1, SignerInvariance, PTL

\* What RowsAreFinal asks of a step, for one row.
RowKept(i) ==
    row[i] # NoRow =>
        /\ row'[i].owner = row[i].owner
        /\ row'[i].pk = row[i].pk
        /\ row[i].status = "destroyed" => row'[i].status = "destroyed"

\* Only two actions write the table of identities.
LEMMA RowStep ==
    ASSUME SignerNext
    PROVE  row' = row \/ \E r \in Call : Insert(r) \/ MarkDestroyed(r)
  <1>1. CASE (Tick /\ UNCHANGED apiVars) \/ EnclaveRestart \/ \E n \in Nonce : KvExpire(n)
    BY <1>1 DEF apiVars, EnclaveRestart, KvExpire
  <1>2. ASSUME NEW r \in Call, Start(r) PROVE row' = row
    <2> PICK u \in User, i \in Identity :
            \/ (\E k \in Key : CreateWorker(r, u, i, k)) \/ CreateEnclave(r, u, i)
            \/ StartRestore(r, u, i) \/ StartAdopt(r, u, i)
            \/ StartBatch(r, u, i) \/ StartDestroy(r, u, i)
            \/ (\E d \in Digest : StartIntent(r, u, i, d))
            \/ \E d \in Digest, n \in Nonce : StartSign(r, u, i, d, n)
      BY <1>2 DEF Start
    <2>1. CASE (\E k \in Key : CreateWorker(r, u, i, k)) \/ CreateEnclave(r, u, i)
      BY <2>1 DEF CreateWorker, CreateEnclave, stores
    <2>2. CASE \/ StartRestore(r, u, i) \/ StartAdopt(r, u, i)
               \/ StartBatch(r, u, i) \/ StartDestroy(r, u, i)
      BY <2>2 DEF StartRestore, StartAdopt, StartBatch, StartDestroy, stores
    <2>3. CASE \/ \E d \in Digest : StartIntent(r, u, i, d)
               \/ \E d \in Digest, n \in Nonce : StartSign(r, u, i, d, n)
      BY <2>3 DEF StartIntent, StartSign, stores
    <2> QED BY <2>1, <2>2, <2>3
  <1>3. ASSUME NEW r \in Call, Step(r) PROVE row' = row \/ Insert(r) \/ MarkDestroyed(r)
    <2>0. CASE HandlerFinish(r) /\ UNCHANGED apiVars
      BY <2>0 DEF apiVars
    <2>1. CASE \/ ReadGenerated(r) \/ ReadExported(r) \/ PutBackup(r) \/ BackupMissing(r)
               \/ BackupImport(r) \/ ReadImported(r) \/ BackupCheckFormat(r)
      BY <2>1 DEF ReadGenerated, ReadExported, PutBackup, BackupMissing, BackupImport,
                  ReadImported, BackupCheckFormat, stores
    <2>2. CASE \/ BackupSign(r) \/ BackupCapture(r) \/ \E n \in Nonce : MintTicket(r, n)
               \/ CheckTicket(r) \/ \E n \in Nonce, d \in Digest : BatchTicket(r, n, d)
               \/ TicketStoreError(r) \/ CallSign(r) \/ ReadSignature(r)
      BY <2>2 DEF BackupSign, BackupCapture, MintTicket, CheckTicket, BatchTicket,
                  TicketStoreError, CallSign, ReadSignature, stores
    <2>3. CASE \/ MarkUsed(r) \/ CallDestroy(r) \/ ReadDestroyed(r) \/ DeleteBackup(r)
               \/ AddAuditEvent(r)
      BY <2>3 DEF MarkUsed, CallDestroy, ReadDestroyed, DeleteBackup, AddAuditEvent, stores
    <2> QED BY <1>3, <2>0, <2>1, <2>2, <2>3 DEF Step
  <1>4. ASSUME NEW r \in Call, Crash(r) PROVE row' = row
    BY <1>4 DEF Crash, stores
  <1> QED BY <1>1, <1>2, <1>3, <1>4 DEF SignerNext

\* An insert finds no row, and a row that is marked keeps its other columns.
LEMMA RowKeptInv == SignerInv /\ [SignerNext]_signerVars => [\A i \in Identity : RowKept(i)]_row
  <1> SUFFICES ASSUME SignerInv, [SignerNext]_signerVars, NEW i \in Identity, row' # row
               PROVE  RowKept(i)
    OBVIOUS
  <1>1. PICK r \in Call : Insert(r) \/ MarkDestroyed(r)
    BY RowStep DEF signerVars, apiVars
  <1>2. row \in [Identity -> Row \cup {NoRow}]
    BY DEF SignerInv, SignerTypeOK
  <1>3. CASE Insert(r)
    BY <1>2, <1>3 DEF Insert, RowKept
  <1>4. CASE MarkDestroyed(r)
    BY <1>2, <1>4 DEF MarkDestroyed, RowKept, Row, NoRow
  <1> QED BY <1>1, <1>3, <1>4

\* A row keeps its owner and its key, and no restore that read the row before it
\* was destroyed makes it active again.
THEOREM RowsStayFinal == SignerSpec => RowsAreFinal
  <1>1. SignerInv /\ [SignerNext]_signerVars => [\A i \in Identity : RowKept(i)]_row
    BY RowKeptInv
  <1> QED BY <1>1, SignerInvariance, PTL DEF SignerSpec, RowsAreFinal, RowKept
=============================================================================
