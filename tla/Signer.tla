------------------------------- MODULE Signer -------------------------------
(***************************************************************************)
(* Identity custody and signing: the API Worker (api/src/index.ts) over    *)
(* its D1 tables identities, key_backups and audit_events, its KV          *)
(* namespace of tickets, and, in enclave mode, the enclave of module       *)
(* Enclave.  The callers of the enclave are the requests the API is        *)
(* serving: call[r] is the enclave's side of request r, req[r] the API's.  *)
(*                                                                         *)
(* The handlers of concurrent requests interleave at every await.  D1 and  *)
(* KV operations are single statements, with no transaction around a       *)
(* handler, so each action is one operation on a shared store, or one call *)
(* of the enclave, with the code that runs up to the next await.           *)
(*                                                                         *)
(* Abstractions.  A request that is refused before it has changed anything *)
(* leaves no trace and is not started: a start action has the conditions   *)
(* under which the handler goes on (session, rate limit and body checks    *)
(* always may refuse).  Tickets are named by their nonce, which stands for *)
(* the jti too.  A ticket's sub is the owner of its identity and owners    *)
(* never change (RowsAreFinal), so the sub check follows from the identity *)
(* check.  KV is modelled as strongly consistent.                          *)
(***************************************************************************)
EXTENDS Enclave

CONSTANTS
    User,           \* users with a session
    Mode,           \* SIGNER_MODE: "worker" or "enclave"
    Migrated,       \* identities whose backup may have been imported (docs/runbook.md,
                    \* "Data Migration from Express API"), without a row
    MigratedKey,    \* their keys
    BatchSize,      \* digests in a sign-batch request
    MaxSigned,      \* where the history variable signed stops counting
    Faults          \* whether requests and the enclave may crash

\* A sealed key: its plaintext, and the mode that can unseal it.
Sealed == [key: Key, fmt: {"worker", "enclave"}]

ASSUME SignerAssumption ==
    /\ Mode \in {"worker", "enclave"}
    /\ Migrated \subseteq Identity
    /\ MigratedKey \in [Migrated -> Key]
    /\ \A i, j \in Migrated : MigratedKey[i] = MigratedKey[j] => i = j
    /\ BatchSize \in Nat \ {0}
    /\ MaxSigned \in Nat \ {0}
    /\ Faults \in BOOLEAN
    /\ None \notin User \cup Sealed

VARIABLES
    row,        \* table identities: identity -> row, or NoRow
    backup,     \* table key_backups: identity -> sealed key, or None
    audit,      \* table audit_events: <<action, identity>>
    kv,         \* KV_TICKETS: nonce -> "none", "fresh" or "used" (used_at set)
    req,        \* the API's side of every request
    held,       \* nonces of the tickets clients have received
    imported,   \* the identities whose backup was imported before the start
    crashed,    \* history: whether a request has died half-way
    keyOf,      \* history: the key generated for an identity
    redeemed,   \* history: nonces of tickets a client got a signature for
    signed,     \* history: nonce -> signatures the API obtained with it
    sigs        \* history: <<identity, key>> of every signature

apiVars == <<row, backup, audit, kv, req, held, imported, crashed, keyOf, redeemed,
             signed, sigs>>
signerVars == <<enclaveVars, apiVars>>

NoRow == [status |-> "none", owner |-> None, pk |-> None]
Row == [status: {"active", "destroyed"}, owner: User, pk: Key]

Ops == {"create", "restore", "adopt", "intent", "sign", "batch", "destroy"}
Pcs == {"generated", "exporting", "putBackup", "insert", "getBackup",
        "importing", "mint", "check", "ticket", "lookup", "signing", "mark",
        "callDestroy", "destroying", "markRow", "delBackup", "audit"}

\* op: the handler ("adopt" is a restore of an identity that has no row);
\* pc: what it does next; key: a key or public key it has read; left: digests
\* of a batch still to sign; retried: whether the enclave call is the one
\* after a restore; late: whether the ticket had been redeemed when the
\* request arrived (history).
Request == [op: Ops, pc: Pcs, user: User, id: Identity, key: Key \cup {None},
            nonce: Nonce \cup {None}, digest: Digest \cup {None},
            left: 0..BatchSize, retried: BOOLEAN, late: BOOLEAN]

Idle == [op |-> "none", pc |-> "idle", user |-> None, id |-> None,
         key |-> None, nonce |-> None, digest |-> None,
         left |-> 0, retried |-> FALSE, late |-> FALSE]

NewRequest(op, pc, u, i, k, n, d, left, late) ==
    [op |-> op, pc |-> pc, user |-> u, id |-> i, key |-> k, nonce |-> n,
     digest |-> d, left |-> left, retried |-> FALSE, late |-> late]

SignerInit ==
    /\ EnclaveBoot
    /\ imported \in SUBSET Migrated
    /\ born = {MigratedKey[i] : i \in imported}
    /\ row = [i \in Identity |-> NoRow]
    /\ keyOf = [i \in Identity |-> IF i \in imported THEN MigratedKey[i] ELSE None]
    /\ backup = [i \in Identity |->
                    IF i \in imported
                    THEN [key |-> MigratedKey[i], fmt |-> "enclave"] ELSE None]
    /\ audit = {}
    /\ kv = [n \in Nonce |-> "none"]
    /\ req = [r \in Call |-> Idle]
    /\ held = {}
    /\ crashed = FALSE
    /\ redeemed = {}
    /\ signed = [n \in Nonce |-> 0]
    /\ sigs = {}

-----------------------------------------------------------------------------
IsIdle(r) == req[r] = Idle
At(r, pc) == req[r].pc = pc

\* The enclave has answered the call of r with the status code.
Answered(r, code) == call[r].h = "reply" /\ call[r].code = code

\* The request goes on at pc, or ends with a response or an error.  A response
\* of the enclave that it has read is dropped.
Goto(r, pc) == req' = [req EXCEPT ![r].pc = pc]
End(r) == req' = [req EXCEPT ![r] = Idle]
DropReply(r) == call' = [call EXCEPT ![r] = NoCall]

enclaveRest == <<now, restarts, keysByIdentityId, nonceReplayCache, claims, born, uses>>
stores == <<row, backup, audit, kv>>
history == <<imported, crashed, keyOf, redeemed, signed, sigs>>

\* Mutant of ownedActiveIdentity: any session may act on any identity.
ownedActiveIdentityAny(i, u) == i \in Identity /\ u \in User

\* ownedActiveIdentity: 404, 403 and 409 unless the row is the user's and active.
ownedActiveIdentity(i, u) == row[i].status = "active" /\ row[i].owner = u

-----------------------------------------------------------------------------
\* Mutant of CreateWorker: the key is not backed up before the row is inserted.
CreateWorkerNoBackup(r, u, i, k) ==
    /\ Mode = "worker"
    /\ IsIdle(r)
    /\ keyOf[i] = None
    /\ k \notin born
    /\ born' = born \cup {k}
    /\ keyOf' = [keyOf EXCEPT ![i] = k]
    /\ req' = [req EXCEPT ![r] =
                  NewRequest("create", "insert", u, i, k, None, None, 0, FALSE)]
    /\ UNCHANGED <<now, restarts, keysByIdentityId, nonceReplayCache, call, claims,
                   uses, stores, held, imported, crashed, redeemed, signed, sigs>>

\* POST /v1/identities in worker mode: randomUUID and generateKey are local.
CreateWorker(r, u, i, k) ==
    /\ Mode = "worker"
    /\ IsIdle(r)
    /\ keyOf[i] = None
    /\ k \notin born
    /\ born' = born \cup {k}
    /\ keyOf' = [keyOf EXCEPT ![i] = k]
    /\ req' = [req EXCEPT ![r] =
                  NewRequest("create", "putBackup", u, i, k, None, None, 0, FALSE)]
    /\ UNCHANGED <<now, restarts, keysByIdentityId, nonceReplayCache, call, claims,
                   uses, stores, held, imported, crashed, redeemed, signed, sigs>>

\* POST /v1/identities in enclave mode, up to the response of enclave.generate.
CreateEnclave(r, u, i) ==
    /\ Mode = "enclave"
    /\ IsIdle(r)
    /\ keyOf[i] = None
    /\ Generate(r, i)
    /\ keyOf' = [keyOf EXCEPT ![i] = call'[r].key]
    /\ req' = [req EXCEPT ![r] =
                  NewRequest("create", "generated", u, i, call'[r].key, None, None, 0, FALSE)]
    /\ UNCHANGED <<stores, held, imported, crashed, redeemed, signed, sigs>>

\* Mutant of ReadGenerated: the row is inserted without exporting the key.
ReadGeneratedNoExport(r) ==
    /\ At(r, "generated")
    /\ IF Answered(r, 200) THEN Goto(r, "insert") ELSE End(r)
    /\ DropReply(r)
    /\ UNCHANGED <<enclaveRest, stores, held, history>>

\* enclave.generate has answered: call enclave.exportKey.
ReadGenerated(r) ==
    /\ At(r, "generated")
    /\ \/ /\ Answered(r, 200)
          /\ ExportRead(r, req[r].id)
          /\ Goto(r, "exporting")
       \/ /\ ~Answered(r, 200)
          /\ End(r)
          /\ DropReply(r)
          /\ UNCHANGED enclaveRest
    /\ UNCHANGED <<stores, held, history>>

\* enclave.exportKey has answered: putBackup stores the exported key.
ReadExported(r) ==
    /\ At(r, "exporting")
    /\ call[r].h = "reply"
    /\ \/ /\ Answered(r, 200)
          /\ backup' = [backup EXCEPT ![req[r].id] =
                            [key |-> call[r].key, fmt |-> "enclave"]]
          /\ Goto(r, "insert")
       \/ /\ ~Answered(r, 200)
          /\ End(r)
          /\ UNCHANGED backup
    /\ DropReply(r)
    /\ UNCHANGED <<enclaveRest, row, audit, kv, held, history>>

\* putBackup of the key generated in worker mode.
PutBackup(r) ==
    /\ At(r, "putBackup")
    /\ backup' = [backup EXCEPT ![req[r].id] = [key |-> req[r].key, fmt |-> "worker"]]
    /\ Goto(r, "insert")
    /\ UNCHANGED <<enclaveVars, row, audit, kv, held, history>>

\* Mutant of Insert: INSERT OR REPLACE.
InsertReplace(r) ==
    /\ At(r, "insert")
    /\ row' = [row EXCEPT ![req[r].id] =
                  [status |-> "active", owner |-> req[r].user, pk |-> req[r].key]]
    /\ Goto(r, "audit")
    /\ UNCHANGED <<enclaveVars, backup, audit, kv, held, history>>

\* createIdentity: an INSERT, which fails if the primary key is taken.
Insert(r) ==
    /\ At(r, "insert")
    /\ \/ /\ row[req[r].id] = NoRow
          /\ row' = [row EXCEPT ![req[r].id] =
                        [status |-> "active", owner |-> req[r].user, pk |-> req[r].key]]
          /\ Goto(r, "audit")
       \/ /\ row[req[r].id] # NoRow
          /\ End(r)
          /\ UNCHANGED row
    /\ UNCHANGED <<enclaveVars, backup, audit, kv, held, history>>

\* POST /v1/identities/:id/restore of an identity that has a row, whatever its
\* status.
StartRestore(r, u, i) ==
    /\ IsIdle(r)
    /\ row[i].owner = u
    /\ req' = [req EXCEPT ![r] =
                  NewRequest("restore", "getBackup", u, i, None, None, None, 0, FALSE)]
    /\ UNCHANGED <<enclaveVars, stores, held, history>>

\* The same without a row: the identity is one whose backup was imported, and
\* the client sends the public key it has in its config.
StartAdopt(r, u, i) ==
    /\ IsIdle(r)
    /\ row[i] = NoRow
    /\ i \in imported
    /\ req' = [req EXCEPT ![r] =
                  NewRequest("adopt", "getBackup", u, i, keyOf[i], None, None, 0, FALSE)]
    /\ UNCHANGED <<enclaveVars, stores, held, history>>

\* getBackup finds nothing.  DELETE goes on without the enclave; the others
\* answer: restore 200, adopt 404, sign and sign-batch 409.
BackupMissing(r) ==
    /\ At(r, "getBackup")
    /\ backup[req[r].id] = None
    /\ IF req[r].op = "destroy" THEN Goto(r, "markRow") ELSE End(r)
    /\ UNCHANGED <<enclaveVars, stores, held, history>>

\* getBackup in enclave mode: restoreBackup imports the key it has read.
BackupImport(r) ==
    /\ At(r, "getBackup")
    /\ Mode = "enclave"
    /\ backup[req[r].id] # None
    /\ ImportStart(r, req[r].id, backup[req[r].id].key)
    /\ Goto(r, "importing")
    /\ UNCHANGED <<stores, held, history>>

\* enclave.importKey has answered.
ReadImported(r) ==
    /\ At(r, "importing")
    /\ call[r].h = "reply"
    /\ \/ /\ ~Answered(r, 200) \/ req[r].op = "restore"
          /\ End(r)
          /\ DropReply(r)
          /\ UNCHANGED enclaveRest
       \/ /\ Answered(r, 200)
          /\ req[r].op = "adopt"
          /\ Goto(r, "insert")
          /\ DropReply(r)
          /\ UNCHANGED enclaveRest
       \/ /\ Answered(r, 200)
          /\ req[r].op \in {"sign", "batch"}
          /\ SignLookup(r, req[r].id, req[r].digest, req[r].nonce)
          /\ req' = [req EXCEPT ![r].pc = "signing", ![r].retried = TRUE]
       \/ /\ Answered(r, 200)
          /\ req[r].op = "destroy"
          /\ Destroy(r, req[r].id)
          /\ req' = [req EXCEPT ![r].pc = "destroying", ![r].retried = TRUE]
    /\ UNCHANGED <<stores, held, history>>

\* getBackup in worker mode by restore: only the format of the sealed key is
\* checked (isWorkerSealedKey).
BackupCheckFormat(r) ==
    /\ At(r, "getBackup")
    /\ Mode = "worker"
    /\ backup[req[r].id] # None
    /\ \/ req[r].op = "restore" /\ End(r)
       \/ /\ req[r].op = "adopt"
          /\ IF backup[req[r].id].fmt = "worker" THEN Goto(r, "insert") ELSE End(r)
    /\ UNCHANGED <<enclaveVars, stores, held, history>>

\* A signature with the ticket n under the key k has reached the API.
Obtain(r, n, k) ==
    /\ signed' = [signed EXCEPT ![n] = IF @ < MaxSigned THEN @ + 1 ELSE @]
    /\ sigs' = sigs \cup {<<req[r].id, k>>}

\* getBackup in worker mode by sign: workerSigner.signDigest unseals the key it
\* has read and signs, or throws on a key in another format.
BackupSign(r) ==
    /\ At(r, "getBackup")
    /\ Mode = "worker"
    /\ req[r].op = "sign"
    /\ backup[req[r].id] # None
    /\ \/ /\ backup[req[r].id].fmt = "worker"
          /\ Obtain(r, req[r].nonce, backup[req[r].id].key)
          /\ Goto(r, "mark")
       \/ /\ backup[req[r].id].fmt # "worker"
          /\ End(r)
          /\ UNCHANGED <<signed, sigs>>
    /\ UNCHANGED <<enclaveVars, stores, held, imported, crashed, keyOf, redeemed>>

\* getBackup in worker mode by sign-batch: read once for all digests.  (A key
\* in another format makes the first signDigest throw.)
BackupCapture(r) ==
    /\ At(r, "getBackup")
    /\ Mode = "worker"
    /\ req[r].op = "batch"
    /\ backup[req[r].id] # None
    /\ IF backup[req[r].id].fmt = "worker"
       THEN req' = [req EXCEPT ![r].pc = "ticket", ![r].key = backup[req[r].id].key]
       ELSE End(r)
    /\ UNCHANGED <<enclaveVars, stores, held, history>>

\* POST /v1/identities/:id/sign-intent, up to ownedActiveIdentity.
StartIntent(r, u, i, d) ==
    /\ IsIdle(r)
    /\ ownedActiveIdentity(i, u)
    /\ req' = [req EXCEPT ![r] =
                  NewRequest("intent", "mint", u, i, None, None, d, 0, FALSE)]
    /\ UNCHANGED <<enclaveVars, stores, held, history>>

\* signTicketToken, createTicket and the response with the ticket.
MintTicket(r, n) ==
    /\ At(r, "mint")
    /\ Mint(n, req[r].id, req[r].digest)
    /\ kv' = [kv EXCEPT ![n] = "fresh"]
    /\ held' = held \cup {n}
    /\ End(r)
    /\ UNCHANGED <<now, restarts, keysByIdentityId, nonceReplayCache, call, born, uses,
                   row, backup, audit, history>>

\* POST /v1/identities/:id/sign with a ticket the client holds, up to
\* ownedActiveIdentity.
StartSign(r, u, i, d, n) ==
    /\ IsIdle(r)
    /\ n \in held
    /\ ownedActiveIdentity(i, u)
    /\ req' = [req EXCEPT ![r] =
                  NewRequest("sign", "check", u, i, None, n, d, 0, n \in redeemed)]
    /\ UNCHANGED <<enclaveVars, stores, held, history>>

\* Mutant of TicketAccepted: used_at is not looked at.
TicketAcceptedUsed(r) ==
    LET t == claims[req[r].nonce] IN
    /\ t.exp > now
    /\ t.id = req[r].id
    /\ t.digest = req[r].digest
    /\ kv[req[r].nonce] # "none"

\* verifyTicketToken, the comparison of the claims with the request, and
\* getTicket with its checks of presence (404), used_at (409) and expires_at
\* (410).
TicketAccepted(r) ==
    LET t == claims[req[r].nonce] IN
    /\ t.exp > now
    /\ t.id = req[r].id
    /\ t.digest = req[r].digest
    /\ kv[req[r].nonce] = "fresh"

CheckTicket(r) ==
    /\ At(r, "check")
    /\ \/ /\ TicketAccepted(r)
          /\ Goto(r, IF Mode = "worker" THEN "getBackup" ELSE "lookup")
       \/ /\ ~TicketAccepted(r)
          /\ End(r)
    /\ UNCHANGED <<enclaveVars, stores, held, history>>

\* POST /v1/identities/:id/sign-batch, up to ownedActiveIdentity.
StartBatch(r, u, i) ==
    /\ IsIdle(r)
    /\ ownedActiveIdentity(i, u)
    /\ req' = [req EXCEPT ![r] =
                  NewRequest("batch", IF Mode = "worker" THEN "getBackup" ELSE "ticket",
                             u, i, None, None, None, BatchSize, FALSE)]
    /\ UNCHANGED <<enclaveVars, stores, held, history>>

\* createTicket for the next digest of a batch; in worker mode signDigest
\* follows with the key captured at the start.
BatchTicket(r, n, d) ==
    /\ At(r, "ticket")
    /\ Mint(n, req[r].id, d)
    /\ kv' = [kv EXCEPT ![n] = "fresh"]
    /\ \/ /\ Mode = "enclave"
          /\ req' = [req EXCEPT ![r].pc = "lookup", ![r].nonce = n,
                                ![r].digest = d, ![r].retried = FALSE]
          /\ UNCHANGED <<signed, sigs>>
       \/ /\ Mode = "worker"
          /\ Obtain(r, n, req[r].key)
          /\ req' = [req EXCEPT ![r].pc = "mark", ![r].nonce = n, ![r].digest = d]
    /\ UNCHANGED <<now, restarts, keysByIdentityId, nonceReplayCache, call, born, uses,
                   row, backup, audit, held, imported, crashed, keyOf, redeemed>>

\* enclave.sign.
CallSign(r) ==
    /\ At(r, "lookup")
    /\ SignLookup(r, req[r].id, req[r].digest, req[r].nonce)
    /\ Goto(r, "signing")
    /\ UNCHANGED <<stores, held, history>>

\* enclave.sign has answered: a signature; 404, on which the key is restored
\* and the call made once more; any other error ends the request.
ReadSignature(r) ==
    /\ At(r, "signing")
    /\ call[r].h = "reply"
    /\ \/ /\ Answered(r, 200)
          /\ Obtain(r, req[r].nonce, call[r].key)
          /\ Goto(r, "mark")
       \/ /\ Answered(r, 404)
          /\ ~req[r].retried
          /\ Goto(r, "getBackup")
          /\ UNCHANGED <<signed, sigs>>
       \/ /\ ~Answered(r, 200)
          /\ Answered(r, 404) => req[r].retried
          /\ End(r)
          /\ UNCHANGED <<signed, sigs>>
    /\ DropReply(r)
    /\ UNCHANGED <<enclaveRest, stores, held, imported, crashed, keyOf, redeemed>>

\* Mutant of MarkUsed: a batch goes on for one digest too many.
MarkUsedOneMore(r) ==
    /\ At(r, "mark")
    /\ kv' = [kv EXCEPT ![req[r].nonce] = IF @ = "none" THEN "none" ELSE "used"]
    /\ IF req[r].op = "batch"
       THEN req' = [req EXCEPT ![r].left = @ - 1,
                               ![r].pc = IF req[r].left = 0 THEN "audit" ELSE "ticket"]
       ELSE Goto(r, "audit")
    /\ UNCHANGED <<enclaveVars, row, backup, audit, held, history>>

\* markTicketUsed: nothing if the ticket has gone from KV, else it is put back
\* with used_at and without a TTL.  A batch goes on to its next digest.
MarkUsed(r) ==
    /\ At(r, "mark")
    /\ kv' = [kv EXCEPT ![req[r].nonce] = IF @ = "none" THEN "none" ELSE "used"]
    /\ IF req[r].op = "batch"
       THEN req' = [req EXCEPT ![r].left = @ - 1,
                               ![r].pc = IF req[r].left = 1 THEN "audit" ELSE "ticket"]
       ELSE Goto(r, "audit")
    /\ UNCHANGED <<enclaveVars, row, backup, audit, held, history>>

\* createTicket fails: the KV put throws and onError answers 500.  A batch
\* ends with the signatures it has made so far neither returned nor audited.
TicketStoreError(r) ==
    /\ Faults
    /\ req[r].pc \in {"mint", "ticket"}
    /\ End(r)
    /\ UNCHANGED <<enclaveVars, stores, held, history>>

\* DELETE /v1/identities/:id, up to ownedActiveIdentity.
StartDestroy(r, u, i) ==
    /\ IsIdle(r)
    /\ ownedActiveIdentity(i, u)
    /\ req' = [req EXCEPT ![r] =
                  NewRequest("destroy", IF Mode = "worker" THEN "markRow" ELSE "callDestroy",
                             u, i, None, None, None, 0, FALSE)]
    /\ UNCHANGED <<enclaveVars, stores, held, history>>

\* enclave.destroy.
CallDestroy(r) ==
    /\ At(r, "callDestroy")
    /\ Destroy(r, req[r].id)
    /\ Goto(r, "destroying")
    /\ UNCHANGED <<stores, held, history>>

\* enclave.destroy has answered; on 404 the key is restored so that it can be
\* destroyed.
ReadDestroyed(r) ==
    /\ At(r, "destroying")
    /\ call[r].h = "reply"
    /\ \/ Answered(r, 200) /\ Goto(r, "markRow")
       \/ Answered(r, 404) /\ ~req[r].retried /\ Goto(r, "getBackup")
       \/ /\ ~Answered(r, 200)
          /\ Answered(r, 404) => req[r].retried
          /\ End(r)
    /\ DropReply(r)
    /\ UNCHANGED <<enclaveRest, stores, held, history>>

\* Mutant of MarkDestroyed: the backup is not deleted.
MarkDestroyedOnly(r) ==
    /\ At(r, "markRow")
    /\ row' = [row EXCEPT ![req[r].id].status = "destroyed"]
    /\ Goto(r, "audit")
    /\ UNCHANGED <<enclaveVars, backup, audit, kv, held, history>>

\* markIdentityDestroyed: UPDATE ... SET status = 'destroyed'.
MarkDestroyed(r) ==
    /\ At(r, "markRow")
    /\ row' = [row EXCEPT ![req[r].id].status = "destroyed"]
    /\ Goto(r, "delBackup")
    /\ UNCHANGED <<enclaveVars, backup, audit, kv, held, history>>

\* deleteBackup.
DeleteBackup(r) ==
    /\ At(r, "delBackup")
    /\ backup' = [backup EXCEPT ![req[r].id] = None]
    /\ Goto(r, "audit")
    /\ UNCHANGED <<enclaveVars, row, audit, kv, held, history>>

AuditAction(op) ==
    CASE op = "create" -> "identity.create"
      [] op = "adopt" -> "identity.restore"
      [] op \in {"sign", "batch"} -> "identity.sign"
      [] op = "destroy" -> "identity.destroy"

\* addAuditEvent, and the response.
AddAuditEvent(r) ==
    /\ At(r, "audit")
    /\ audit' = audit \cup {<<AuditAction(req[r].op), req[r].id>>}
    /\ redeemed' = IF req[r].op = "sign" THEN redeemed \cup {req[r].nonce} ELSE redeemed
    /\ End(r)
    /\ UNCHANGED <<enclaveVars, row, backup, kv, held, imported, crashed, keyOf, signed, sigs>>

\* A request dies between two awaits: a store or the network throws, or the
\* isolate is evicted.  What it has done stays done.  (A request that dies
\* while the enclave works on its call looks, from outside, like one that dies
\* when the call is over.)
Crash(r) ==
    /\ Faults
    /\ ~IsIdle(r)
    /\ ~InFlight(r)
    /\ End(r)
    /\ DropReply(r)
    /\ crashed' = TRUE
    /\ UNCHANGED <<enclaveRest, stores, held, imported, keyOf, redeemed, signed, sigs>>

\* KV drops an entry written with expirationTtl; a used ticket has no TTL.
KvExpire(n) ==
    /\ kv[n] = "fresh"
    /\ claims[n].exp <= now
    /\ kv' = [kv EXCEPT ![n] = "none"]
    /\ UNCHANGED <<enclaveVars, row, backup, audit, req, held, history>>

EnclaveRestart ==
    /\ Faults
    /\ Mode = "enclave"
    /\ Restart
    /\ UNCHANGED apiVars

Start(r) ==
    \E u \in User, i \in Identity :
        \/ \E k \in Key : CreateWorker(r, u, i, k)
        \/ CreateEnclave(r, u, i)
        \/ StartRestore(r, u, i)
        \/ StartAdopt(r, u, i)
        \/ StartBatch(r, u, i)
        \/ StartDestroy(r, u, i)
        \/ \E d \in Digest : StartIntent(r, u, i, d)
        \/ \E d \in Digest, n \in Nonce : StartSign(r, u, i, d, n)

\* A request that has been admitted goes on, at the API or in the enclave.
Step(r) ==
    \/ HandlerFinish(r) /\ UNCHANGED apiVars
    \/ ReadGenerated(r)
    \/ ReadExported(r)
    \/ PutBackup(r)
    \/ Insert(r)
    \/ BackupMissing(r)
    \/ BackupImport(r)
    \/ ReadImported(r)
    \/ BackupCheckFormat(r)
    \/ BackupSign(r)
    \/ BackupCapture(r)
    \/ \E n \in Nonce : MintTicket(r, n)
    \/ CheckTicket(r)
    \/ \E n \in Nonce, d \in Digest : BatchTicket(r, n, d)
    \/ TicketStoreError(r)
    \/ CallSign(r)
    \/ ReadSignature(r)
    \/ MarkUsed(r)
    \/ CallDestroy(r)
    \/ ReadDestroyed(r)
    \/ MarkDestroyed(r)
    \/ DeleteBackup(r)
    \/ AddAuditEvent(r)

SignerNext ==
    \/ Tick /\ UNCHANGED apiVars
    \/ EnclaveRestart
    \/ \E n \in Nonce : KvExpire(n)
    \/ \E r \in Call : Start(r) \/ Step(r) \/ Crash(r)

SignerSpec == SignerInit /\ [][SignerNext]_signerVars

\* A handler whose promise has settled runs: both event loops are fair to every
\* request they have admitted.  Clients, crashes and the clock are not forced.
FairSignerSpec == SignerSpec /\ \A r \in Call : WF_signerVars(Step(r))

-----------------------------------------------------------------------------
AuditActions == {"identity.create", "identity.restore", "identity.sign", "identity.destroy"}

\* The variables hold values of their types.
SignerTypeOK ==
    /\ EnclaveTypeOK
    /\ row \in [Identity -> Row \cup {NoRow}]
    /\ backup \in [Identity -> Sealed \cup {None}]
    /\ audit \subseteq AuditActions \X Identity
    /\ kv \in [Nonce -> {"none", "fresh", "used"}]
    /\ req \in [Call -> Request \cup {Idle}]
    /\ held \subseteq Nonce
    /\ imported \subseteq Identity
    /\ crashed \in BOOLEAN
    /\ keyOf \in [Identity -> Key \cup {None}]
    /\ redeemed \subseteq Nonce
    /\ signed \in [Nonce -> 0..MaxSigned]
    /\ sigs \subseteq Identity \X Key

\* An active identity can always be served: its sealed key is in key_backups and
\* is the key of the public key in its row, whatever crashed and however create,
\* restore and destroy interleave.  Worker mode signs from the backup, enclave
\* mode restores from it after a restart.
ActiveKeyRecoverable ==
    \A i \in Identity : row[i].status = "active" =>
        backup[i] # None /\ backup[i].key = row[i].pk

\* Every signature the API has obtained for an identity verifies under the
\* public key in its row.
SignaturesVerify ==
    \A s \in sigs : row[s[1]] # NoRow /\ row[s[1]].pk = s[2]

\* A row, once inserted, keeps its owner and its key and is never active again
\* after it was destroyed, although restore reads the row and inserts it in
\* separate statements.
RowsAreFinal ==
    [][\A i \in Identity : row[i] # NoRow =>
          /\ row'[i].owner = row[i].owner
          /\ row'[i].pk = row[i].pk
          /\ row[i].status = "destroyed" => row'[i].status = "destroyed"]_row

\* When the destruction of an identity is in the audit log its sealed key is
\* gone, for good: no request that was already running puts it back.
AuditedDestroyErasesBackup ==
    \A i \in Identity : <<"identity.destroy", i>> \in audit => backup[i] = None

\* A ticket for which a client has got a signature is refused in every later
\* request ("replay ticket returns 409").
ReplayRefused ==
    \A r \in Call : req[r].late => req[r].pc \notin {"mark", "audit"}

\* In enclave mode the API obtains at most one signature with a ticket, and one
\* more for every restart, which loses the replay cache: the retry after a 404
\* and concurrent requests with one ticket do not add any.
SignaturesPerTicket ==
    \A n \in Nonce : signed[n] <= 1 + restarts

\* A ticket is good for one signature, however requests interleave.
TicketSignsOnce == \A n \in Nonce : signed[n] <= 1

\* The sealed key of a destroyed identity is deleted, unless a request dies: the
\* row is marked first, and nothing retries the rest of a DELETE that died.
DestroyedBackupGoes ==
    \A i \in Identity :
        row[i].status = "destroyed" ~> backup[i] = None \/ crashed

\* The tables of the API, whatever handlers interleave and die over them,
\* implement what is promised to the owner of an identity.
Custody == INSTANCE IdentityCustody WITH
    vault <- [i \in Identity |-> IF backup[i] = None THEN None ELSE backup[i].key],
    account <- row,
    signatures <- sigs

ImplementsCustody == Custody!CustodySpec
=============================================================================
