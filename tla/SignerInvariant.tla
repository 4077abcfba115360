-------------------------- MODULE SignerInvariant --------------------------
(***************************************************************************)
(* The inductive invariant of module Signer: what handlers that interleave *)
(* at every await may rely on.                                             *)
(***************************************************************************)
EXTENDS Signer

\* Where a handler can be.
PcsOf(op) ==
    CASE op = "create" -> {"generated", "exporting", "putBackup", "insert", "audit"}
      [] op = "restore" -> {"getBackup", "importing"}
      [] op = "adopt" -> {"getBackup", "importing", "insert", "audit"}
      [] op = "intent" -> {"mint"}
      [] op = "sign" -> {"check", "lookup", "signing", "getBackup", "importing", "mark", "audit"}
      [] op = "batch" -> {"ticket", "lookup", "signing", "getBackup", "importing", "mark", "audit"}
      [] op = "destroy" -> {"callDestroy", "destroying", "getBackup", "importing", "markRow",
                            "delBackup", "audit"}
      [] op = "none" -> {"idle"}

\* The request names a minted ticket and a digest.
HasTicket(r) ==
    req[r].nonce \in Nonce /\ claims[req[r].nonce] # None /\ req[r].digest \in Digest

\* What a request in flight has read by the time it is at its pc.
RequestTyped(r) ==
    LET q == req[r] IN
    /\ q.pc \in PcsOf(q.op)
    /\ q.pc \in {"lookup", "importing", "signing"} => Mode = "enclave"
    /\ q.op \in {"create", "adopt"} => q.key \in Key
    /\ q.op = "intent" => q.digest \in Digest
    /\ q.op = "sign" => HasTicket(r)
    /\ q.op = "batch" =>
          /\ q.left > 0 \/ q.pc = "audit"
          /\ q.pc \in {"lookup", "signing", "importing", "mark"} => HasTicket(r)
          /\ q.pc = "getBackup" /\ Mode = "enclave" => HasTicket(r)
          /\ q.pc \in {"ticket", "mark"} /\ Mode = "worker" => q.key \in Key

\* The enclave's side of a request matches the API's.
CallMatches(r) ==
    /\ req[r].pc \in {"generated", "destroying"} => call[r].h = "reply"
    /\ req[r].pc = "exporting" => call[r].h \in {"seal", "reply"}
    /\ req[r].pc = "importing" => call[r].h \in {"unseal", "reply"}
    /\ req[r].pc = "signing" => call[r].h \in {"verify", "reply"}
    /\ req[r].pc \notin {"generated", "destroying", "exporting", "importing", "signing"} =>
          call[r] = NoCall
    /\ InFlight(r) => call[r].id = req[r].id
    /\ call[r].h = "verify" => call[r].nonce = req[r].nonce

\* A handler, or the enclave's side of it, holds only the key of its identity,
\* even if it read it before an await.
KeyHeld(r) ==
    /\ req[r].key # None => req[r].key = keyOf[req[r].id]
    /\ InFlight(r) => call[r].key = keyOf[req[r].id]
    /\ req[r].pc \in {"exporting", "signing"} /\ Answered(r, 200) =>
          call[r].key = keyOf[req[r].id]

\* What a request knows of the row and the backup of its identity, although
\* other requests run between its reads and its writes.
RequestOrdered(r) ==
    LET q == req[r] IN
    /\ q.op = "create" => q.id \notin imported /\ keyOf[q.id] # None
    /\ q.op = "create" /\ q.pc # "audit" => row[q.id] = NoRow
    /\ q.op = "adopt" => q.id \in imported
    /\ q.op \in {"restore", "sign", "batch", "destroy"} => row[q.id] # NoRow
    /\ q.op \in {"create", "adopt"} /\ q.pc \in {"importing", "insert"} =>
          row[q.id] # NoRow \/ backup[q.id] # None
    /\ q.pc = "delBackup" => row[q.id].status = "destroyed"
    /\ q.op = "destroy" /\ q.pc = "audit" =>
          row[q.id].status = "destroyed" /\ backup[q.id] = None

\* A ticket is marked in KV before its request ends, and a request that arrives
\* with a redeemed ticket gets no further than the check.
TicketHeld(r) ==
    /\ req[r].op = "sign" /\ req[r].pc = "audit" => kv[req[r].nonce] # "fresh"
    /\ req[r].late => req[r].op = "sign" /\ req[r].pc = "check"
                      /\ req[r].nonce \in redeemed

RequestInv(r) ==
    RequestTyped(r) /\ CallMatches(r) /\ KeyHeld(r) /\ RequestOrdered(r) /\ TicketHeld(r)

\* Every stored copy of a private key (in the enclave, a backup, a row) and every
\* signature is of the key generated for the identity.
KeysAgree ==
    /\ \A i \in Identity :
          /\ keysByIdentityId[i] # None => keysByIdentityId[i] = keyOf[i]
          /\ backup[i] # None => backup[i].key = keyOf[i]
          /\ row[i] # NoRow => row[i].pk = keyOf[i]
          /\ i \in imported => keyOf[i] # None
    /\ \A s \in sigs : s[2] = keyOf[s[1]] /\ row[s[1]] # NoRow

\* A row is inserted after its backup, and its backup deleted after the row was
\* marked.
StoresOrdered ==
    /\ \A i \in Identity : row[i].status = "active" => backup[i] # None
    /\ \A i \in Identity : <<"identity.destroy", i>> \in audit =>
          backup[i] = None /\ row[i].status = "destroyed"

\* A redeemed ticket is marked in KV, or gone from it, for good.
TicketsMarked ==
    /\ \A n \in held \cup redeemed : claims[n] # None
    /\ \A n \in redeemed : kv[n] # "fresh"

\* Two requests never create the same identity (randomUUID).
CreatesDistinct ==
    \A p, r \in Call : req[p].op = "create" /\ req[r].op = "create" /\ p # r =>
        req[p].id # req[r].id

\* The inductive invariant behind the theorems of SignerProofs.
SignerInv ==
    /\ SignerTypeOK
    /\ KeysAgree
    /\ StoresOrdered
    /\ TicketsMarked
    /\ CreatesDistinct
    /\ \A r \in Call : RequestInv(r)
=============================================================================
