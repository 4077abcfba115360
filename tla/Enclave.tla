------------------------------ MODULE Enclave ------------------------------
(***************************************************************************)
(* The enclave signer service (enclave/src/index.ts): private keys and a   *)
(* nonce replay cache, both held in the memory of one Node process and     *)
(* lost when it restarts.                                                  *)
(*                                                                         *)
(* A handler runs without interruption up to an await, so each action      *)
(* below is one run of a handler from its start, or from an await, to the  *)
(* next await or to its response.  /internal/generate and                  *)
(* /internal/destroy are synchronous (one action); /internal/sign awaits   *)
(* jwtVerify, backup/export awaits sealKey and backup/import awaits        *)
(* unsealKey (two actions each).  call[c] is the handler that serves the   *)
(* caller c, or the response that c has not read yet.                      *)
(*                                                                         *)
(* Abstractions: a private key and its public key are the same value; a    *)
(* sealed key is its plaintext; a digest is its own hash; "now" counts     *)
(* whole seconds, as jose and pruneReplayCache do.  Every ticket the API   *)
(* mints has scope "sign" and a valid HMAC, so the scope and signature     *)
(* checks always pass and are left out.                                    *)
(***************************************************************************)
EXTENDS Integers

CONSTANTS
    Identity,      \* identity ids
    Key,           \* private keys
    Nonce,         \* ticket nonces; a nonce names its ticket
    Digest,        \* digests to sign
    Call,          \* callers of the enclave, each with one call at a time
    None,          \* "absent"
    TicketTtl,     \* TICKET_TTL_SECONDS
    MaxTime,       \* bound on the clock
    MaxRestarts    \* bound on enclave restarts

\* The claims of a ticket (its scope is always "sign").
Claims == [id: Identity, digest: Digest, exp: Nat \ {0}]

ASSUME EnclaveAssumption ==
    /\ None \notin Identity \cup Key \cup Nonce \cup Digest \cup Claims
    /\ TicketTtl \in Nat \ {0}
    /\ MaxTime \in Nat
    /\ MaxRestarts \in Nat

VARIABLES
    now,                \* the clock, in seconds
    restarts,           \* how many times the process has restarted
    keysByIdentityId,   \* identity -> private key or None
    nonceReplayCache,   \* nonce -> exp of the ticket, 0 when absent
    call,               \* caller -> handler in flight, or unread response
    claims,             \* nonce -> claims of the ticket minted with it, or None
    born,               \* every key ever generated
    uses                \* nonce -> signatures made with it since the last restart

enclaveVars == <<now, restarts, keysByIdentityId, nonceReplayCache, call,
                 claims, born, uses>>

Codes == {0, 200, 401, 403, 404, 409}

\* h: none, the await a handler is at, or a response waiting to be read.
CallState == [h: {"none", "verify", "seal", "unseal", "reply"},
              id: Identity \cup {None}, key: Key \cup {None},
              nonce: Nonce \cup {None}, digest: Digest \cup {None},
              code: Codes]

NoCall == [h |-> "none", id |-> None, key |-> None,
           nonce |-> None, digest |-> None, code |-> 0]

\* A response: its status code and, for generate and export, the key.
Reply(code, k) == [h |-> "reply", id |-> None, key |-> k,
                   nonce |-> None, digest |-> None, code |-> code]

\* A handler of identity i at the await h, holding the key k it has read.
Handler(h, i, k, n, d) == [h |-> h, id |-> i, key |-> k,
                           nonce |-> n, digest |-> d, code |-> 0]

InFlight(c) == call[c].h \in {"verify", "seal", "unseal"}

\* A fresh process: nothing in memory, nothing in flight, no ticket minted.
EnclaveBoot ==
    /\ now = 0
    /\ restarts = 0
    /\ keysByIdentityId = [i \in Identity |-> None]
    /\ nonceReplayCache = [n \in Nonce |-> 0]
    /\ call = [c \in Call |-> NoCall]
    /\ claims = [n \in Nonce |-> None]
    /\ uses = [n \in Nonce |-> 0]

EnclaveInit == EnclaveBoot /\ born = {}

-----------------------------------------------------------------------------
\* Mutant of pruneReplayCache: drops a nonce one second too early.
PruneEarly ==
    [n \in Nonce |-> IF nonceReplayCache[n] <= now + 1 THEN 0 ELSE nonceReplayCache[n]]

\* pruneReplayCache: drop the nonces of tickets that have expired.
pruneReplayCache ==
    [n \in Nonce |-> IF nonceReplayCache[n] <= now THEN 0 ELSE nonceReplayCache[n]]

\* POST /internal/generate.  randomBytes(32) never repeats a key.
Generate(c, i) ==
    /\ ~InFlight(c)
    /\ \/ /\ keysByIdentityId[i] # None
          /\ call' = [call EXCEPT ![c] = Reply(409, None)]
          /\ UNCHANGED <<keysByIdentityId, born>>
       \/ /\ keysByIdentityId[i] = None
          /\ \E k \in Key \ born :
                /\ keysByIdentityId' = [keysByIdentityId EXCEPT ![i] = k]
                /\ born' = born \cup {k}
                /\ call' = [call EXCEPT ![c] = Reply(200, k)]
    /\ UNCHANGED <<now, restarts, nonceReplayCache, claims, uses>>

\* Mutant of SignLookup: no 404 when the key is missing.
SignLookupNo404(c, i, d, n) ==
    /\ ~InFlight(c)
    /\ nonceReplayCache' = pruneReplayCache
    /\ call' = [call EXCEPT ![c] = Handler("verify", i, keysByIdentityId[i], n, d)]
    /\ UNCHANGED <<now, restarts, keysByIdentityId, claims, born, uses>>

\* POST /internal/sign up to "await jwtVerify": the key record is read here
\* and used after the await.
SignLookup(c, i, d, n) ==
    /\ ~InFlight(c)
    /\ nonceReplayCache' = pruneReplayCache
    /\ call' = [call EXCEPT ![c] =
                    IF keysByIdentityId[i] = None
                    THEN Reply(404, None)
                    ELSE Handler("verify", i, keysByIdentityId[i], n, d)]
    /\ UNCHANGED <<now, restarts, keysByIdentityId, claims, born, uses>>

\* Mutant of Refusal: a ticket is still accepted in the second it expires.
RefusalLate(c) ==
    LET t == claims[call[c].nonce] IN
    IF t.exp < now THEN 401
    ELSE IF t.id # call[c].id \/ t.digest # call[c].digest THEN 403
    ELSE IF nonceReplayCache[call[c].nonce] # 0 THEN 409
    ELSE 200

\* Why the rest of /internal/sign refuses the call c: jwtVerify rejects an
\* expired ticket, the claims are compared with the body, the nonce is new.
Refusal(c) ==
    LET t == claims[call[c].nonce] IN
    IF t.exp <= now THEN 401
    ELSE IF t.id # call[c].id \/ t.digest # call[c].digest THEN 403
    ELSE IF nonceReplayCache[call[c].nonce] # 0 THEN 409
    ELSE 200

\* Mutant of SignVerify: the nonce is recorded before the claims are compared.
SignVerifyRecordFirst(c) ==
    /\ call[c].h = "verify"
    /\ nonceReplayCache' = [nonceReplayCache EXCEPT
                              ![call[c].nonce] = claims[call[c].nonce].exp]
    /\ call' = [call EXCEPT ![c] =
                    Reply(Refusal(c), IF Refusal(c) = 200 THEN call[c].key ELSE None)]
    /\ uses' = IF Refusal(c) = 200
               THEN [uses EXCEPT ![call[c].nonce] = @ + 1] ELSE uses
    /\ UNCHANGED <<now, restarts, keysByIdentityId, claims, born>>

\* POST /internal/sign after jwtVerify: refuse, or record the nonce and sign.
SignVerify(c) ==
    /\ call[c].h = "verify"
    /\ \/ /\ Refusal(c) # 200
          /\ call' = [call EXCEPT ![c] = Reply(Refusal(c), None)]
          /\ UNCHANGED <<nonceReplayCache, uses>>
       \/ /\ Refusal(c) = 200
          /\ nonceReplayCache' = [nonceReplayCache EXCEPT
                                    ![call[c].nonce] = claims[call[c].nonce].exp]
          /\ uses' = [uses EXCEPT ![call[c].nonce] = @ + 1]
          /\ call' = [call EXCEPT ![c] = Reply(200, call[c].key)]
    /\ UNCHANGED <<now, restarts, keysByIdentityId, claims, born>>

\* POST /internal/destroy.
Destroy(c, i) ==
    /\ ~InFlight(c)
    /\ call' = [call EXCEPT ![c] =
                    Reply(IF keysByIdentityId[i] = None THEN 404 ELSE 200, None)]
    /\ keysByIdentityId' = [keysByIdentityId EXCEPT ![i] = None]
    /\ UNCHANGED <<now, restarts, nonceReplayCache, claims, born, uses>>

\* POST /internal/backup/export up to "await sealKey": the key is read here.
ExportRead(c, i) ==
    /\ ~InFlight(c)
    /\ call' = [call EXCEPT ![c] =
                    IF keysByIdentityId[i] = None
                    THEN Reply(404, None)
                    ELSE Handler("seal", i, keysByIdentityId[i], None, None)]
    /\ UNCHANGED <<now, restarts, keysByIdentityId, nonceReplayCache, claims,
                   born, uses>>

\* POST /internal/backup/export after sealKey.
ExportSealed(c) ==
    /\ call[c].h = "seal"
    /\ call' = [call EXCEPT ![c] = Reply(200, call[c].key)]
    /\ UNCHANGED <<now, restarts, keysByIdentityId, nonceReplayCache, claims,
                   born, uses>>

\* POST /internal/backup/import of the sealed key k, up to "await unsealKey".
ImportStart(c, i, k) ==
    /\ ~InFlight(c)
    /\ call' = [call EXCEPT ![c] = Handler("unseal", i, k, None, None)]
    /\ UNCHANGED <<now, restarts, keysByIdentityId, nonceReplayCache, claims,
                   born, uses>>

\* POST /internal/backup/import after unsealKey: whatever key the identity
\* has by now is overwritten.
ImportSet(c) ==
    /\ call[c].h = "unseal"
    /\ keysByIdentityId' = [keysByIdentityId EXCEPT ![call[c].id] = call[c].key]
    /\ call' = [call EXCEPT ![c] = Reply(200, None)]
    /\ UNCHANGED <<now, restarts, nonceReplayCache, claims, born, uses>>

\* A handler in flight runs to its response.
HandlerFinish(c) == SignVerify(c) \/ ExportSealed(c) \/ ImportSet(c)

\* The process ends (gracefulShutdown, or a crash) and starts again: keys and
\* nonces are gone, and the callers of handlers in flight get an error (code
\* 0: no HTTP status, so the client throws something other than
\* EnclaveClientError).
Restart ==
    /\ restarts < MaxRestarts
    /\ restarts' = restarts + 1
    /\ keysByIdentityId' = [i \in Identity |-> None]
    /\ nonceReplayCache' = [n \in Nonce |-> 0]
    /\ uses' = [n \in Nonce |-> 0]
    /\ call' = [c \in Call |-> IF InFlight(c) THEN Reply(0, None) ELSE call[c]]
    /\ UNCHANGED <<now, claims, born>>

Tick ==
    /\ now < MaxTime
    /\ now' = now + 1
    /\ UNCHANGED <<restarts, keysByIdentityId, nonceReplayCache, call, claims,
                   born, uses>>

\* The API signs a ticket (signTicketToken) with a fresh random nonce.
Mint(n, i, d) ==
    /\ claims[n] = None
    /\ claims' = [claims EXCEPT ![n] = [id |-> i, digest |-> d, exp |-> now + TicketTtl]]

\* The enclave on its own: any caller may send any request its schema allows,
\* with any ticket the API has minted and any key that was sealed.
EnclaveNext ==
    \/ Tick
    \/ Restart
    \/ \E n \in Nonce, i \in Identity, d \in Digest :
          /\ Mint(n, i, d)
          /\ UNCHANGED <<now, restarts, keysByIdentityId, nonceReplayCache, call,
                         born, uses>>
    \/ \E c \in Call :
          \/ HandlerFinish(c)
          \/ \E i \in Identity :
                \/ Generate(c, i)
                \/ Destroy(c, i)
                \/ ExportRead(c, i)
                \/ \E k \in born : ImportStart(c, i, k)
                \/ \E d \in Digest, n \in Nonce :
                      claims[n] # None /\ SignLookup(c, i, d, n)

EnclaveSpec == EnclaveInit /\ [][EnclaveNext]_enclaveVars

-----------------------------------------------------------------------------
\* The variables hold values of their types; a handler in flight holds the
\* identity, key and ticket its code path has read.
EnclaveTypeOK ==
    /\ now \in Nat
    /\ restarts \in Nat
    /\ keysByIdentityId \in [Identity -> Key \cup {None}]
    /\ nonceReplayCache \in [Nonce -> Nat]
    /\ call \in [Call -> CallState]
    /\ claims \in [Nonce -> Claims \cup {None}]
    /\ born \subseteq Key
    /\ uses \in [Nonce -> Nat]
    /\ \A c \in Call :
          /\ InFlight(c) => call[c].id \in Identity /\ call[c].key \in Key
          /\ call[c].h = "verify" =>
                /\ call[c].nonce \in Nonce
                /\ claims[call[c].nonce] # None

\* One signature per ticket: between two restarts the enclave signs at most
\* once with a ticket, although it drops nonces from its cache as they expire
\* and several requests with one ticket can be awaiting jwtVerify at once.
OneSignaturePerTicket == \A n \in Nonce : uses[n] <= 1

\* No false replay: the cache holds a nonce only if its ticket has signed, so a
\* request that was refused (wrong identity, wrong digest) does not use up the
\* ticket, and the cached expiry is the ticket's own.
CachedOnlyIfSigned ==
    \A n \in Nonce : nonceReplayCache[n] # 0 =>
        /\ uses[n] = 1
        /\ claims[n] # None
        /\ nonceReplayCache[n] = claims[n].exp

\* Why OneSignaturePerTicket is inductive: a ticket that has signed stays in
\* the cache until jwtVerify would reject it anyway.
CachedUntilExpired ==
    \A n \in Nonce : uses[n] # 0 =>
        /\ claims[n] # None
        /\ nonceReplayCache[n] = claims[n].exp \/ claims[n].exp <= now

EnclaveInv ==
    EnclaveTypeOK /\ OneSignaturePerTicket /\ CachedOnlyIfSigned /\ CachedUntilExpired

\* The replay cache, with its pruning, implements a ledger that never forgets
\* a redeemed ticket before a restart.
Ledger == INSTANCE TicketLedger WITH
    time <- now,
    expiry <- [n \in Nonce |-> IF claims[n] = None THEN 0 ELSE claims[n].exp],
    redeemed <- uses

ImplementsLedger == Ledger!LedgerSpec
=============================================================================
