--------------------------- MODULE EnclaveProofs ---------------------------
(***************************************************************************)
(* Theorems about the enclave, for any number of identities, keys, nonces  *)
(* and callers, any ticket lifetime and any number of restarts.            *)
(***************************************************************************)
EXTENDS Enclave, TLAPS

\* The initial state satisfies the invariant.
LEMMA EnclaveInitInv == EnclaveInit => EnclaveInv
  <1> SUFFICES ASSUME EnclaveInit PROVE EnclaveInv
    OBVIOUS
  <1> USE DEF EnclaveInit, EnclaveBoot
  <1>1. EnclaveTypeOK
    BY EnclaveAssumption DEF EnclaveTypeOK, NoCall, CallState, Codes, InFlight
  <1>2. OneSignaturePerTicket /\ CachedOnlyIfSigned /\ CachedUntilExpired
    BY DEF OneSignaturePerTicket, CachedOnlyIfSigned, CachedUntilExpired
  <1> QED BY <1>1, <1>2 DEF EnclaveInv

\* The types of the values the handlers pass around.
LEMMA CallTypes ==
    /\ NoCall \in CallState
    /\ \A code \in Codes, k \in Key \cup {None} : Reply(code, k) \in CallState
    /\ \A h \in {"verify", "seal", "unseal"}, i \in Identity, k \in Key \cup {None},
          n \in Nonce \cup {None}, d \in Digest \cup {None} :
          Handler(h, i, k, n, d) \in CallState
  BY DEF NoCall, Reply, Handler, CallState, Codes

\* Pruning keeps a function of nonces to naturals.
LEMMA PruneType ==
    ASSUME nonceReplayCache \in [Nonce -> Nat]
    PROVE  pruneReplayCache \in [Nonce -> Nat]
  BY DEF pruneReplayCache

-----------------------------------------------------------------------------
\* Type correctness is inductive: one lemma for each action, so that the module
\* of the API can use them for the calls it makes.

LEMMA GenerateType ==
    ASSUME EnclaveTypeOK, NEW c \in Call, NEW i \in Identity, Generate(c, i)
    PROVE  EnclaveTypeOK'
  <1> USE EnclaveAssumption DEF EnclaveTypeOK
  <1>1. call' \in [Call -> CallState]
    BY CallTypes DEF Generate, Codes
  <1>2. \A b \in Call : InFlight(b)' => InFlight(b) /\ call'[b] = call[b]
    BY DEF Generate, InFlight, Reply
  <1>3. \A b \in Call : call'[b].h = "verify" => InFlight(b)'
    BY DEF InFlight
  <1>4. /\ keysByIdentityId' \in [Identity -> Key \cup {None}]
        /\ born' \subseteq Key
    BY DEF Generate
  <1> QED BY <1>1, <1>2, <1>3, <1>4 DEF Generate

LEMMA SignLookupType ==
    ASSUME EnclaveTypeOK,
           NEW c \in Call, NEW i \in Identity, NEW d \in Digest, NEW n \in Nonce,
           claims[n] # None, SignLookup(c, i, d, n)
    PROVE  EnclaveTypeOK'
  <1> USE EnclaveAssumption DEF EnclaveTypeOK
  <1>1. nonceReplayCache' \in [Nonce -> Nat]
    BY PruneType DEF SignLookup
  <1>2. call' \in [Call -> CallState]
    BY CallTypes DEF SignLookup, Codes
  <1>3. \A b \in Call \ {c} : call'[b] = call[b]
    BY DEF SignLookup
  <1>4. InFlight(c)' => /\ call'[c].id = i /\ call'[c].key \in Key
                        /\ call'[c].nonce = n
    BY DEF SignLookup, InFlight, Reply, Handler
  <1> QED BY <1>1, <1>2, <1>3, <1>4 DEF SignLookup, InFlight

LEMMA SignVerifyType ==
    ASSUME EnclaveTypeOK, NEW c \in Call, SignVerify(c)
    PROVE  EnclaveTypeOK'
  <1> USE EnclaveAssumption DEF EnclaveTypeOK
  <1>1. /\ call[c].nonce \in Nonce
        /\ claims[call[c].nonce] \in Claims
        /\ call[c].key \in Key
    BY DEF SignVerify, InFlight
  <1>2. Refusal(c) \in Codes
    BY DEF Refusal, Codes
  <1>3. call' \in [Call -> CallState]
    BY <1>1, <1>2, CallTypes DEF SignVerify, Codes
  <1>4. nonceReplayCache' \in [Nonce -> Nat] /\ uses' \in [Nonce -> Nat]
    BY <1>1 DEF SignVerify, Claims
  <1>5. \A b \in Call : InFlight(b)' => call'[b] = call[b] /\ InFlight(b)
    BY DEF SignVerify, InFlight, Reply
  <1>6. \A b \in Call : call'[b].h = "verify" => InFlight(b)'
    BY DEF InFlight
  <1> QED BY <1>3, <1>4, <1>5, <1>6 DEF SignVerify

LEMMA DestroyType ==
    ASSUME EnclaveTypeOK, NEW c \in Call, NEW i \in Identity, Destroy(c, i)
    PROVE  EnclaveTypeOK'
  <1> USE EnclaveAssumption DEF EnclaveTypeOK
  <1>1. call' \in [Call -> CallState]
    BY CallTypes DEF Destroy, Codes
  <1>2. \A b \in Call : InFlight(b)' => call'[b] = call[b] /\ InFlight(b)
    BY DEF Destroy, InFlight, Reply
  <1>3. \A b \in Call : call'[b].h = "verify" => InFlight(b)'
    BY DEF InFlight
  <1> QED BY <1>1, <1>2, <1>3 DEF Destroy

LEMMA ExportReadType ==
    ASSUME EnclaveTypeOK, NEW c \in Call, NEW i \in Identity, ExportRead(c, i)
    PROVE  EnclaveTypeOK'
  <1> USE EnclaveAssumption DEF EnclaveTypeOK
  <1>1. call' \in [Call -> CallState]
    BY CallTypes DEF ExportRead, Codes
  <1>2. \A b \in Call \ {c} : call'[b] = call[b]
    BY DEF ExportRead
  <1>3. /\ InFlight(c)' => call'[c].id = i /\ call'[c].key \in Key
        /\ call'[c].h # "verify"
    BY DEF ExportRead, InFlight, Reply, Handler
  <1> QED BY <1>1, <1>2, <1>3 DEF ExportRead, InFlight

LEMMA ExportSealedType ==
    ASSUME EnclaveTypeOK, NEW c \in Call, ExportSealed(c)
    PROVE  EnclaveTypeOK'
  <1> USE EnclaveAssumption DEF EnclaveTypeOK
  <1>1. call' \in [Call -> CallState]
    BY CallTypes DEF ExportSealed, Codes, InFlight
  <1>2. \A b \in Call : InFlight(b)' => call'[b] = call[b] /\ InFlight(b)
    BY DEF ExportSealed, InFlight, Reply
  <1>3. \A b \in Call : call'[b].h = "verify" => InFlight(b)'
    BY DEF InFlight
  <1> QED BY <1>1, <1>2, <1>3 DEF ExportSealed

LEMMA ImportStartType ==
    ASSUME EnclaveTypeOK, NEW c \in Call, NEW i \in Identity, NEW k \in Key,
           ImportStart(c, i, k)
    PROVE  EnclaveTypeOK'
  <1> USE EnclaveAssumption DEF EnclaveTypeOK
  <1>1. call' \in [Call -> CallState]
    BY CallTypes DEF ImportStart
  <1>2. \A b \in Call \ {c} : call'[b] = call[b]
    BY DEF ImportStart
  <1>3. call'[c].id = i /\ call'[c].key = k /\ call'[c].h # "verify"
    BY DEF ImportStart, Handler
  <1> QED BY <1>1, <1>2, <1>3 DEF ImportStart, InFlight

LEMMA ImportSetType ==
    ASSUME EnclaveTypeOK, NEW c \in Call, ImportSet(c)
    PROVE  EnclaveTypeOK'
  <1> USE EnclaveAssumption DEF EnclaveTypeOK
  <1>1. call' \in [Call -> CallState]
    BY CallTypes DEF ImportSet, Codes
  <1>2. \A b \in Call : InFlight(b)' => call'[b] = call[b] /\ InFlight(b)
    BY DEF ImportSet, InFlight, Reply
  <1>3. \A b \in Call : call'[b].h = "verify" => InFlight(b)'
    BY DEF InFlight
  <1>4. keysByIdentityId' \in [Identity -> Key \cup {None}]
    BY DEF ImportSet, InFlight
  <1> QED BY <1>1, <1>2, <1>3, <1>4 DEF ImportSet

LEMMA RestartType ==
    ASSUME EnclaveTypeOK, Restart
    PROVE  EnclaveTypeOK'
  <1> USE EnclaveAssumption DEF EnclaveTypeOK
  <1>1. call' \in [Call -> CallState]
    BY CallTypes DEF Restart, Codes
  <1>2. \A b \in Call : ~InFlight(b)' /\ call'[b].h # "verify"
    BY DEF Restart, InFlight, Reply
  <1> QED BY <1>1, <1>2 DEF Restart

LEMMA MintType ==
    ASSUME EnclaveTypeOK, NEW n \in Nonce, NEW i \in Identity, NEW d \in Digest,
           Mint(n, i, d),
           UNCHANGED <<now, restarts, keysByIdentityId, nonceReplayCache, call, born, uses>>
    PROVE  EnclaveTypeOK'
  <1> USE EnclaveAssumption DEF EnclaveTypeOK
  <1>1. [id |-> i, digest |-> d, exp |-> now + TicketTtl] \in Claims
    BY DEF Claims
  <1>2. claims' \in [Nonce -> Claims \cup {None}]
    BY <1>1 DEF Mint
  <1>3. \A m \in Nonce : claims[m] # None => claims'[m] = claims[m]
    BY DEF Mint
  <1> QED BY <1>2, <1>3 DEF InFlight

LEMMA TickType == ASSUME EnclaveTypeOK, Tick PROVE EnclaveTypeOK'
  BY DEF EnclaveTypeOK, Tick, InFlight

-----------------------------------------------------------------------------
\* The replay cache: the conjuncts of EnclaveInv beyond types.
CacheInv == OneSignaturePerTicket /\ CachedOnlyIfSigned /\ CachedUntilExpired

\* Pruning forgets expired tickets only.
LEMMA PruneInv ==
    ASSUME EnclaveTypeOK, CacheInv, nonceReplayCache' = pruneReplayCache,
           UNCHANGED <<now, claims, uses>>
    PROVE  CacheInv'
  <1> USE DEF EnclaveTypeOK, CacheInv
  <1>1. \A n \in Nonce : nonceReplayCache'[n] = 0
                         \/ nonceReplayCache'[n] = nonceReplayCache[n]
    BY DEF pruneReplayCache
  <1>2. OneSignaturePerTicket' /\ CachedOnlyIfSigned'
    BY <1>1 DEF OneSignaturePerTicket, CachedOnlyIfSigned
  <1>3. CachedUntilExpired'
    <2> SUFFICES ASSUME NEW n \in Nonce, uses'[n] # 0
                 PROVE  /\ claims'[n] # None
                        /\ nonceReplayCache'[n] = claims'[n].exp \/ claims'[n].exp <= now'
      BY DEF CachedUntilExpired
    <2>1. claims[n] # None
          /\ (nonceReplayCache[n] = claims[n].exp \/ claims[n].exp <= now)
      BY DEF CachedUntilExpired
    <2>2. nonceReplayCache'[n] = IF nonceReplayCache[n] <= now THEN 0
                                 ELSE nonceReplayCache[n]
      BY DEF pruneReplayCache
    <2> QED BY <2>1, <2>2
  <1> QED BY <1>2, <1>3

\* A signature is made only with a ticket that has made none, because a ticket
\* that has is still cached or has expired.
LEMMA FreshTicket ==
    ASSUME EnclaveTypeOK, CacheInv, NEW c \in Call, call[c].h = "verify",
           Refusal(c) = 200
    PROVE  /\ call[c].nonce \in Nonce
           /\ claims[call[c].nonce] \in Claims
           /\ claims[call[c].nonce].exp > now
           /\ uses[call[c].nonce] = 0
  <1>1. call[c].nonce \in Nonce /\ claims[call[c].nonce] \in Claims
    BY EnclaveAssumption DEF EnclaveTypeOK
  <1>2. claims[call[c].nonce].exp \in Nat \ {0} /\ now \in Nat
    BY <1>1 DEF Claims, EnclaveTypeOK
  <1>3. /\ ~(claims[call[c].nonce].exp <= now)
        /\ nonceReplayCache[call[c].nonce] = 0
    BY DEF Refusal
  <1> QED BY <1>1, <1>2, <1>3 DEF CacheInv, CachedUntilExpired

LEMMA SignVerifyInv ==
    ASSUME EnclaveTypeOK, CacheInv, NEW c \in Call, SignVerify(c)
    PROVE  CacheInv'
  <1>1. CASE Refusal(c) # 200
    BY <1>1 DEF SignVerify, CacheInv, OneSignaturePerTicket, CachedOnlyIfSigned,
                CachedUntilExpired
  <1>2. CASE Refusal(c) = 200
    <2> DEFINE n == call[c].nonce
    <2>1. n \in Nonce /\ claims[n] # None /\ claims[n].exp \in Nat /\ uses[n] = 0
      BY <1>2, FreshTicket, EnclaveAssumption DEF SignVerify, Claims, EnclaveTypeOK
    <2>2. /\ uses' = [uses EXCEPT ![n] = 1]
          /\ nonceReplayCache' = [nonceReplayCache EXCEPT ![n] = claims[n].exp]
          /\ UNCHANGED <<now, claims>>
      BY <1>2, <2>1 DEF SignVerify, EnclaveTypeOK
    <2> HIDE DEF n
    <2> QED BY <2>1, <2>2 DEF EnclaveTypeOK, CacheInv, OneSignaturePerTicket,
                              CachedOnlyIfSigned, CachedUntilExpired
  <1> QED BY <1>1, <1>2

LEMMA RestartInv ==
    ASSUME Restart PROVE CacheInv'
  BY DEF Restart, CacheInv, OneSignaturePerTicket, CachedOnlyIfSigned, CachedUntilExpired

LEMMA TickInv ==
    ASSUME EnclaveTypeOK, CacheInv, Tick PROVE CacheInv'
  <1>1. \A n \in Nonce : claims[n] # None => claims[n].exp \in Nat
    BY DEF EnclaveTypeOK, Claims
  <1> QED BY <1>1 DEF EnclaveTypeOK, Tick, CacheInv, OneSignaturePerTicket,
                      CachedOnlyIfSigned, CachedUntilExpired

LEMMA MintInv ==
    ASSUME EnclaveTypeOK, CacheInv, NEW n \in Nonce, NEW i \in Identity, NEW d \in Digest,
           Mint(n, i, d), UNCHANGED <<now, nonceReplayCache, uses>>
    PROVE  CacheInv'
  <1>1. \A m \in Nonce : claims[m] # None => claims'[m] = claims[m]
    BY DEF Mint, EnclaveTypeOK
  <1> QED BY <1>1 DEF CacheInv, OneSignaturePerTicket, CachedOnlyIfSigned, CachedUntilExpired

LEMMA CacheInvUnchanged ==
    ASSUME CacheInv, UNCHANGED <<now, nonceReplayCache, claims, uses>> PROVE CacheInv'
  BY DEF CacheInv, OneSignaturePerTicket, CachedOnlyIfSigned, CachedUntilExpired

-----------------------------------------------------------------------------
\* Every step of the enclave preserves its invariant.
LEMMA EnclaveNextInv ==
    ASSUME EnclaveInv, [EnclaveNext]_enclaveVars
    PROVE  EnclaveInv'
  <1> USE DEF EnclaveInv
  <1>0. EnclaveTypeOK /\ CacheInv
    BY DEF CacheInv
  <1> SUFFICES EnclaveTypeOK' /\ CacheInv'
    BY DEF CacheInv
  <1>1. CASE Tick
    BY <1>0, <1>1, TickType, TickInv
  <1>2. CASE Restart
    BY <1>0, <1>2, RestartType, RestartInv
  <1>3. ASSUME NEW n \in Nonce, NEW i \in Identity, NEW d \in Digest, Mint(n, i, d),
               UNCHANGED <<now, restarts, keysByIdentityId, nonceReplayCache, call,
                           born, uses>>
        PROVE  EnclaveTypeOK' /\ CacheInv'
    BY <1>0, <1>3, MintType, MintInv
  <1>4. ASSUME NEW c \in Call, HandlerFinish(c)
        PROVE  EnclaveTypeOK' /\ CacheInv'
    <2>1. CASE SignVerify(c)
      BY <1>0, <2>1, SignVerifyType, SignVerifyInv
    <2>2. CASE ExportSealed(c)
      BY <1>0, <2>2, ExportSealedType, CacheInvUnchanged DEF ExportSealed
    <2>3. CASE ImportSet(c)
      BY <1>0, <2>3, ImportSetType, CacheInvUnchanged DEF ImportSet
    <2> QED BY <1>4, <2>1, <2>2, <2>3 DEF HandlerFinish
  <1>5. ASSUME NEW c \in Call, NEW i \in Identity,
               Generate(c, i) \/ Destroy(c, i) \/ ExportRead(c, i)
        PROVE  EnclaveTypeOK' /\ CacheInv'
    <2>1. UNCHANGED <<now, nonceReplayCache, claims, uses>>
      BY <1>5 DEF Generate, Destroy, ExportRead
    <2> QED BY <1>0, <1>5, <2>1, GenerateType, DestroyType, ExportReadType, CacheInvUnchanged
  <1>6. ASSUME NEW c \in Call, NEW i \in Identity, NEW k \in born, ImportStart(c, i, k)
        PROVE  EnclaveTypeOK' /\ CacheInv'
    <2>1. k \in Key
      BY <1>0 DEF EnclaveTypeOK
    <2> QED BY <1>0, <1>6, <2>1, ImportStartType, CacheInvUnchanged DEF ImportStart
  <1>7. ASSUME NEW c \in Call, NEW i \in Identity, NEW d \in Digest, NEW n \in Nonce,
               claims[n] # None, SignLookup(c, i, d, n)
        PROVE  EnclaveTypeOK' /\ CacheInv'
    <2>1. CacheInv'
      BY <1>0, <1>7, PruneInv DEF SignLookup
    <2> QED BY <1>0, <1>7, <2>1, SignLookupType
  <1>8. CASE UNCHANGED enclaveVars
    BY <1>0, <1>8, CacheInvUnchanged DEF enclaveVars, EnclaveTypeOK, InFlight
  <1> QED BY <1>1, <1>2, <1>3, <1>4, <1>5, <1>6, <1>7, <1>8 DEF EnclaveNext

\* EnclaveInv holds throughout: it is inductive.
THEOREM EnclaveInvariant == EnclaveSpec => []EnclaveInv
  <1>1. EnclaveInv /\ [EnclaveNext]_enclaveVars => EnclaveInv'
    BY EnclaveNextInv
  <1> QED BY EnclaveInitInv, <1>1, PTL DEF EnclaveSpec

\* Type correctness of the enclave: what a handler uses after an await has the
\* type of what it read before.
THEOREM EnclaveTypeCorrect == EnclaveSpec => []EnclaveTypeOK
  <1>1. EnclaveInv => EnclaveTypeOK
    BY DEF EnclaveInv
  <1> QED BY EnclaveInvariant, <1>1, PTL

\* /internal/sign signs at most once per ticket between two restarts.
THEOREM SignsOncePerTicket == EnclaveSpec => []OneSignaturePerTicket
  <1>1. EnclaveInv => OneSignaturePerTicket
    BY DEF EnclaveInv
  <1> QED BY EnclaveInvariant, <1>1, PTL

\* A refused request never uses up a ticket.
THEOREM NoFalseReplay == EnclaveSpec => []CachedOnlyIfSigned
  <1>1. EnclaveInv => CachedOnlyIfSigned
    BY DEF EnclaveInv
  <1> QED BY EnclaveInvariant, <1>1, PTL

\* Pruning never forgets a ticket that jwtVerify would still accept.
THEOREM CachedWhileValid == EnclaveSpec => []CachedUntilExpired
  <1>1. EnclaveInv => CachedUntilExpired
    BY DEF EnclaveInv
  <1> QED BY EnclaveInvariant, <1>1, PTL

-----------------------------------------------------------------------------
\* The refinement: the initial state of the enclave is that of the ledger.
LEMMA LedgerInitRefined == EnclaveInit => Ledger!LedgerInit
  BY DEF EnclaveInit, EnclaveBoot, Ledger!LedgerInit

\* A step of the enclave is a step of the ledger or leaves it unchanged.
LEMMA LedgerStepRefined ==
    ASSUME EnclaveInv, [EnclaveNext]_enclaveVars
    PROVE  [Ledger!LedgerNext]_Ledger!ledgerVars
  <1> DEFINE expiry == [n \in Nonce |-> IF claims[n] = None THEN 0 ELSE claims[n].exp]
  <1>0. EnclaveTypeOK /\ CacheInv
    BY DEF EnclaveInv, CacheInv
  <1>1. CASE Tick
    BY <1>1 DEF Tick, Ledger!LedgerNext, Ledger!LedgerTick
  <1>2. CASE Restart
    BY <1>2 DEF Restart, Ledger!LedgerNext, Ledger!Forget
  <1>3. ASSUME NEW n \in Nonce, NEW i \in Identity, NEW d \in Digest, Mint(n, i, d),
               UNCHANGED <<now, restarts, keysByIdentityId, nonceReplayCache, call,
                           born, uses>>
        PROVE  Ledger!LedgerMint(n)
    <2>1. claims' = [claims EXCEPT ![n] = [id |-> i, digest |-> d, exp |-> now + TicketTtl]]
          /\ claims[n] = None
      BY <1>3 DEF Mint
    <2>2. None # [id |-> i, digest |-> d, exp |-> now + TicketTtl]
      BY <1>0, EnclaveAssumption DEF EnclaveTypeOK, Claims
    <2> QED BY <1>0, <1>3, <2>1, <2>2 DEF EnclaveTypeOK, Ledger!LedgerMint
  <1>4. ASSUME NEW c \in Call, SignVerify(c), Refusal(c) = 200
        PROVE  \E n \in Nonce : Ledger!Redeem(n)
    <2> DEFINE n == call[c].nonce
    <2>1. n \in Nonce /\ claims[n] # None /\ claims[n].exp > now /\ uses[n] = 0
      BY <1>0, <1>4, FreshTicket DEF SignVerify, EnclaveTypeOK
    <2>2. uses' = [uses EXCEPT ![n] = 1] /\ UNCHANGED <<now, claims>>
      BY <1>0, <1>4, <2>1 DEF SignVerify, EnclaveTypeOK
    <2> HIDE DEF n
    <2>3. now < claims[n].exp
      BY <1>0, <2>1 DEF EnclaveTypeOK, Claims
    <2> QED BY <2>1, <2>2, <2>3 DEF Ledger!Redeem
  <1>5. ASSUME UNCHANGED <<now, claims, uses>>
        PROVE  UNCHANGED Ledger!ledgerVars
    BY <1>5 DEF Ledger!ledgerVars
  <1>6. ASSUME NEW c \in Call, HandlerFinish(c)
        PROVE  [Ledger!LedgerNext]_Ledger!ledgerVars
    <2>1. CASE SignVerify(c) /\ Refusal(c) = 200
      BY <1>4, <2>1 DEF Ledger!LedgerNext
    <2>2. CASE ~(SignVerify(c) /\ Refusal(c) = 200)
      BY <1>5, <1>6, <2>2 DEF HandlerFinish, SignVerify, ExportSealed, ImportSet
    <2> QED BY <2>1, <2>2
  <1>7. ASSUME NEW c \in Call, NEW i \in Identity,
               \/ Generate(c, i) \/ Destroy(c, i) \/ ExportRead(c, i)
               \/ \E k \in born : ImportStart(c, i, k)
               \/ \E d \in Digest, n \in Nonce : SignLookup(c, i, d, n)
        PROVE  UNCHANGED Ledger!ledgerVars
    BY <1>5, <1>7 DEF Generate, Destroy, ExportRead, ImportStart, SignLookup
  <1>8. CASE UNCHANGED enclaveVars
    BY <1>5, <1>8 DEF enclaveVars
  <1> QED BY <1>1, <1>2, <1>3, <1>6, <1>7, <1>8 DEF EnclaveNext, Ledger!LedgerNext

\* The enclave implements the ledger of redeemed tickets: the bounded, pruned
\* replay cache behaves like one that never forgets.
THEOREM EnclaveRefinesLedger == EnclaveSpec => ImplementsLedger
  <1>1. EnclaveInv /\ [EnclaveNext]_enclaveVars => [Ledger!LedgerNext]_Ledger!ledgerVars
    BY LedgerStepRefined
  <1> QED BY EnclaveInvariant, LedgerInitRefined, <1>1, PTL
          DEF EnclaveSpec, ImplementsLedger, Ledger!LedgerSpec

=============================================================================
