------------------------------- MODULE Wallet -------------------------------
(***************************************************************************)
(* The wallet commands that main() runs with the session and the identity  *)
(* of the config (module Session): `cash pay`, which pays the Lightning    *)
(* invoice of an HTTP 402 challenge and repeats the request with a proof   *)
(* (cli/mpp), `cash sign-psbt` (commands/sign-psbt.ts), and `cash send`,   *)
(* whose transaction the remote signer identity signs                      *)
(* (remote-signer-identity).  The API signs for an identity that it has,   *)
(* and for a session that is valid.                                        *)
(***************************************************************************)
EXTENDS Session, Sequences

CONSTANTS
    Offers,         \* sequences of payment challenges that servers answer with
    Psbts           \* transactions: input -> how it is spent, by whom, prevout known

\* A challenge may be for a method this wallet does not have, may have expired,
\* or may lack its invoice.
Challenges == [supported: BOOLEAN, expired: BOOLEAN, invoice: BOOLEAN]
Inputs == [path: {"key", "script"}, owner: Identity \cup {None}, prevout: BOOLEAN]

ASSUME WalletAssumption ==
    /\ Offers \subseteq Seq(Challenges)
    /\ \A psbt \in Psbts : DOMAIN psbt \subseteq Nat /\ \A i \in DOMAIN psbt : psbt[i] \in Inputs

VARIABLES
    pay,            \* CLI process -> the challenges, the one chosen, the payment
    psbt            \* CLI process -> the transaction, the config it signs with, signatures

vars == <<sessionVars, pay, psbt>>

NoPay == [offer |-> <<>>, chosen |-> 0, settled |-> FALSE, proof |-> 0]
NoPsbt == [tx |-> <<>>, config |-> NoConfig, todo |-> {}, sigs |-> {}]

WalletInit ==
    /\ SessionInit
    /\ pay = [c \in Cli |-> NoPay]
    /\ psbt = [c \in Cli |-> NoPsbt]

At(c, cmd, pc) == cli[c].cmd = cmd /\ cli[c].pc = pc

-----------------------------------------------------------------------------
(* MppClient.pay                                                            *)

Acceptable(ch) == ch.supported /\ ~ch.expired

\* The first request: no challenge, none that can be paid, or one that can; an
\* error, or no answer at all.
Request(c) ==
    /\ At(c, "pay", "run")
    /\ \/ Exit(c, "done") /\ UNCHANGED pay
       \/ \E offer \in Offers :
             LET good == {k \in DOMAIN offer : Acceptable(offer[k])} IN
             \E first \in good :
                /\ \A k \in good : first <= k
                /\ offer[first].invoice
                /\ pay' = [pay EXCEPT ![c] = [NoPay EXCEPT !.offer = offer, !.chosen = first]]
                /\ Goto(c, "payInvoice")
       \/ Exit(c, "failed") /\ UNCHANGED pay
    /\ UNCHANGED <<file, session, identity, daemon, pidFile, psbt>>

\* Mutant of PayInvoice: a payment that failed is taken for one that was made.
PayInvoiceAny(c) ==
    /\ At(c, "pay", "payInvoice")
    /\ \E settled \in BOOLEAN : pay' = [pay EXCEPT ![c].settled = settled]
    /\ Goto(c, "retry")
    /\ UNCHANGED <<file, session, identity, daemon, pidFile, psbt>>

\* lightning.payInvoice returns the preimage, or throws; the money may be gone
\* even so.
PayInvoice(c) ==
    /\ At(c, "pay", "payInvoice")
    /\ \/ pay' = [pay EXCEPT ![c].settled = TRUE] /\ Goto(c, "retry")
       \/ \E settled \in BOOLEAN :
             pay' = [pay EXCEPT ![c].settled = settled] /\ Exit(c, "failed")
    /\ UNCHANGED <<file, session, identity, daemon, pidFile, psbt>>

\* The request again with the credential: whatever the status, the proof is
\* reported; when there is no answer it is lost.
Retry(c) ==
    /\ At(c, "pay", "retry")
    /\ \/ pay' = [pay EXCEPT ![c].proof = pay[c].chosen] /\ Exit(c, "done")
       \/ Exit(c, "failed") /\ UNCHANGED pay
    /\ UNCHANGED <<file, session, identity, daemon, pidFile, psbt>>

-----------------------------------------------------------------------------
(* handleSignPsbt                                                           *)

PrevoutsKnown(tx) == \A i \in DOMAIN tx : tx[i].prevout

\* The inputs with a leaf script that has the key; without all prevouts no
\* sighash can be computed.  Key path inputs are not signed.
ScriptInputs(tx, key) ==
    IF PrevoutsKnown(tx) THEN {i \in DOMAIN tx : tx[i].path = "script" /\ tx[i].owner = key}
    ELSE {}

\* Mutant of LoadPsbt: the inputs are found with the key that main() has loaded.
LoadPsbtMixed(c) ==
    /\ At(c, "sign-psbt", "run")
    /\ \E tx \in Psbts :
          LET todo == ScriptInputs(tx, cli[c].config.key) IN
          IF Complete(file) /\ todo # {}
          THEN /\ psbt' = [psbt EXCEPT ![c] = [tx |-> tx, config |-> file, todo |-> todo,
                                               sigs |-> {}]]
               /\ Goto(c, "sign")
          ELSE Exit(c, "failed") /\ UNCHANGED psbt
    /\ UNCHANGED <<file, session, identity, daemon, pidFile, pay>>

\* The inputs are found, and signed for, with the config that the command loads
\* again, which need not be the one main() has loaded.
LoadPsbt(c) ==
    /\ At(c, "sign-psbt", "run")
    /\ \E tx \in Psbts :
          LET todo == ScriptInputs(tx, file.key) IN
          IF Complete(file) /\ todo # {}
          THEN /\ psbt' = [psbt EXCEPT ![c] = [tx |-> tx, config |-> file, todo |-> todo,
                                               sigs |-> {}]]
               /\ Goto(c, "sign")
          ELSE Exit(c, "failed") /\ UNCHANGED psbt
    /\ UNCHANGED <<file, session, identity, daemon, pidFile, pay>>

\* What the API signs for.
MaySign(config) ==
    Active(config.token) /\ config.id # None /\ identity[config.id] = "ok"

\* signDigest for one input after the other.
SignInput(c) ==
    /\ At(c, "sign-psbt", "sign")
    /\ MaySign(psbt[c].config)
    /\ \E i \in psbt[c].todo :
          /\ psbt' = [psbt EXCEPT ![c].todo = @ \ {i}, ![c].sigs = @ \cup {<<i, psbt[c].config.id>>}]
          /\ IF psbt[c].todo = {i} THEN Exit(c, "done") ELSE UNCHANGED cli
    /\ UNCHANGED <<file, session, identity, daemon, pidFile, pay>>

-----------------------------------------------------------------------------
(* RemoteSignerIdentity.sign, for the transaction of `cash send`.           *)

\* extractDigests: key path and leaf scripts.  An unknown prevout is replaced by
\* an empty one.
Digests(tx, key) == {i \in DOMAIN tx : tx[i].owner = key}

ExtractDigests(c) ==
    /\ At(c, "send", "run")
    /\ \E tx \in Psbts :
          psbt' = [psbt EXCEPT ![c] = [tx |-> tx, config |-> cli[c].config,
                                       todo |-> Digests(tx, cli[c].config.key), sigs |-> {}]]
    /\ Goto(c, "signBatch")
    /\ UNCHANGED <<file, session, identity, daemon, pidFile, pay>>

\* signDigestBatch and injectSignatures: all digests in one request.
SignBatch(c) ==
    /\ At(c, "send", "signBatch")
    /\ psbt[c].todo = {} \/ MaySign(psbt[c].config)
    /\ psbt' = [psbt EXCEPT ![c].todo = {},
                            ![c].sigs = {<<i, psbt[c].config.id>> : i \in psbt[c].todo}]
    /\ Exit(c, "done")
    /\ UNCHANGED <<file, session, identity, daemon, pidFile, pay>>

\* The API refuses, or cannot be reached: the command ends without a result.
SignFails(c) ==
    /\ cli[c].pc \in {"sign", "signBatch"}
    /\ Exit(c, "failed")
    /\ UNCHANGED <<file, session, identity, daemon, pidFile, pay, psbt>>

WalletStep(c) ==
    \/ Request(c) \/ PayInvoice(c) \/ Retry(c)
    \/ LoadPsbt(c) \/ SignInput(c) \/ ExtractDigests(c) \/ SignBatch(c) \/ SignFails(c)

WalletNext ==
    \/ SessionNext /\ UNCHANGED <<pay, psbt>>
    \/ \E c \in Cli : WalletStep(c)

WalletSpec == WalletInit /\ [][WalletNext]_vars

-----------------------------------------------------------------------------
\* The variables hold values of their types, and a process that waits for a
\* daemon, restores an identity or signs knows which one.
WalletTypeOK ==
    /\ SessionTypeOK
    /\ pay \in [Cli -> [offer: Offers \cup {<<>>}, chosen: Nat, settled: BOOLEAN, proof: Nat]]
    /\ psbt \in [Cli -> [tx: Psbts \cup {<<>>}, config: Config, todo: SUBSET Nat,
                         sigs: SUBSET (Nat \X Identity)]]
    /\ \A c \in Cli : cli[c].pc = "sign" => psbt[c].config.id # None

\* A payment that is reported with a proof has been made, and whatever has been
\* paid was the first challenge of the answer that was supported and not expired.
PaidIsTrue ==
    \A c \in Cli :
        /\ pay[c].proof # 0 => pay[c].settled /\ pay[c].proof = pay[c].chosen
        /\ pay[c].settled =>
              LET k == pay[c].chosen  offer == pay[c].offer IN
              /\ offer[k].supported /\ ~offer[k].expired
              /\ \A j \in 1..(k - 1) : ~offer[j].supported \/ offer[j].expired

\* A transaction comes out with signatures for all inputs that the command is to
\* sign or not at all, each by the identity that owns the input, even when init
\* has changed the config since the command was started.
SignaturesFit ==
    \A c \in Cli :
        /\ cli[c].pc = "done" /\ cli[c].cmd = "sign-psbt" =>
              {s[1] : s \in psbt[c].sigs} = ScriptInputs(psbt[c].tx, psbt[c].config.key)
        /\ cli[c].pc = "done" /\ cli[c].cmd = "send" =>
              {s[1] : s \in psbt[c].sigs} = Digests(psbt[c].tx, psbt[c].config.key)
        /\ \A s \in psbt[c].sigs : psbt[c].tx[s[1]].owner = s[2]

-----------------------------------------------------------------------------
(* What makes these invariants inductive, with SessionInv.                  *)

\* The challenge that is about to be paid is the one to pay, and the request is
\* repeated only after the payment.
PayFollowsOffer ==
    \A c \in Cli :
        /\ pay[c].settled \/ cli[c].pc = "payInvoice" =>
              LET k == pay[c].chosen  offer == pay[c].offer IN
              /\ k \in DOMAIN offer /\ Acceptable(offer[k])
              /\ \A j \in DOMAIN offer : Acceptable(offer[j]) => k <= j
        /\ cli[c].pc = "payInvoice" => pay[c].proof = 0
        /\ cli[c].pc = "retry" => pay[c].settled

\* What is signed and what is left to sign is what the command set out to sign.
SignaturesFollowTx ==
    \A c \in Cli :
        /\ psbt[c].config.id = psbt[c].config.key
        /\ psbt[c].todo \subseteq DOMAIN psbt[c].tx
        /\ \A i \in psbt[c].todo : psbt[c].tx[i].owner = psbt[c].config.key
        /\ cli[c].cmd = "sign-psbt" /\ cli[c].pc = "sign" =>
              {s[1] : s \in psbt[c].sigs} \cup psbt[c].todo
                  = ScriptInputs(psbt[c].tx, psbt[c].config.key)
        /\ cli[c].cmd = "send" /\ cli[c].pc = "signBatch" =>
              psbt[c].todo = Digests(psbt[c].tx, psbt[c].config.key)

WalletInv ==
    /\ SessionInv /\ WalletTypeOK
    /\ PayFollowsOffer /\ PaidIsTrue /\ SignaturesFollowTx /\ SignaturesFit

\* "Session refreshed.": a wallet command, whose session was active when it
\* started or has been refreshed, runs with a session token.
RunsWithSession ==
    \A c \in Cli : cli[c].pc = "run" => cli[c].config.token # None
=============================================================================
