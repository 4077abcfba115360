--------------------------- MODULE IdentityCustody ---------------------------
(***************************************************************************)
(* What the API promises the owner of an identity, without handlers,       *)
(* awaits, crashes, tickets or an enclave: the identity's key is in a      *)
(* vault from before its account opens until after its account has         *)
(* closed, no other identity ever has that key, and whatever is signed for *)
(* the identity is signed with it.                                         *)
(***************************************************************************)
CONSTANTS Identity, Key, User, None

VARIABLES
    vault,       \* identity -> its key, or None
    account,     \* identity -> its account, or NoAccount
    signatures   \* <<identity, key>> of every signature

custodyVars == <<vault, account, signatures>>

NoAccount == [status |-> "none", owner |-> None, pk |-> None]

\* No other identity has the key k.
OwnKey(i, k) == \A j \in Identity \ {i} : vault[j] # k /\ account[j].pk # k

\* Keys may have been brought along from an earlier service.
CustodyInit ==
    /\ vault \in [Identity -> Key \cup {None}]
    /\ account = [i \in Identity |-> NoAccount]
    /\ \A i \in Identity : vault[i] # None => OwnKey(i, vault[i])
    /\ signatures = {}

Deposit(i, k) ==
    /\ account[i] = NoAccount
    /\ vault[i] \in {None, k}
    /\ OwnKey(i, k)
    /\ vault' = [vault EXCEPT ![i] = k]
    /\ UNCHANGED <<account, signatures>>

Open(i, u) ==
    /\ account[i] = NoAccount
    /\ vault[i] # None
    /\ account' = [account EXCEPT ![i] =
                      [status |-> "active", owner |-> u, pk |-> vault[i]]]
    /\ UNCHANGED <<vault, signatures>>

\* A request that was admitted while the account was active may still sign
\* after it has closed.
Sign(i) ==
    /\ account[i] # NoAccount
    /\ signatures' = signatures \cup {<<i, account[i].pk>>}
    /\ UNCHANGED <<vault, account>>

Close(i) ==
    /\ account[i].status = "active"
    /\ account' = [account EXCEPT ![i].status = "destroyed"]
    /\ UNCHANGED <<vault, signatures>>

Erase(i) ==
    /\ account[i].status = "destroyed"
    /\ vault' = [vault EXCEPT ![i] = None]
    /\ UNCHANGED <<account, signatures>>

CustodyNext ==
    \E i \in Identity :
        \/ \E k \in Key : Deposit(i, k)
        \/ \E u \in User : Open(i, u)
        \/ Sign(i)
        \/ Close(i)
        \/ Erase(i)

CustodySpec == CustodyInit /\ [][CustodyNext]_custodyVars
=============================================================================
