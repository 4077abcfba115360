---------------------------- MODULE LoginPromise ----------------------------
(***************************************************************************)
(* What logging in promises, without handlers, awaits, polls or faults: a  *)
(* deep link is opened by one Telegram user, a Telegram user has one       *)
(* account that is nobody else's, and a session that is issued for a link  *)
(* is for the account of the user who opened it.                           *)
(***************************************************************************)
CONSTANTS Challenge, Telegram, UserId, None

VARIABLES
    opener,     \* challenge -> the Telegram user who opened its link, or None
    account,    \* Telegram user -> user id, or None
    granted     \* the sessions issued

loginVars == <<opener, account, granted>>

LoginInit ==
    /\ opener = [ch \in Challenge |-> None]
    /\ account = [t \in Telegram |-> None]
    /\ granted = {}

Open(ch, t) ==
    /\ opener[ch] = None
    /\ opener' = [opener EXCEPT ![ch] = t]
    /\ UNCHANGED <<account, granted>>

\* Only who has opened a link gets an account.
Enroll(ch, u) ==
    /\ opener[ch] # None
    /\ account[opener[ch]] = None
    /\ \A t \in Telegram : account[t] # u
    /\ account' = [account EXCEPT ![opener[ch]] = u]
    /\ UNCHANGED <<opener, granted>>

Grant(ch) ==
    /\ opener[ch] # None
    /\ account[opener[ch]] # None
    /\ granted' = granted \cup
          {[sub |-> account[opener[ch]], tg |-> opener[ch], ch |-> ch]}
    /\ UNCHANGED <<opener, account>>

LoginNext ==
    \E ch \in Challenge :
        \/ \E t \in Telegram : Open(ch, t)
        \/ \E u \in UserId : Enroll(ch, u)
        \/ Grant(ch)

LoginSpec == LoginInit /\ [][LoginNext]_loginVars
=============================================================================
