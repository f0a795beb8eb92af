-------------------------------- MODULE Ledger --------------------------------
(***************************************************************************)
(* What the billing service promises of an account: it is charged once for   *)
(* an event, it is given its initial balance once, and nothing else than      *)
(* these and the administrator's recharges moves it.                         *)
(***************************************************************************)
EXTENDS Integers

CONSTANTS
    User,    \* accounts
    Event,   \* usage events
    OwnerOf, \* whose account pays for an event
    Cost,    \* what it costs
    Grant    \* the initial balance

VARIABLES
    charged, \* events that were charged
    granted, \* accounts that were given their initial balance
    balance

ledgerVars == <<charged, granted, balance>>

LedgerInit == charged = {} /\ granted = {} /\ balance = [u \in User |-> 0]

Move(u, amount) == balance' = [balance EXCEPT ![u] = @ + amount]

Charge(e) ==
    /\ e \notin charged
    /\ charged' = charged \cup {e}
    /\ Move(OwnerOf[e], -Cost[e])
    /\ UNCHANGED granted

GrantOnce(u) ==
    /\ u \notin granted
    /\ granted' = granted \cup {u}
    /\ Move(u, Grant)
    /\ UNCHANGED charged

RechargeBy(u, amount) == Move(u, amount) /\ UNCHANGED <<charged, granted>>

LedgerNext ==
    \/ \E e \in Event : Charge(e)
    \/ \E u \in User : GrantOnce(u) \/ RechargeBy(u, 1)

LedgerSpec == LedgerInit /\ [][LedgerNext]_ledgerVars

===============================================================================
