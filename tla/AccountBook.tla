---------------------------- MODULE AccountBook -----------------------------
(***************************************************************************)
(* What the transaction module promises, whatever runs concurrently: a     *)
(* book kept by one clerk.  A transaction is posted in one step, at most   *)
(* once per idempotency key and only when the account can pay for it; a    *)
(* posted transaction is reversed in one step, at most once.               *)
(***************************************************************************)
EXTENDS LedgerData

VARIABLES
    req,       \* the request of each call
    balance,   \* Account.balance
    status     \* Transaction.status of the row each call wrote, or ABSENT

bookVars == <<req, balance, status>>

Open ==
    /\ req \in Workload
    /\ balance = [a \in Account |-> 0]
    /\ status = [c \in Call |-> "ABSENT"]

Posted == {c \in Call : status[c] # "ABSENT"}

\* Call c enters its transaction.
Post(c) ==
    /\ Creates(req[c]) /\ status[c] = "ABSENT"
    /\ Touched(req[c]) \subseteq Account
    /\ \A d \in Posted : req[d].key # req[c].key
    /\ Withdraws(req[c]) => balance[req[c].acc] >= req[c].amt
    /\ balance' = [a \in Account |-> balance[a] + CreateDelta(req[c], a)]
    /\ status' = [status EXCEPT ![c] = "CONFIRMED"]
    /\ UNCHANGED req

\* Call c takes back, to the last unit, what the row it names did.
Reverse(c) ==
    /\ ~Creates(req[c])
    /\ status[req[c].id] = "CONFIRMED"
    /\ balance' = [a \in Account |-> balance[a] - CreateDelta(req[req[c].id], a)]
    /\ status' = [status EXCEPT ![req[c].id] = "VOID"]
    /\ UNCHANGED req

Book == Open /\ [][\E c \in Call : Post(c) \/ Reverse(c)]_bookVars
=============================================================================
