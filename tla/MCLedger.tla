------------------------------ MODULE MCLedger ------------------------------
(* Instances of Ledger for TLC: three accounts, two of them in one currency, *)
(* and workloads in which the calls meet on accounts, keys and rows.         *)
EXTENDS Ledger, TLC

CONSTANTS c1, c2, c3, c4, c5, k1, k2, k3, k4

MCAccount == 1..3
MCAccountId == 1..4
MCCurrency == {"IDR", "USD"}
MCCurrencyOf == [a \in MCAccount |-> IF a = 3 THEN "USD" ELSE "IDR"]

Base == [op |-> "create", type |-> "MASUK", acc |-> 1, ctr |-> NoAccount, amt |-> 10,
         camt |-> 0, rate |-> FALSE, ccy |-> "IDR", late |-> FALSE, cat |-> "none",
         key |-> NoKey]

In(a, m, k) == [Base EXCEPT !.acc = a, !.amt = m, !.key = k, !.ccy = MCCurrencyOf[a]]
Out(a, m, k) == [In(a, m, k) EXCEPT !.type = "KELUAR", !.cat = "live"]
Move(a, b, m, k) == [In(a, m, k) EXCEPT !.type = "TRANSFER", !.ctr = b]
MoveFx(a, b, m, n, k) == [Move(a, b, m, k) EXCEPT !.camt = n, !.rate = TRUE]
VoidOf(c) == [op |-> "void", id |-> c]

\* Two withdrawals compete for one deposit, one of them is repeated with its
\* key, the deposit is voided.
Compete == c1 :> In(1, 20, k1) @@ c2 :> Out(1, 20, k2) @@ c3 :> Out(1, 20, k2)
           @@ c4 :> Out(1, 10, k3) @@ c5 :> VoidOf(c1)

\* Transfers in both directions between two accounts, a repeated deposit.
Cross == c1 :> In(1, 20, k1) @@ c2 :> Move(1, 2, 20, k2) @@ c3 :> Move(2, 1, 10, k3)
         @@ c4 :> VoidOf(c2) @@ c5 :> In(1, 20, k1)

\* Transfers around three accounts in two currencies, one of them voided.
Around == c1 :> In(1, 20, k1) @@ c2 :> MoveFx(1, 3, 20, 10, k2) @@ c3 :> MoveFx(3, 2, 10, 20, k3)
          @@ c4 :> Move(2, 1, 10, k4) @@ c5 :> VoidOf(c2)

CoreWorkload == {Compete, Cross, Around}

\* Transfers in both directions, and a void of a row that is not there.
Opposed == c1 :> In(1, 20, k1) @@ c2 :> Move(1, 2, 10, k2) @@ c3 :> Move(2, 1, 10, k3)
           @@ c4 :> VoidOf(c2) @@ c5 :> VoidOf(c5)

\* Requests the rules refuse, next to one they accept; two voids
\* of one row; counter accounts on a MASUK, one of them unknown.
Refused == c1 :> In(1, 15, k1)
           @@ c2 :> [In(1, 10, k2) EXCEPT !.key = NoKey]
           @@ c3 :> [In(1, 10, k2) EXCEPT !.late = TRUE]
           @@ c4 :> Move(1, 1, 10, k3) @@ c5 :> [In(2, 10, k4) EXCEPT !.ctr = 4]
Unaccepted == c1 :> In(1, 20, k1)
              @@ c2 :> [In(1, 10, k2) EXCEPT !.acc = 4]
              @@ c3 :> [Out(1, 10, k3) EXCEPT !.cat = "gone"]
              @@ c4 :> [Out(1, 10, k2) EXCEPT !.ccy = "USD"]
              @@ c5 :> [MoveFx(1, 3, 10, 10, k4) EXCEPT !.rate = FALSE]
Stray == c1 :> [In(1, 15, k1) EXCEPT !.ctr = 2]
         @@ c2 :> In(2, 10, k2)
         @@ c3 :> VoidOf(c1) @@ c4 :> VoidOf(c1) @@ c5 :> VoidOf(c5)

\* One key for calls on two accounts, the first row voided meanwhile.
Retried == c1 :> In(1, 20, k1) @@ c2 :> In(1, 20, k1) @@ c3 :> In(2, 10, k1)
           @@ c4 :> In(1, 20, k1) @@ c5 :> VoidOf(c1)

AnyWorkload == {Opposed, Refused, Unaccepted, Stray, Retried}

\* The workload of the run that finds a rule broken.
TwoVoids == {c1 :> In(1, 20, k1) @@ c2 :> VoidOf(c1) @@ c3 :> VoidOf(c1)}
=============================================================================
