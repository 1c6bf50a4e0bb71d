----------------------------- MODULE LedgerData -----------------------------
(***************************************************************************)
(* The data of the transaction module: the calls made to                   *)
(* TransactionService, the money effect of each of them on the account     *)
(* balances and the rounding of the DECIMAL(15, 2) columns.                *)
(*                                                                         *)
(* One business is modelled.  Every query of the service is filtered by    *)
(* businessId, so an account id of another business is, for the service,   *)
(* an id that is not in Account.                                           *)
(*                                                                         *)
(* Money is an integer number of mills (a tenth of the smallest unit a     *)
(* balance can hold): enough to tell an amount the columns store exactly   *)
(* from one they round.                                                    *)
(***************************************************************************)
EXTENDS Integers, FiniteSets

CONSTANTS
    Call,         \* invocations of the service: one HTTP request or bot message each
    AccountId,    \* every id a request may name, in the order of the id strings
    Account,      \* the ids that are rows of the business
    CurrencyOf,   \* Account.currency, fixed when the account is created
    Currency,
    NoAccount,    \* an absent counterAccountId
    Key,          \* idempotency keys
    NoKey,        \* an absent or blank idempotency key
    NoCall,       \* no transaction
    Workload      \* the assignments of a request to every call that are explored

TransactionType == {"MASUK", "KELUAR", "TRANSFER"}

\* CreateTransactionDto with the idempotency key.  The DTO of the HTTP route
\* lets positive amounts through; the approval of an import hands the service
\* whatever number its own DTO took.  camt = 0 stands for a counterAmount that
\* is not given, rate tells whether exchangeRateUsed is, late whether occurredAt
\* is more than 24 hours ahead, and cat whether the categoryId is absent, names
\* a live category, or is not found.
CreateRequest ==
    [op: {"create"}, type: TransactionType, acc: AccountId,
     ctr: AccountId \cup {NoAccount}, amt: Int, camt: Int, rate: BOOLEAN,
     ccy: Currency, late: BOOLEAN, cat: {"none", "live", "gone"},
     key: Key \cup {NoKey}]

\* PATCH /transactions/:id/void: the id is that of the row the named call wrote.
VoidRequest == [op: {"void"}, id: Call]

Request == CreateRequest \cup VoidRequest

ASSUME DataAssumption ==
    /\ IsFiniteSet(AccountId) /\ AccountId \subseteq Nat
    /\ Account \subseteq AccountId
    /\ NoAccount \notin AccountId
    /\ CurrencyOf \in [Account -> Currency]
    /\ NoKey \notin Key
    /\ NoCall \notin Call
    /\ Workload \subseteq [Call -> Request]

-----------------------------------------------------------------------------
(* Rounding and money effects. *)

Cent == 10

\* Assignment to a DECIMAL(15, 2) column rounds half away from zero.
Round(x) == IF x >= 0 THEN ((x + Cent \div 2) \div Cent) * Cent
                      ELSE -(((Cent \div 2 - x) \div Cent) * Cent)

CrossCurrency(r) == CurrencyOf[r.acc] # CurrencyOf[r.ctr]

\* What the counter account of a TRANSFER receives.
CounterAmount(r) == IF CrossCurrency(r) THEN r.camt ELSE r.amt

\* What createTransaction adds to the balance of account a: it increments by
\* the amounts of the request, before any rounding.
CreateDelta(r, a) ==
    IF a = r.acc THEN IF r.type = "MASUK" THEN r.amt ELSE -r.amt
    ELSE IF r.type = "TRANSFER" /\ a = r.ctr THEN CounterAmount(r) ELSE 0

\* Variant: the void takes from the counter account what left the source.
VoidDeltaOneAmount(r, a) ==
    IF a = r.acc THEN IF r.type = "MASUK" THEN -Round(r.amt) ELSE Round(r.amt)
    ELSE IF r.type = "TRANSFER" /\ a = r.ctr THEN -Round(r.amt) ELSE 0

\* What voidTransaction adds when it voids the row that request r wrote: it
\* increments by the stored, hence rounded, amounts.  A stored counterAmount
\* of a TRANSFER is a Decimal object, so it is never falsy.
VoidDelta(r, a) ==
    IF a = r.acc THEN IF r.type = "MASUK" THEN -Round(r.amt) ELSE Round(r.amt)
    ELSE IF r.type = "TRANSFER" /\ a = r.ctr THEN -Round(CounterAmount(r)) ELSE 0

\* The accounts whose balance the row of request r moves.
Touched(r) == IF r.type = "TRANSFER" THEN {r.acc, r.ctr} ELSE {r.acc}

\* KELUAR and TRANSFER take money out of the account.
Withdraws(r) == r.type \in {"KELUAR", "TRANSFER"}

-----------------------------------------------------------------------------
(* Assumptions a workload may satisfy; the theorems name those they need.  *)

Creates(r) == r.op = "create"

\* Every amount is one the columns store exactly.
WholeCents ==
    \A w \in Workload, c \in Call :
        Creates(w[c]) => w[c].amt % Cent = 0 /\ w[c].camt % Cent = 0

\* The amounts are those of the HTTP route: positive.
PositiveAmounts ==
    \A w \in Workload, c \in Call : Creates(w[c]) => w[c].amt > 0 /\ w[c].camt >= 0

\* No two calls void the same row.
OneVoidPerRow ==
    \A w \in Workload, c, d \in Call :
        c # d /\ ~Creates(w[c]) /\ ~Creates(w[d]) => w[c].id # w[d].id

\* Only a TRANSFER names a counter account, as the API contract demands.
CounterOnlyOnTransfer ==
    \A w \in Workload, c \in Call :
        Creates(w[c]) /\ w[c].type # "TRANSFER" => w[c].ctr = NoAccount
=============================================================================
