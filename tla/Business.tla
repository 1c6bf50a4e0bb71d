------------------------------ MODULE Business ------------------------------
(***************************************************************************)
(* What the bot, the categories and the exports of one business share: its *)
(* accounts and transactions, the calls under way and the clock.  A        *)
(* booking is one step of a clerk here, as Ledger is shown to allow.       *)
(***************************************************************************)
EXTENDS Integers, Sequences, FiniteSets, FiniteSetsExt

CONSTANTS
    Call,             \* one HTTP request, webhook or queued export each
    Workload,         \* the assignments of a request to every call
    User, Currency,
    DefaultCategory,  \* the ids seedDefaults made; a call that creates a category is its id
    NoCategory,       \* an absent categoryId
    Opening,          \* the accounts a behaviour may start with
    MaxClock          \* bound on the clock, in minutes

Category == DefaultCategory \cup Call
AccountType == {"CASH", "BANK", "EWALLET", "RECEIVABLE", "PAYABLE"}
Account == [kind: AccountType, ccy: Currency, balance: Int]
AccountRequest == [op: {"account"}, kind: AccountType, ccy: Currency]
NoRequest == [op: {"none"}]

ASSUME BusinessAssumption ==
    /\ NoCategory \notin Category
    /\ DefaultCategory \cap Call = {}
    /\ Opening \subseteq Seq(Account)
    /\ MaxClock \in Nat

VARIABLES
    req,       \* the request of each call
    pc,        \* where each call is
    accounts,  \* Account, in the order of createdAt; the index is the id
    rows,      \* Transaction, in the order of createdAt
    clock,     \* minutes
    met        \* history: for each call, the calls it overlapped

book == <<accounts, rows>>

Open ==
    /\ req \in Workload
    /\ pc = [c \in Call |-> "idle"]
    /\ accounts \in Opening
    /\ rows = <<>>
    /\ clock = 0
    /\ met = [c \in Call |-> {}]

Terminal == {"ok", "failed", "lost"}
Running == {c \in Call : pc[c] \notin Terminal \cup {"idle"}}

\* Call c comes in and gets as far as place.
Arrive(c, place) ==
    /\ pc[c] = "idle"
    /\ pc' = [pc EXCEPT ![c] = place]
    /\ met' = [d \in Call |-> IF d = c THEN Running
                              ELSE IF d \in Running THEN met[d] \cup {c} ELSE met[d]]

Go(c, place) == pc' = [pc EXCEPT ![c] = place] /\ UNCHANGED met

-----------------------------------------------------------------------------
(* The transaction module, as its callers see it. *)

Confirmed == {i \in DOMAIN rows : rows[i].status = "CONFIRMED"}

\* What a row does to the balance of its account.
Effect(r) == IF r.type = "MASUK" THEN r.amt ELSE -r.amt

\* createTransaction's rules for an account of the business.
Affords(a, type, amt) == type = "KELUAR" => accounts[a].balance >= amt

\* No booking that has read its account and not yet committed holds account a.
Unheld(a) == \A c \in Call : pc[c] = "booking" => req[c].acc # a

Post(r) ==
    /\ rows' = Append(rows, r)
    /\ accounts' = [accounts EXCEPT ![r.acc].balance = @ + Effect(r)]

\* The database transaction of voidTransaction, which does not look at the
\* status again.
Reverse(i) ==
    /\ rows' = [rows EXCEPT ![i].status = "VOID"]
    /\ accounts' = [accounts EXCEPT ![rows[i].acc].balance = @ - Effect(rows[i])]

\* AccountService.create: the owner opens another account.
OpenAccount(c) ==
    /\ req[c].op = "account" /\ Arrive(c, "ok")
    /\ accounts' = Append(accounts, [kind |-> req[c].kind, ccy |-> req[c].ccy, balance |-> 0])
    /\ UNCHANGED <<req, rows, clock>>

Tick == clock < MaxClock /\ clock' = clock + 1 /\ UNCHANGED <<req, pc, book, met>>

-----------------------------------------------------------------------------
Row == [by: User, acc: Nat, type: {"MASUK", "KELUAR"}, amt: Nat,
        cat: Category \cup {NoCategory}, at: 0..MaxClock,
        status: {"CONFIRMED", "VOID"}, call: Call, k: Nat]

BusinessType ==
    /\ req \in Workload
    /\ accounts \in Seq(Account)
    /\ rows \in Seq(Row)
    /\ clock \in 0..MaxClock
    /\ met \in [Call -> SUBSET Call]
=============================================================================
