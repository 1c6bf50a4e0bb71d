------------------------------- MODULE Ledger -------------------------------
(***************************************************************************)
(* TransactionService: createTransaction and voidTransaction run by any    *)
(* number of concurrent calls over PostgreSQL (SERIALIZABLE, row locks,    *)
(* the unique index on idempotencyKey, foreign keys) and Redis (the cached *)
(* response of each idempotency key).                                      *)
(*                                                                         *)
(* Every await of the service is a point where other calls run, so each    *)
(* action below is the code between two awaits that other calls can        *)
(* notice.  A database transaction reads the snapshot taken by its first   *)
(* statement; a row that a transaction committed since then has changed    *)
(* cannot be locked any more and raises 40001.                             *)
(***************************************************************************)
EXTENDS LedgerData, FiniteSets, FiniteSetsExt

VARIABLES
    req,        \* the request of each call
    pc,         \* how far each call has come
    answer,     \* the transaction a call answered with, or NoCall
    snap,       \* the balances its database transaction reads
    stale,      \* the accounts others have changed since that snapshot
    todo,       \* the accounts it has still to lock
    held,       \* the accounts it holds FOR UPDATE
    shared,     \* the accounts its foreign key check holds FOR KEY SHARE
    balance,    \* Account.balance, committed
    status,     \* Transaction.status of the row each call wrote, or ABSENT
    auditLog,   \* the committed AuditLog rows, each with the call that wrote it
    redis,      \* idempotency:<key> -> the cached transaction, or NoCall
    events      \* the events handed to SyncService

vars == <<req, pc, answer, snap, stale, todo, held, shared,
          balance, status, auditLog, redis, events>>

InTx == {"locking", "inserted", "written"}
Terminal == {"ok", "failed", "lost"}
PC == {"idle", "begin", "committed", "cached"} \cup InTx \cup Terminal

Init ==
    /\ req \in Workload
    /\ pc = [c \in Call |-> "idle"]
    /\ answer = [c \in Call |-> NoCall]
    /\ snap = [c \in Call |-> [a \in Account |-> 0]]
    /\ stale = [c \in Call |-> {}]
    /\ todo = [c \in Call |-> {}]
    /\ held = [c \in Call |-> {}]
    /\ shared = [c \in Call |-> {}]
    /\ balance = [a \in Account |-> 0]
    /\ status = [c \in Call |-> "ABSENT"]
    /\ auditLog = {}
    /\ redis = [k \in Key |-> NoCall]
    /\ events = {}

-----------------------------------------------------------------------------
(* Before the database transaction. *)

GoTo(c, p) == pc' = [pc EXCEPT ![c] = p]

Outside == UNCHANGED <<req, snap, stale, todo, held, shared,
                       balance, status, auditLog, redis, events>>

\* createTransaction finds a cached response and returns it.
CacheHit(c) ==
    /\ pc[c] = "idle" /\ Creates(req[c])
    /\ req[c].key # NoKey /\ redis[req[c].key] # NoCall
    /\ GoTo(c, "ok")
    /\ answer' = [answer EXCEPT ![c] = redis[req[c].key]]
    /\ Outside

\* The cache read is not guarded: with Redis unreachable the call fails.
CacheError(c) ==
    /\ pc[c] = "idle" /\ Creates(req[c]) /\ req[c].key # NoKey
    /\ GoTo(c, "failed")
    /\ UNCHANGED answer /\ Outside

SameAccount(r) == r.type = "TRANSFER" /\ r.acc = r.ctr

\* The guards that need no database: key, date and distinct accounts.
RejectEarly(c) ==
    /\ pc[c] = "idle" /\ Creates(req[c])
    /\ \/ req[c].key = NoKey
       \/ /\ req[c].key # NoKey /\ redis[req[c].key] = NoCall
          /\ req[c].late \/ SameAccount(req[c])
    /\ GoTo(c, "failed")
    /\ UNCHANGED answer /\ Outside

CacheMiss(c) ==
    /\ pc[c] = "idle" /\ Creates(req[c])
    /\ req[c].key # NoKey /\ redis[req[c].key] = NoCall
    /\ ~req[c].late /\ ~SameAccount(req[c])
    /\ GoTo(c, "begin")
    /\ UNCHANGED answer /\ Outside

\* voidTransaction reads the row and its status before it opens the
\* transaction; nothing reads the status again.
FindExisting(c) ==
    /\ pc[c] = "idle" /\ ~Creates(req[c])
    /\ status[req[c].id] = "CONFIRMED"
    /\ GoTo(c, "begin")
    /\ UNCHANGED answer /\ Outside

RejectVoid(c) ==
    /\ pc[c] = "idle" /\ ~Creates(req[c])
    /\ status[req[c].id] # "CONFIRMED"
    /\ GoTo(c, "failed")
    /\ UNCHANGED answer /\ Outside

-----------------------------------------------------------------------------
(* Inside the database transaction. *)

\* The request behind the row that call c writes or voids.
Row(c) == IF Creates(req[c]) THEN req[c] ELSE req[req[c].id]

\* Variant: the query forgets the businessId filter.
LockIdsUnfiltered(c) == IF Creates(req[c]) THEN Touched(Row(c)) ELSE {Row(c).acc, Row(c).ctr}

\* The rows SELECT ... FOR UPDATE returns: a create asks for the counter
\* account of a TRANSFER only, a void for whatever counter account is stored.
LockIds(c) ==
    LET r == Row(c)
        ids == IF Creates(req[c]) THEN Touched(r) ELSE {r.acc, r.ctr}
    IN  ids \cap Account

\* The statement takes its snapshot, then locks row after row.
Begin(c) ==
    /\ pc[c] = "begin"
    /\ GoTo(c, "locking")
    /\ snap' = [snap EXCEPT ![c] = balance]
    /\ stale' = [stale EXCEPT ![c] = {}]
    /\ todo' = [todo EXCEPT ![c] = LockIds(c)]
    /\ UNCHANGED <<req, answer, held, shared, balance, status, auditLog, redis, events>>

\* No other transaction holds account a in any mode.
Free(c, a) == \A d \in Call \ {c} : a \notin held[d] \cup shared[d]

\* Variant: READ COMMITTED, where a changed row is locked all the same.
LockChanged(c) ==
    /\ pc[c] = "locking" /\ todo[c] # {} /\ Free(c, Min(todo[c]))
    /\ held' = [held EXCEPT ![c] = @ \cup {Min(todo[c])}]
    /\ todo' = [todo EXCEPT ![c] = @ \ {Min(todo[c])}]
    /\ UNCHANGED <<req, pc, answer, snap, stale, shared, balance, status,
                   auditLog, redis, events>>

\* Variant: no ORDER BY, the rows come in any order.
LockUnordered(c) ==
    /\ pc[c] = "locking"
    /\ \E a \in todo[c] : /\ Free(c, a) /\ a \notin stale[c]
                          /\ held' = [held EXCEPT ![c] = @ \cup {a}]
                          /\ todo' = [todo EXCEPT ![c] = @ \ {a}]
    /\ UNCHANGED <<req, pc, answer, snap, stale, shared, balance, status,
                   auditLog, redis, events>>

\* One row lock of the statement, in the order ORDER BY id ASC asks for.
Lock(c) ==
    /\ pc[c] = "locking" /\ todo[c] # {}
    /\ LET a == Min(todo[c])
       IN  /\ Free(c, a) /\ a \notin stale[c]
           /\ held' = [held EXCEPT ![c] = @ \cup {a}]
           /\ todo' = [todo EXCEPT ![c] = @ \ {a}]
    /\ UNCHANGED <<req, pc, answer, snap, stale, shared, balance, status,
                   auditLog, redis, events>>

\* ROLLBACK: the transaction ends, its locks go, the caller gets an error.
Rollback(c) ==
    /\ GoTo(c, "failed")
    /\ stale' = [stale EXCEPT ![c] = {}]
    /\ todo' = [todo EXCEPT ![c] = {}]
    /\ held' = [held EXCEPT ![c] = {}]
    /\ shared' = [shared EXCEPT ![c] = {}]
    /\ UNCHANGED <<req, answer, snap, balance, status, auditLog, redis, events>>

\* 40001: the row to be locked has changed since the snapshot.
LockConflict(c) ==
    /\ pc[c] = "locking" /\ todo[c] # {}
    /\ Free(c, Min(todo[c])) /\ Min(todo[c]) \in stale[c]
    /\ Rollback(c)

\* The business rules checked on the locked rows.
Accepted(c) ==
    LET r == req[c] IN
    /\ r.acc \in held[c]
    /\ r.type # "TRANSFER" => r.ccy = CurrencyOf[r.acc]
    /\ r.type = "TRANSFER" => /\ r.ctr \in held[c]
                              /\ CrossCurrency(r) => r.rate /\ r.camt # 0
    /\ Withdraws(r) => snap[c][r.acc] >= r.amt
    /\ r.cat # "gone"

\* Variant: idempotencyKey without the unique index.
NoKeyIndex(c) == FALSE

\* The unique index on Transaction.idempotencyKey.
KeyTaken(c) == \E d \in Call : status[d] # "ABSENT" /\ req[d].key = req[c].key
KeyPending(c) ==
    \E d \in Call \ {c} : /\ pc[d] \in {"inserted", "written"}
                          /\ Creates(req[d]) /\ req[d].key = req[c].key

\* The foreign key counterAccountId is checked on a row that is not locked yet.
ChecksCounter(c) == req[c].ctr # NoAccount /\ req[c].ctr \notin held[c]

\* Variant: the event is emitted from inside the transaction.
InsertAndEmit(c) ==
    /\ pc[c] = "locking" /\ todo[c] = {} /\ Creates(req[c])
    /\ Accepted(c) /\ ~KeyTaken(c) /\ ~KeyPending(c)
    /\ req[c].ctr \in Account \cup {NoAccount}
    /\ GoTo(c, IF ChecksCounter(c) THEN "inserted" ELSE "written")
    /\ events' = events \cup {<<"transaction.created", c>>}
    /\ UNCHANGED <<req, answer, snap, stale, todo, held, shared,
                   balance, status, auditLog, redis>>

\* INSERT INTO "Transaction": waits for a pending insert of the same key.
Insert(c) ==
    /\ pc[c] = "locking" /\ todo[c] = {} /\ Creates(req[c])
    /\ Accepted(c) /\ ~KeyTaken(c) /\ ~KeyPending(c)
    /\ req[c].ctr \in Account \cup {NoAccount}
    /\ GoTo(c, IF ChecksCounter(c) THEN "inserted" ELSE "written")
    /\ UNCHANGED <<req, answer, snap, stale, todo, held, shared,
                   balance, status, auditLog, redis, events>>

\* A business rule, the unique index or a foreign key refuses the insert.
Refuse(c) ==
    /\ pc[c] = "locking" /\ todo[c] = {} /\ Creates(req[c])
    /\ \/ ~Accepted(c)
       \/ KeyTaken(c)
       \/ ~KeyPending(c) /\ req[c].ctr \notin Account \cup {NoAccount}
    /\ Rollback(c)

\* The foreign key check locks the counter account FOR KEY SHARE, which only
\* a FOR UPDATE of another transaction blocks.  A balance update counts as a
\* key update to it, because the updater had locked the row FOR UPDATE.
ShareFree(c, a) == \A d \in Call \ {c} : a \notin held[d]

LinkCounter(c) ==
    /\ pc[c] = "inserted"
    /\ ShareFree(c, req[c].ctr) /\ req[c].ctr \notin stale[c]
    /\ GoTo(c, "written")
    /\ shared' = [shared EXCEPT ![c] = {req[c].ctr}]
    /\ UNCHANGED <<req, answer, snap, stale, todo, held, balance, status,
                   auditLog, redis, events>>

LinkConflict(c) ==
    /\ pc[c] = "inserted"
    /\ ShareFree(c, req[c].ctr) /\ req[c].ctr \in stale[c]
    /\ Rollback(c)

\* voidTransaction updates the row's status and the balances.  It only looks at
\* whether the locked rows contain the account, which they always do: nothing
\* deletes an account.
MarkVoid(c) ==
    /\ pc[c] = "locking" /\ todo[c] = {} /\ ~Creates(req[c])
    /\ Row(c).acc \in held[c]
    /\ GoTo(c, "written")
    /\ UNCHANGED <<req, answer, snap, stale, todo, held, shared,
                   balance, status, auditLog, redis, events>>

\* Variant: the counter account is never updated.
NewBalanceOfSource(c) ==
    LET r == Row(c) IN
    [balance EXCEPT ![r.acc] =
        @ + IF Creates(req[c]) THEN CreateDelta(r, r.acc) ELSE VoidDelta(r, r.acc)]

\* UPDATE "Account" SET balance = balance + delta, on the rows call c touches.
NewBalance(c) ==
    LET r == Row(c)
        delta(a) == IF Creates(req[c]) THEN CreateDelta(r, a) ELSE VoidDelta(r, a)
    IN  [a \in Account |-> IF a \in Touched(r) THEN Round(balance[a] + delta(a))
                                               ELSE balance[a]]

\* COMMIT makes the row, the balances and the audit entry visible at once.
Commit(c) ==
    LET id == IF Creates(req[c]) THEN c ELSE req[c].id IN
    /\ pc[c] = "written"
    /\ GoTo(c, "committed")
    /\ balance' = NewBalance(c)
    /\ status' = [status EXCEPT ![id] = IF Creates(req[c]) THEN "CONFIRMED" ELSE "VOID"]
    /\ auditLog' = auditLog \cup
         {[by |-> c, action |-> IF Creates(req[c]) THEN "CREATE" ELSE "UPDATE", id |-> id]}
    /\ stale' = [d \in Call |-> IF d = c THEN {}
                                ELSE IF pc[d] \in InTx THEN stale[d] \cup Touched(Row(c))
                                ELSE stale[d]]
    /\ held' = [held EXCEPT ![c] = {}]
    /\ shared' = [shared EXCEPT ![c] = {}]
    /\ UNCHANGED <<req, answer, snap, todo, redis, events>>

\* The 10 s limit, a deadlock or serialization failure reported by the
\* database, or a lost connection ends the transaction at any point.
Abort(c) == pc[c] \in InTx /\ Rollback(c)

-----------------------------------------------------------------------------
(* After the database transaction. *)

\* Caching the response fails open.
CacheSet(c) ==
    /\ pc[c] = "committed" /\ Creates(req[c])
    /\ GoTo(c, "cached")
    /\ \/ redis' = [redis EXCEPT ![req[c].key] = c]
       \/ UNCHANGED redis
    /\ UNCHANGED <<req, answer, snap, stale, todo, held, shared,
                   balance, status, auditLog, events>>

\* SyncService.emitEvent, then the response.
Emit(c) ==
    LET id == IF Creates(req[c]) THEN c ELSE req[c].id IN
    /\ pc[c] = IF Creates(req[c]) THEN "cached" ELSE "committed"
    /\ GoTo(c, "ok")
    /\ answer' = [answer EXCEPT ![c] = id]
    /\ events' = events \cup
         {<<IF Creates(req[c]) THEN "transaction.created" ELSE "transaction.voided", id>>}
    /\ UNCHANGED <<req, snap, stale, todo, held, shared,
                   balance, status, auditLog, redis>>

\* The 24 hours of a cached response pass.
Expire(k) ==
    /\ redis[k] # NoCall
    /\ redis' = [redis EXCEPT ![k] = NoCall]
    /\ UNCHANGED <<req, pc, answer, snap, stale, todo, held, shared,
                   balance, status, auditLog, events>>

\* The process stops: every call under way is lost, the database rolls its
\* transaction back, what is committed or cached stays.
Active == {c \in Call : pc[c] \notin {"idle"} \cup Terminal}

Crash ==
    /\ Active # {}
    /\ pc' = [c \in Call |-> IF c \in Active THEN "lost" ELSE pc[c]]
    /\ stale' = [c \in Call |-> {}]
    /\ todo' = [c \in Call |-> {}]
    /\ held' = [c \in Call |-> {}]
    /\ shared' = [c \in Call |-> {}]
    /\ UNCHANGED <<req, answer, snap, balance, status, auditLog, redis, events>>

-----------------------------------------------------------------------------

Arrive(c) == \/ CacheHit(c) \/ CacheError(c) \/ RejectEarly(c) \/ CacheMiss(c)
             \/ FindExisting(c) \/ RejectVoid(c)

Progress(c) == \/ Begin(c) \/ Lock(c) \/ LockConflict(c) \/ Insert(c) \/ Refuse(c)
               \/ LinkCounter(c) \/ LinkConflict(c) \/ MarkVoid(c)
               \/ Commit(c) \/ CacheSet(c) \/ Emit(c)

Next == \/ \E c \in Call : Arrive(c) \/ Progress(c) \/ Abort(c)
        \/ \E k \in Key : Expire(k)
        \/ Crash

Spec == Init /\ [][Next]_vars

\* The event loop runs every continuation and the database answers every
\* statement it can answer; clients owe nothing and no timeout is relied upon.
FairSpec == Spec /\ \A c \in Call : WF_vars(Progress(c))

-----------------------------------------------------------------------------
(* Properties. *)

AuditEntry == [by: Call, action: {"CREATE", "UPDATE"}, id: Call]
Event == {"transaction.created", "transaction.voided"} \X Call

\* Every variable keeps its type.
TypeOK ==
    /\ req \in Workload
    /\ pc \in [Call -> PC]
    /\ answer \in [Call -> Call \cup {NoCall}]
    /\ snap \in [Call -> [Account -> Int]]
    /\ stale \in [Call -> SUBSET Account]
    /\ todo \in [Call -> SUBSET Account]
    /\ held \in [Call -> SUBSET Account]
    /\ shared \in [Call -> SUBSET Account]
    /\ balance \in [Account -> Int]
    /\ status \in [Call -> {"ABSENT", "CONFIRMED", "VOID"}]
    /\ auditLog \subseteq AuditEntry
    /\ redis \in [Key -> Call \cup {NoCall}]
    /\ events \subseteq Event

\* From the moment a call holds an account until its transaction ends, the
\* balance it read (and checks against the amount) is the committed one,
\* although the snapshot may be older than the lock.
HeldIsCurrent == \A c \in Call : \A a \in held[c] : snap[c][a] = balance[a]

\* Replaying the audit log gives every balance: each committed create and each
\* committed void moved the balances exactly once, no increment was lost.
EntryDelta(e, a) == IF e.action = "CREATE" THEN CreateDelta(req[e.id], a)
                                           ELSE VoidDelta(req[e.id], a)
Replayed(a) == SumFunction([e \in auditLog |-> EntryDelta(e, a)])
AuditReplaysToBalance == \A a \in Account : balance[a] = Replayed(a)

\* A balance is the sum of the effects of the confirmed transactions: what a
\* void takes back is what the create had done.
Confirmed == {c \in Call : status[c] = "CONFIRMED"}
BalanceIsConfirmedSum ==
    \A a \in Account :
        balance[a] = SumFunction([c \in Confirmed |-> CreateDelta(req[c], a)])

\* Of all the calls made with one idempotency key, at most one writes a row,
\* whatever Redis forgets and however often the client repeats the call.
OneRowPerKey ==
    \A c, d \in Call :
        /\ c # d /\ Creates(req[c]) /\ Creates(req[d])
        /\ status[c] # "ABSENT" /\ status[d] # "ABSENT"
        => req[c].key # req[d].key

\* Whatever leaves the service, as a cached response, an event or an answer,
\* speaks of a committed transaction, and a cached response of one that was
\* committed under that key.
NothingBeforeCommit ==
    /\ \A k \in Key : redis[k] # NoCall =>
           status[redis[k]] # "ABSENT" /\ Creates(req[redis[k]]) /\ req[redis[k]].key = k
    /\ \A e \in events : IF e[1] = "transaction.created" THEN status[e[2]] # "ABSENT"
                                                         ELSE status[e[2]] = "VOID"
    /\ \A c \in Call : answer[c] # NoCall => status[answer[c]] # "ABSENT"

\* Two calls with one key that both succeed name the same transaction.
SameAnswerPerKey ==
    \A c, d \in Call :
        /\ Creates(req[c]) /\ Creates(req[d]) /\ req[c].key = req[d].key
        /\ answer[c] # NoCall /\ answer[d] # NoCall
        => answer[c] = answer[d]

\* A transaction is voided at most once.
VoidedOnce ==
    \A e, f \in auditLog :
        e.action = "UPDATE" /\ f.action = "UPDATE" /\ e.id = f.id => e = f

\* Transaction c waits for a row lock or an index entry of transaction d.
WaitsFor(c, d) ==
    /\ c # d
    /\ \/ pc[c] = "locking" /\ todo[c] # {} /\ Min(todo[c]) \in held[d] \cup shared[d]
       \/ /\ pc[c] = "locking" /\ todo[c] = {} /\ Creates(req[c])
          /\ pc[d] \in {"inserted", "written"}
          /\ Creates(req[d]) /\ req[d].key = req[c].key
       \/ pc[c] = "inserted" /\ req[c].ctr \in held[d]

\* No set of transactions in which each waits for another of the set: the
\* ordered locking leaves nothing to the database's deadlock detector.
NoWaitCycle ==
    \A S \in SUBSET Call : S # {} => \E c \in S : \A d \in S : ~WaitsFor(c, d)

\* A new transaction never takes an account below zero: only a void may.
CreateNeverOverdraws ==
    [][\A a \in Account : balance'[a] < balance[a] /\ balance'[a] < 0 =>
           \E c \in Call : /\ ~Creates(req[c])
                           /\ pc[c] = "written" /\ pc'[c] = "committed"]_vars

\* Whoever enters a database transaction gets an answer without the help of
\* the deadlock detector or the 10 s limit, unless the process stops.
EveryCallEnds == \A c \in Call : pc[c] = "begin" ~> pc[c] \in Terminal

\* The concurrent service is the clerk's book: what is posted and reversed is
\* what is committed, and locks, snapshots, cache and events map to nothing.
Clerk == INSTANCE AccountBook WITH req <- req, balance <- balance, status <- status
RefinesBook == Clerk!Book
=============================================================================
