---------------------------- MODULE LedgerProofs ----------------------------
(***************************************************************************)
(* Theorems about Ledger, for any number of calls, accounts and keys.      *)
(*                                                                         *)
(* The inductive invariant (types, locks, rows) comes first, with one      *)
(* lemma per action; what it excludes, the book it implements, the order   *)
(* of the locks, the sums and what leaves the service follow, each with    *)
(* the few facts it adds to the invariant.                                 *)
(***************************************************************************)
EXTENDS Ledger, FoldLemmas

(* A nonempty set of account ids has a least and a greatest element.       *)
LEMMA MinNat ==
  ASSUME NEW S, S \subseteq Nat, S # {}
  PROVE  \E a \in S : \A b \in S : a <= b
<1>1. IsWellFoundedOn(OpToRel(<, Nat), Nat)
  BY NatLessThanWellFounded
<1>2. PICK x \in S : \A y \in S : ~(<<y, x>> \in OpToRel(<, Nat))
  BY <1>1, WFMin
<1>3. \A y \in S : ~(y < x)
  BY <1>2 DEF OpToRel
<1> QED  BY <1>3

LEMMA MinLeast ==
  ASSUME NEW S, S \subseteq Account, S # {}
  PROVE  Min(S) \in S /\ \A b \in S : Min(S) <= b
<1>1. S \subseteq Nat
  BY DataAssumption
<1>2. \E a \in S : \A b \in S : a <= b
  BY <1>1, MinNat
<1> QED  BY <1>2 DEF Min

LEMMA MaxExists ==
  ASSUME NEW S, S \subseteq Account, S # {}
  PROVE  \E a \in S : \A b \in S : b <= a
<1> DEFINE Above(a) == {b \in S : a < b}
           T == {Above(a) : a \in S}
<1>1. S \subseteq Nat /\ IsFiniteSet(S)
  BY DataAssumption, FS_Subset
<1>2. T \subseteq FiniteSubsetsOf(S) /\ T # {}
  <2>1. ASSUME NEW a \in S  PROVE Above(a) \in FiniteSubsetsOf(S)
    <3>1. Above(a) \in SUBSET S
      OBVIOUS
    <3> QED  BY ONLY <1>1, <3>1, FS_Subset DEF FiniteSubsetsOf
  <2> QED  BY <2>1
<1>3. IsWellFoundedOn(StrictSubsetOrdering(S), FiniteSubsetsOf(S))
  BY <1>1, FS_StrictSubsetOrderingWellFounded
<1>4. PICK U \in T : \A V \in T : ~(<<V, U>> \in StrictSubsetOrdering(S))
  BY <1>2, <1>3, WFMin
<1>5. PICK a \in S : U = Above(a)
  BY <1>4
<1>6. ASSUME NEW b \in S, a < b
      PROVE  FALSE
  <2>1. Above(b) \subseteq Above(a) /\ b \in Above(a) /\ b \notin Above(b)
    <3>1. \A x \in S : b < x => a < x
      BY <1>1, <1>6
    <3>2. ~(b < b)
      BY <1>1
    <3> QED  BY <1>6, <3>1, <3>2
  <2>2. <<Above(b), Above(a)>> \in StrictSubsetOrdering(S)
    BY <2>1 DEF StrictSubsetOrdering
  <2> QED  BY <1>4, <1>5, <2>2
<1> QED  BY <1>1, <1>6

-----------------------------------------------------------------------------
(* Rounding and money effects. *)

(* A rounded amount is an integer; whole cents are stored as they are, and  *)
(* a balance that is not negative is stored as one that is not negative.    *)
LEMMA RoundType == ASSUME NEW x \in Int PROVE Round(x) \in Int
BY DEF Round, Cent

LEMMA RoundExact == ASSUME NEW x \in Int, x % Cent = 0 PROVE Round(x) = x
BY DEF Round, Cent

LEMMA RoundNotNegative == ASSUME NEW x \in Int, x >= 0 PROVE Round(x) >= 0
BY DEF Round, Cent

LEMMA RoundWhole == ASSUME NEW x \in Int PROVE Round(x) % Cent = 0
BY DEF Round, Cent

(* Adding something to a whole number of cents and rounding loses nothing of it. *)
LEMMA RoundAbove ==
  ASSUME NEW x \in Int, x % Cent = 0, NEW d \in Nat
  PROVE  Round(x + d) >= x
BY DEF Round, Cent

(* A create request moves every balance by an integer, and so does its void. *)
LEMMA DeltaType ==
  ASSUME NEW r \in CreateRequest, NEW a \in Account
  PROVE  CreateDelta(r, a) \in Int /\ VoidDelta(r, a) \in Int
<1>1. r.amt \in Int /\ CounterAmount(r) \in Int
  BY DEF CreateRequest, CounterAmount
<1>2. Round(r.amt) \in Int /\ Round(CounterAmount(r)) \in Int
  BY <1>1, RoundType
<1> QED  BY <1>1, <1>2 DEF CreateDelta, VoidDelta

-----------------------------------------------------------------------------
(* The inductive invariant. *)

\* Who holds which account, and what a snapshot still shows of it.
LockInv ==
    /\ \A c, d \in Call : c # d => held[c] \cap (held[d] \cup shared[d]) = {}
    /\ \A c \in Call : pc[c] \notin InTx => held[c] = {} /\ shared[c] = {} /\ todo[c] = {}
    /\ \A c \in Call : pc[c] \in InTx => held[c] \cup todo[c] = LockIds(c)
    /\ \A c \in Call : pc[c] \in {"inserted", "written"} => todo[c] = {}
    /\ \A c \in Call : held[c] \cap stale[c] = {}
    /\ \A c \in Call : pc[c] \in InTx =>
           \A a \in Account \ stale[c] : snap[c][a] = balance[a]

\* Which rows exist, and what a call that has got so far has made sure of.
RowInv ==
    /\ \A c \in Call : status[c] # "ABSENT" =>
           /\ Creates(req[c]) /\ req[c].key \in Key /\ Touched(req[c]) \subseteq Account
           /\ pc[c] \in {"committed", "cached", "ok", "lost"}
    /\ \A c \in Call : pc[c] \in {"begin", "committed"} \cup InTx =>
           IF Creates(req[c]) THEN req[c].key \in Key
                              ELSE status[req[c].id] # "ABSENT"
    /\ \A c \in Call : pc[c] \in {"inserted", "written"} /\ Creates(req[c]) =>
           Accepted(c) /\ ~KeyTaken(c) /\ ~KeyPending(c)
    /\ \A c \in Call : pc[c] = "inserted" => Creates(req[c]) /\ req[c].ctr \in Account
    /\ \A c \in Call : pc[c] \in {"committed", "cached"} /\ Creates(req[c]) =>
           status[c] # "ABSENT"
    /\ \A a \in Account : balance[a] % Cent = 0

IInv == TypeOK /\ LockInv /\ RowInv

-----------------------------------------------------------------------------
(* What the invariant says of a call that is about to commit: it holds every *)
(* account it will move, as the row it writes or voids is a created one.     *)
LEMMA WrittenHolds ==
  ASSUME IInv, NEW c \in Call, pc[c] = "written"
  PROVE  /\ Row(c) \in CreateRequest
         /\ Touched(Row(c)) \subseteq held[c] /\ held[c] \subseteq Account
<1>1. req[c] \in Request /\ held[c] \subseteq Account /\ status \in [Call -> {"ABSENT", "CONFIRMED", "VOID"}]
  BY DataAssumption DEF IInv, TypeOK
<1>2. CASE Creates(req[c])
  <2>1. Accepted(c)
    BY <1>2 DEF IInv, RowInv
  <2> QED  BY <1>1, <1>2, <2>1 DEF Accepted, Touched, Row, Creates, Request, VoidRequest
<1>3. CASE ~Creates(req[c])
  <2>1. req[c].id \in Call /\ status[req[c].id] # "ABSENT"
    BY <1>1, <1>3 DEF IInv, RowInv, InTx, Creates, Request, CreateRequest, VoidRequest
  <2>2. Creates(Row(c)) /\ Row(c) \in Request /\ Touched(Row(c)) \subseteq Account
    BY <1>3, <2>1, DataAssumption DEF IInv, TypeOK, RowInv, Row
  <2>3. held[c] = LockIds(c)
    BY DEF IInv, LockInv, InTx
  <2>4. Touched(Row(c)) \subseteq LockIds(c)
    BY <1>3, <2>2 DEF LockIds, Touched
  <2> QED  BY <1>1, <2>2, <2>3, <2>4 DEF Creates, Request, VoidRequest
<1> QED  BY <1>2, <1>3

(* A call that arrives changes nothing but its own place and its answer.    *)
LEMMA ArriveInv ==
  ASSUME IInv, NEW c \in Call, Arrive(c)
  PROVE  IInv'
<1> USE DEF IInv, InTx, Terminal, PC
<1>1. Creates(req[c]) => req[c].key \in Key \cup {NoKey}
  <2>1. req[c] \in Request
    BY DataAssumption DEF TypeOK
  <2> QED  BY <2>1 DEF Creates, Request, CreateRequest, VoidRequest
<1>2. /\ pc[c] = "idle" /\ \E p \in {"ok", "failed", "begin"} : GoTo(c, p)
      /\ Outside
      /\ answer' \in [Call -> Call \cup {NoCall}]
      /\ pc'[c] = "begin" => IF Creates(req[c]) THEN req[c].key \in Key
                                                ELSE status[req[c].id] # "ABSENT"
  <2>1. CASE CacheHit(c)
    BY <1>1, <2>1 DEF CacheHit, GoTo, TypeOK
  <2>2. CASE CacheError(c) \/ RejectEarly(c) \/ RejectVoid(c)
    BY <2>2 DEF CacheError, RejectEarly, RejectVoid, GoTo, TypeOK
  <2>3. CASE CacheMiss(c)
    BY <1>1, <2>3 DEF CacheMiss, GoTo, TypeOK
  <2>4. CASE FindExisting(c)
    BY <2>4 DEF FindExisting, GoTo, TypeOK
  <2> QED  BY <2>1, <2>2, <2>3, <2>4 DEF Arrive
<1>3. TypeOK'
  BY <1>2 DEF TypeOK, GoTo, Outside
<1>4. LockInv'
  BY <1>2 DEF TypeOK, LockInv, GoTo, Outside, LockIds, Row
<1>5. RowInv'
  BY <1>2 DEF TypeOK, RowInv, GoTo, Outside, Accepted, KeyTaken, KeyPending
<1> QED  BY <1>3, <1>4, <1>5

LEMMA BeginInv ==
  ASSUME IInv, NEW c \in Call, Begin(c)
  PROVE  IInv'
<1> USE DEF IInv, InTx, Terminal, PC, Begin, GoTo
<1>1. LockIds(c) \subseteq Account
  BY DEF LockIds
<1>2. TypeOK'
  BY <1>1 DEF TypeOK
<1>3. LockInv'
  BY <1>1 DEF TypeOK, LockInv, LockIds, Row
<1>4. RowInv'
  BY DEF TypeOK, RowInv, Accepted, KeyTaken, KeyPending
<1> QED  BY <1>2, <1>3, <1>4

LEMMA LockStepInv ==
  ASSUME IInv, NEW c \in Call, Lock(c)
  PROVE  IInv'
<1> USE DEF IInv, InTx, Terminal, PC
<1> DEFINE a == Min(todo[c])
<1>1. a \in todo[c] /\ todo[c] \subseteq Account
  BY MinLeast DEF Lock, TypeOK
<1>2. /\ pc[c] = "locking" /\ Free(c, a) /\ a \notin stale[c]
      /\ held' = [held EXCEPT ![c] = @ \cup {a}]
      /\ todo' = [todo EXCEPT ![c] = @ \ {a}]
      /\ UNCHANGED <<req, pc, answer, snap, stale, shared, balance, status,
                     auditLog, redis, events>>
  BY DEF Lock
<1> HIDE DEF a
<1>3. TypeOK'
  BY <1>1, <1>2 DEF TypeOK
<1>4. LockInv'
  BY <1>1, <1>2 DEF TypeOK, LockInv, LockIds, Row, Free
<1>5. RowInv'
  BY <1>1, <1>2 DEF TypeOK, RowInv, Accepted, KeyTaken, KeyPending
<1> QED  BY <1>3, <1>4, <1>5

(* Ending a transaction without effect, for one call or for all of them.    *)
LEMMA RollbackInv ==
  ASSUME IInv, NEW c \in Call, pc[c] \in InTx, Rollback(c)
  PROVE  IInv'
<1> USE DEF IInv, InTx, Terminal, PC, Rollback, GoTo
<1>1. TypeOK'
  BY DEF TypeOK
<1>2. LockInv'
  BY DEF TypeOK, LockInv, LockIds, Row
<1>3. RowInv'
  BY DEF TypeOK, RowInv, Accepted, KeyTaken, KeyPending
<1> QED  BY <1>1, <1>2, <1>3

LEMMA CrashInv ==
  ASSUME IInv, Crash
  PROVE  IInv'
<1> USE DEF IInv, InTx, Terminal, PC, Crash, Active
<1>1. TypeOK'
  BY DEF TypeOK
<1>2. LockInv'
  BY DEF TypeOK, LockInv, LockIds, Row
<1>3. RowInv'
  BY DEF TypeOK, RowInv, Accepted, KeyTaken, KeyPending
<1> QED  BY <1>1, <1>2, <1>3

LEMMA InsertInv ==
  ASSUME IInv, NEW c \in Call, Insert(c)
  PROVE  IInv'
<1> USE DEF IInv, InTx, Terminal, PC, Insert, GoTo
<1>1. TypeOK'
  BY DEF TypeOK
<1>2. LockInv'
  BY DEF TypeOK, LockInv, LockIds, Row
<1>3. RowInv'
  BY DEF TypeOK, RowInv, Accepted, KeyTaken, KeyPending, ChecksCounter
<1> QED  BY <1>1, <1>2, <1>3

LEMMA LinkCounterInv ==
  ASSUME IInv, NEW c \in Call, LinkCounter(c)
  PROVE  IInv'
<1> USE DEF IInv, InTx, Terminal, PC, LinkCounter, GoTo
<1>1. TypeOK'
  BY DEF TypeOK, RowInv
<1>2. LockInv'
  BY DEF TypeOK, LockInv, LockIds, Row, ShareFree
<1>3. RowInv'
  BY DEF TypeOK, RowInv, Accepted, KeyTaken, KeyPending
<1> QED  BY <1>1, <1>2, <1>3

LEMMA MarkVoidInv ==
  ASSUME IInv, NEW c \in Call, MarkVoid(c)
  PROVE  IInv'
<1> USE DEF IInv, InTx, Terminal, PC, MarkVoid, GoTo
<1>1. TypeOK'
  BY DEF TypeOK
<1>2. LockInv'
  BY DEF TypeOK, LockInv, LockIds, Row
<1>3. RowInv'
  BY DEF TypeOK, RowInv, Accepted, KeyTaken, KeyPending
<1> QED  BY <1>1, <1>2, <1>3

LEMMA CacheSetInv ==
  ASSUME IInv, NEW c \in Call, CacheSet(c)
  PROVE  IInv'
<1> USE DEF IInv, InTx, Terminal, PC, CacheSet, GoTo
<1>1. req[c].key \in Key
  BY DEF RowInv
<1>2. TypeOK'
  BY <1>1 DEF TypeOK
<1>3. LockInv'
  BY DEF TypeOK, LockInv, LockIds, Row
<1>4. RowInv'
  BY DEF TypeOK, RowInv, Accepted, KeyTaken, KeyPending
<1> QED  BY <1>2, <1>3, <1>4

(* The row that call c answers about.                                       *)
LEMMA RowId ==
  ASSUME TypeOK, NEW c \in Call
  PROVE  (IF Creates(req[c]) THEN c ELSE req[c].id) \in Call
BY DataAssumption DEF TypeOK, Creates, Request, CreateRequest, VoidRequest

LEMMA EmitInv ==
  ASSUME IInv, NEW c \in Call, Emit(c)
  PROVE  IInv'
<1> USE DEF IInv, InTx, Terminal, PC, GoTo
<1> DEFINE id == IF Creates(req[c]) THEN c ELSE req[c].id
<1>1. id \in Call
  BY RowId
<1>2. /\ pc[c] \in {"cached", "committed"}
      /\ GoTo(c, "ok")
      /\ answer' = [answer EXCEPT ![c] = id]
      /\ \E e \in {"transaction.created", "transaction.voided"} :
            events' = events \cup {<<e, id>>}
      /\ UNCHANGED <<req, snap, stale, todo, held, shared, balance, status, auditLog, redis>>
  BY DEF Emit
<1> HIDE DEF id
<1>3. TypeOK'
  BY <1>1, <1>2 DEF TypeOK, Event
<1>4. LockInv'
  BY <1>2 DEF TypeOK, LockInv, LockIds, Row
<1>5. RowInv'
  BY <1>2 DEF TypeOK, RowInv, Accepted, KeyTaken, KeyPending
<1> QED  BY <1>3, <1>4, <1>5

LEMMA ExpireInv ==
  ASSUME IInv, NEW k \in Key, Expire(k)
  PROVE  IInv'
<1> USE DEF IInv, Expire
<1>1. TypeOK'
  BY DEF TypeOK
<1>2. LockInv'
  BY DEF LockInv, LockIds, Row
<1>3. RowInv'
  BY DEF RowInv, Accepted, KeyTaken, KeyPending
<1> QED  BY <1>1, <1>2, <1>3

(* A commit moves only balances its call holds, so what every other call    *)
(* has locked stays what it read; the rest becomes stale for it.            *)
LEMMA CommitInv ==
  ASSUME IInv, NEW c \in Call, Commit(c)
  PROVE  IInv'
<1> USE DEF IInv, InTx, Terminal, PC, GoTo
<1> DEFINE id == IF Creates(req[c]) THEN c ELSE req[c].id
           W == Touched(Row(c))
           to == IF Creates(req[c]) THEN "CONFIRMED" ELSE "VOID"
           act == IF Creates(req[c]) THEN "CREATE" ELSE "UPDATE"
<1>1. id \in Call
  BY RowId
<1>2. Row(c) \in CreateRequest /\ W \subseteq held[c] /\ held[c] \subseteq Account
  BY WrittenHolds DEF Commit
<1>3. /\ pc[c] = "written" /\ GoTo(c, "committed")
      /\ balance' = NewBalance(c)
      /\ status' = [status EXCEPT ![id] = to]
      /\ auditLog' = auditLog \cup {[by |-> c, action |-> act, id |-> id]}
      /\ stale' = [d \in Call |-> IF d = c THEN {}
                                  ELSE IF pc[d] \in InTx THEN stale[d] \cup W
                                  ELSE stale[d]]
      /\ held' = [held EXCEPT ![c] = {}]
      /\ shared' = [shared EXCEPT ![c] = {}]
      /\ UNCHANGED <<req, answer, snap, todo, redis, events>>
  BY DEF Commit
<1>4. to \in {"CONFIRMED", "VOID"} /\ act \in {"CREATE", "UPDATE"}
  OBVIOUS
<1>5. /\ balance' \in [Account -> Int]
      /\ \A a \in Account \ W : balance'[a] = balance[a]
      /\ \A a \in Account : balance'[a] % Cent = 0
  <2>1. \A a \in Account : CreateDelta(Row(c), a) \in Int /\ VoidDelta(Row(c), a) \in Int
    BY <1>2, DeltaType
  <2>2. \A a \in Account : /\ Round(balance[a] + CreateDelta(Row(c), a)) \in Int
                           /\ Round(balance[a] + VoidDelta(Row(c), a)) \in Int
    BY <2>1, RoundType DEF TypeOK
  <2>3. \A a \in Account : /\ Round(balance[a] + CreateDelta(Row(c), a)) % Cent = 0
                           /\ Round(balance[a] + VoidDelta(Row(c), a)) % Cent = 0
    BY <2>1, RoundWhole DEF TypeOK
  <2>4. \A a \in Account : balance[a] % Cent = 0
    BY DEF RowInv
  <2> QED  BY <1>3, <2>2, <2>3, <2>4 DEF NewBalance, TypeOK
<1>6. /\ Creates(req[c]) => id = c /\ to = "CONFIRMED"
      /\ ~Creates(req[c]) => status[id] # "ABSENT"
  BY <1>3 DEF RowInv
<1> HIDE DEF to, act, W, id
<1>7. TypeOK'
  BY <1>1, <1>2, <1>3, <1>4, <1>5 DEF TypeOK, AuditEntry
<1>8. LockInv'
  <2>1. \A d, e \in Call : d # e => held'[d] \cap (held'[e] \cup shared'[e]) = {}
    BY <1>3 DEF TypeOK, LockInv
  <2>2. \A d \in Call : pc'[d] \notin InTx => held'[d] = {} /\ shared'[d] = {} /\ todo'[d] = {}
    BY <1>3 DEF TypeOK, LockInv
  <2>3. \A d \in Call : pc'[d] \in InTx => held'[d] \cup todo'[d] = LockIds(d)'
    BY <1>3 DEF TypeOK, LockInv, LockIds, Row
  <2>4. \A d \in Call : pc'[d] \in {"inserted", "written"} => todo'[d] = {}
    BY <1>3 DEF TypeOK, LockInv
  <2>5. \A d \in Call : held'[d] \cap stale'[d] = {}
    BY <1>2, <1>3 DEF TypeOK, LockInv
  <2>6. \A d \in Call : pc'[d] \in InTx =>
           \A a \in Account \ stale'[d] : snap'[d][a] = balance'[a]
    BY <1>3, <1>5 DEF TypeOK, LockInv
  <2> QED  BY <2>1, <2>2, <2>3, <2>4, <2>5, <2>6 DEF LockInv
<1>9. RowInv'
  <2>1. Creates(req[c]) => W \subseteq Account /\ W = Touched(req[c]) /\ req[c].key \in Key
    BY <1>2, <1>3 DEF W, Row, RowInv
  <2>2. \A d \in Call : status'[d] # "ABSENT" =>
           status[d] # "ABSENT" \/ (Creates(req[c]) /\ d = c)
    BY <1>1, <1>3, <1>6 DEF TypeOK
  <2>3. \A d \in Call : status[d] # "ABSENT" => status'[d] # "ABSENT"
    BY <1>1, <1>3, <1>4 DEF TypeOK
  <2>4. Creates(req[c]) => status'[c] # "ABSENT"
    BY <1>1, <1>3, <1>6 DEF TypeOK
  <2>5. /\ pc' = [pc EXCEPT ![c] = "committed"] /\ held' = [held EXCEPT ![c] = {}]
        /\ UNCHANGED <<req, snap>>
    BY <1>3
  <2>6. \A d \in Call : status'[d] # "ABSENT" =>
           /\ Creates(req'[d]) /\ req'[d].key \in Key /\ Touched(req'[d]) \subseteq Account
           /\ pc'[d] \in {"committed", "cached", "ok", "lost"}
    BY <2>1, <2>2, <2>5 DEF TypeOK, RowInv
  <2>7. \A d \in Call : pc'[d] \in {"begin", "committed"} \cup InTx =>
           IF Creates(req'[d]) THEN req'[d].key \in Key ELSE status'[req'[d].id] # "ABSENT"
    <3>1. \A d \in Call : ~Creates(req[d]) => req[d].id \in Call
      BY RowId
    <3> QED  BY <1>3, <2>3, <2>5, <3>1 DEF TypeOK, RowInv
  <2>8. ASSUME NEW d \in Call, pc'[d] \in {"inserted", "written"}, Creates(req'[d])
        PROVE  Accepted(d)' /\ ~KeyTaken(d)' /\ ~KeyPending(d)'
    <3>1. d # c /\ pc[d] \in {"inserted", "written"} /\ Creates(req[d])
      BY <2>5, <2>8 DEF TypeOK
    <3>2. Accepted(d) /\ ~KeyTaken(d) /\ ~KeyPending(d)
      BY <3>1 DEF RowInv
    <3>3. Accepted(d)'
      BY <2>5, <3>1, <3>2 DEF TypeOK, Accepted
    <3>4. ~KeyPending(d)'
      BY <2>5, <3>1, <3>2 DEF TypeOK, KeyPending
    <3>5. Creates(req[c]) => req[c].key # req[d].key
      BY <1>3, <3>1, <3>2 DEF KeyPending
    <3>6. ~KeyTaken(d)'
      BY <2>2, <2>5, <3>2, <3>5 DEF KeyTaken
    <3> QED  BY <3>3, <3>4, <3>6
  <2>9. \A d \in Call : pc'[d] = "inserted" => Creates(req'[d]) /\ req'[d].ctr \in Account
    BY <2>5 DEF TypeOK, RowInv
  <2>10. \A d \in Call : pc'[d] \in {"committed", "cached"} /\ Creates(req'[d]) =>
            status'[d] # "ABSENT"
    BY <2>3, <2>4, <2>5 DEF TypeOK, RowInv
  <2> QED  BY <1>5, <2>6, <2>7, <2>8, <2>9, <2>10 DEF RowInv
<1> QED  BY <1>7, <1>8, <1>9

LEMMA StutterInv ==
  ASSUME IInv, UNCHANGED vars
  PROVE  IInv'
BY DEF IInv, vars, TypeOK, LockInv, RowInv, LockIds, Row, Accepted, KeyTaken, KeyPending

LEMMA InitInv == ASSUME Init PROVE IInv
<1> USE DEF Init, IInv, InTx, Terminal, PC
<1>1. TypeOK
  BY DEF TypeOK
<1>2. LockInv
  BY DEF LockInv
<1>3. RowInv
  BY DEF RowInv, Cent
<1> QED  BY <1>1, <1>2, <1>3

LEMMA NextInv == ASSUME IInv, [Next]_vars PROVE IInv'
<1>1. ASSUME NEW c \in Call, Arrive(c) PROVE IInv'
  BY <1>1, ArriveInv
<1>2. ASSUME NEW c \in Call, Progress(c) PROVE IInv'
  <2>1. CASE Begin(c)
    BY <2>1, BeginInv
  <2>2. CASE Lock(c)
    BY <2>2, LockStepInv
  <2>3. CASE LockConflict(c) \/ Refuse(c) \/ LinkConflict(c)
    BY <2>3, RollbackInv DEF LockConflict, Refuse, LinkConflict, InTx
  <2>4. CASE Insert(c)
    BY <2>4, InsertInv
  <2>5. CASE LinkCounter(c)
    BY <2>5, LinkCounterInv
  <2>6. CASE MarkVoid(c)
    BY <2>6, MarkVoidInv
  <2>7. CASE Commit(c)
    BY <2>7, CommitInv
  <2>8. CASE CacheSet(c)
    BY <2>8, CacheSetInv
  <2>9. CASE Emit(c)
    BY <2>9, EmitInv
  <2> QED  BY <1>2, <2>1, <2>2, <2>3, <2>4, <2>5, <2>6, <2>7, <2>8, <2>9 DEF Progress
<1>3. ASSUME NEW c \in Call, Abort(c) PROVE IInv'
  BY <1>3, RollbackInv DEF Abort
<1>4. ASSUME NEW k \in Key, Expire(k) PROVE IInv'
  BY <1>4, ExpireInv
<1>5. CASE Crash
  BY <1>5, CrashInv
<1>6. CASE UNCHANGED vars
  BY <1>6, StutterInv
<1> QED  BY <1>1, <1>2, <1>3, <1>4, <1>5, <1>6 DEF Next

(* The invariant the other theorems start from.                             *)
THEOREM Invariance == Spec => []IInv
<1>1. Init => IInv
  BY InitInv
<1>2. IInv /\ [Next]_vars => IInv'
  BY NextInv
<1> QED  BY <1>1, <1>2, PTL DEF Spec

(* Every variable keeps its type, whatever the calls and accounts are.      *)
THEOREM TypeCorrect == Spec => []TypeOK
BY Invariance, PTL DEF IInv

-----------------------------------------------------------------------------
(* Consequences of the invariant. *)

\* What a transaction has locked, it has read as it is.
THEOREM HeldCurrent == Spec => []HeldIsCurrent
<1>1. IInv => HeldIsCurrent
  BY DEF IInv, TypeOK, LockInv, HeldIsCurrent
<1> QED  BY <1>1, Invariance, PTL

(* The committed tables change by a commit and by nothing else.             *)
LEMMA OnlyCommitWrites ==
  ASSUME [Next]_vars
  PROVE  UNCHANGED <<req, balance, status, auditLog>> \/ \E c \in Call : Commit(c)
BY DEF Next, vars, Arrive, CacheHit, CacheError, RejectEarly, CacheMiss, FindExisting,
       RejectVoid, Outside, Progress, Begin, Lock, LockConflict, Insert, Refuse,
       LinkCounter, LinkConflict, MarkVoid, CacheSet, Emit, Abort, Rollback, Expire, Crash

(* The rows after a commit: a create adds its own, a void changes one.      *)
LEMMA CommitRows ==
  ASSUME IInv, NEW c \in Call, Commit(c), NEW d \in Call, status'[d] # "ABSENT"
  PROVE  status[d] # "ABSENT" \/ (Creates(req[c]) /\ d = c)
BY RowId DEF IInv, TypeOK, RowInv, Commit, InTx

LEMMA KeyStep ==
  ASSUME IInv, OneRowPerKey, [Next]_vars
  PROVE  OneRowPerKey'
<1>1. CASE UNCHANGED <<req, balance, status, auditLog>>
  BY <1>1 DEF OneRowPerKey
<1>2. ASSUME NEW c \in Call, Commit(c)
      PROVE  OneRowPerKey'
  <2>1. Creates(req[c]) => ~KeyTaken(c)
    BY <1>2 DEF IInv, RowInv, Commit
  <2>2. req' = req
    BY <1>2 DEF Commit
  <2>3. \A d \in Call : status'[d] # "ABSENT" =>
           status[d] # "ABSENT" \/ (Creates(req[c]) /\ d = c)
    BY <1>2, CommitRows
  <2> QED  BY <2>1, <2>2, <2>3 DEF OneRowPerKey, KeyTaken
<1> QED  BY <1>1, <1>2, OnlyCommitWrites

\* However often a request is repeated, its key buys one row.
THEOREM KeyBuysOneRow == Spec => []OneRowPerKey
<1>1. Init => OneRowPerKey
  BY DEF Init, OneRowPerKey
<1>2. IInv /\ OneRowPerKey /\ [Next]_vars => OneRowPerKey'
  BY KeyStep
<1> QED  BY <1>1, <1>2, Invariance, PTL DEF Spec

-----------------------------------------------------------------------------
(* Balances. *)

(* A create that commits finds, and leaves, the account solvent.            *)
LEMMA CreateIsCovered ==
  ASSUME IInv, NEW c \in Call, Commit(c), Creates(req[c])
  PROVE  /\ ~KeyTaken(c) /\ status[c] = "ABSENT" /\ Row(c) = req[c]
         /\ Withdraws(req[c]) => balance[req[c].acc] >= req[c].amt
<1>1. pc[c] = "written"
  BY DEF Commit
<1>2. Accepted(c) /\ ~KeyTaken(c)
  BY <1>1 DEF IInv, RowInv
<1>3. req[c].acc \in held[c]
  BY <1>2 DEF Accepted
<1>4. snap[c][req[c].acc] = balance[req[c].acc]
  BY <1>1, <1>3 DEF IInv, LockInv, TypeOK, InTx
<1>5. status[c] = "ABSENT"
  BY <1>1 DEF IInv, RowInv
<1> QED  BY <1>2, <1>4, <1>5 DEF Accepted, Row

LEMMA OverdrawStep ==
  ASSUME PositiveAmounts, IInv, [Next]_vars,
         NEW a \in Account, balance'[a] < balance[a], balance'[a] < 0
  PROVE  \E c \in Call : ~Creates(req[c]) /\ pc[c] = "written" /\ pc'[c] = "committed"
<1>1. balance[a] \in Int
  BY DEF IInv, TypeOK
<1>2. balance' # balance
  BY <1>1
<1>3. PICK c \in Call : Commit(c)
  BY <1>2, OnlyCommitWrites
<1>4. pc[c] = "written" /\ pc'[c] = "committed" /\ balance' = NewBalance(c)
  BY <1>3 DEF Commit, GoTo, IInv, TypeOK
<1>5. ASSUME Creates(req[c])
      PROVE  FALSE
  <2>1. /\ Row(c) = req[c]
        /\ Withdraws(req[c]) => balance[req[c].acc] >= req[c].amt
    BY <1>3, <1>5, CreateIsCovered
  <2>2. req[c] \in CreateRequest
    BY <1>4, <2>1, WrittenHolds
  <2>3. a \in Touched(req[c]) /\ balance'[a] = Round(balance[a] + CreateDelta(req[c], a))
    BY <1>1, <1>2, <1>4, <1>5, <2>1 DEF NewBalance
  <2>4. CreateDelta(req[c], a) \in Int
    BY <2>2, DeltaType
  <2>5. balance[a] + CreateDelta(req[c], a) < 0
    BY <1>1, <2>3, <2>4, RoundNotNegative, RoundType
  <2>6. CreateDelta(req[c], a) >= 0 \/ (a = req[c].acc /\ Withdraws(req[c])
                                       /\ CreateDelta(req[c], a) = -req[c].amt)
    <3>1. req[c].amt > 0 /\ req[c].camt >= 0
      BY <1>5 DEF PositiveAmounts, IInv, TypeOK
    <3> QED  BY <2>2, <3>1 DEF CreateDelta, CounterAmount, Withdraws, CreateRequest, TransactionType
  <2>7. CreateDelta(req[c], a) >= 0
    BY <1>1, <2>1, <2>2, <2>5, <2>6 DEF CreateRequest
  <2>8. balance[a] % Cent = 0
    BY DEF IInv, RowInv
  <2>9. balance'[a] >= balance[a]
    BY <1>1, <2>3, <2>4, <2>7, <2>8, RoundAbove
  <2> QED  BY <1>1, <2>3, <2>4, <2>9, RoundType
<1> QED  BY <1>4, <1>5

\* No create of a positive amount, whatever runs beside it, takes an account
\* below zero.
THEOREM NeverOverdrawn ==
  ASSUME PositiveAmounts
  PROVE  Spec => CreateNeverOverdraws
<1>1. IInv /\ [Next]_vars =>
        [\A a \in Account : balance'[a] < balance[a] /\ balance'[a] < 0 =>
           \E c \in Call : /\ ~Creates(req[c])
                           /\ pc[c] = "written" /\ pc'[c] = "committed"]_vars
  BY OverdrawStep
<1> QED  BY <1>1, Invariance, PTL DEF Spec, CreateNeverOverdraws

-----------------------------------------------------------------------------
(* The concurrent service implements AccountBook, when amounts are whole   *)
(* cents and no row is named by two voids: a commit is an entry of the     *)
(* clerk, every other step leaves the book alone.                          *)

\* The places a call can be in once it has committed.
Finished == {"committed", "cached", "ok", "lost"}

\* A row is VOID because some call voided it and has committed.
VoidInv ==
    \A d \in Call : status[d] = "VOID" =>
        \E e \in Call : ~Creates(req[e]) /\ req[e].id = d /\ pc[e] \in Finished

(* A call that has committed never leaves the last places.                  *)
LEMMA FinishedStays ==
  ASSUME TypeOK, [Next]_vars, NEW e \in Call, pc[e] \in Finished
  PROVE  pc'[e] \in Finished /\ req' = req
BY DEF TypeOK, Next, vars, Arrive, CacheHit, CacheError, RejectEarly, CacheMiss,
       FindExisting, RejectVoid, Outside, GoTo, Progress, Begin, Lock, LockConflict,
       Insert, Refuse, LinkCounter, LinkConflict, MarkVoid, Commit, CacheSet, Emit,
       Abort, Rollback, InTx, Expire, Crash, Active, Terminal, Finished

LEMMA VoidStep ==
  ASSUME IInv, VoidInv, [Next]_vars
  PROVE  VoidInv'
<1> USE DEF IInv
<1> SUFFICES ASSUME NEW d \in Call, status'[d] = "VOID"
             PROVE  \E e \in Call : ~Creates(req'[e]) /\ req'[e].id = d /\ pc'[e] \in Finished
  BY DEF VoidInv
<1>1. CASE status[d] = "VOID"
  BY <1>1, FinishedStays DEF VoidInv
<1>2. CASE status[d] # "VOID"
  <2>1. PICK c \in Call : Commit(c)
    BY <1>2, OnlyCommitWrites
  <2>2. ~Creates(req[c]) /\ req[c].id = d /\ pc'[c] = "committed" /\ req' = req
    BY <1>2, <2>1 DEF Commit, GoTo, TypeOK
  <2> QED  BY <2>2 DEF Finished
<1> QED  BY <1>1, <1>2

(* For a row of whole cents the void undoes the create exactly.             *)
LEMMA VoidUndoes ==
  ASSUME NEW r \in CreateRequest, r.amt % Cent = 0, r.camt % Cent = 0, NEW a \in Account
  PROVE  VoidDelta(r, a) = -CreateDelta(r, a) /\ CreateDelta(r, a) % Cent = 0
<1>1. r.amt \in Int /\ CounterAmount(r) \in Int /\ CounterAmount(r) % Cent = 0
  BY DEF CreateRequest, CounterAmount
<1>2. Round(r.amt) = r.amt /\ Round(CounterAmount(r)) = CounterAmount(r)
  BY <1>1, RoundExact
<1>3. \A x \in Int : x % Cent = 0 => -x % Cent = 0
  BY DEF Cent
<1>4. 0 % Cent = 0 /\ -r.amt % Cent = 0
  BY <1>1, <1>3 DEF Cent
<1>5. VoidDelta(r, a) = -CreateDelta(r, a)
  BY <1>1, <1>2 DEF VoidDelta, CreateDelta
<1>6. CreateDelta(r, a) \in {r.amt, -r.amt, CounterAmount(r), 0}
  BY DEF CreateDelta
<1> QED  BY <1>1, <1>4, <1>5, <1>6

LEMMA RoundSum ==
  ASSUME NEW x \in Int, NEW y \in Int, x % Cent = 0, y % Cent = 0
  PROVE  Round(x + y) = x + y
<1>1. (x + y) % Cent = 0
  BY DEF Cent
<1> QED  BY <1>1, RoundExact

(* What a commit does to the balances, without the rounding.                *)
LEMMA ExactCommit ==
  ASSUME WholeCents, IInv, NEW c \in Call, Commit(c)
  PROVE  /\ Row(c) \in CreateRequest /\ Touched(Row(c)) \subseteq Account
         /\ balance' = [a \in Account |->
                IF Creates(req[c]) THEN balance[a] + CreateDelta(Row(c), a)
                                   ELSE balance[a] - CreateDelta(Row(c), a)]
<1>1. Row(c) \in CreateRequest /\ Touched(Row(c)) \subseteq Account
  BY WrittenHolds DEF Commit
<1>2. \E d \in Call : Row(c) = req[d] /\ Creates(req[d])
  BY <1>1, RowId DEF Row, IInv, Creates, CreateRequest
<1>3. Row(c).amt % Cent = 0 /\ Row(c).camt % Cent = 0
  BY <1>2 DEF WholeCents, IInv, TypeOK
<1>4. ASSUME NEW a \in Account
      PROVE  NewBalance(c)[a] = IF Creates(req[c]) THEN balance[a] + CreateDelta(Row(c), a)
                                                   ELSE balance[a] - CreateDelta(Row(c), a)
  <2> DEFINE delta == CreateDelta(Row(c), a)
  <2>1. balance[a] \in Int /\ balance[a] % Cent = 0 /\ delta \in Int
    BY <1>1, DeltaType DEF IInv, TypeOK, RowInv
  <2>2. VoidDelta(Row(c), a) = -delta /\ delta % Cent = 0
    BY <1>1, <1>3, VoidUndoes
  <2>3. -delta \in Int /\ -delta % Cent = 0
    BY <2>1, <2>2 DEF Cent
  <2>4. Round(balance[a] + delta) = balance[a] + delta
    BY <2>1, <2>2, RoundSum
  <2>5. Round(balance[a] + (-delta)) = balance[a] - delta
    BY <2>1, <2>3, RoundSum
  <2>6. a \notin Touched(Row(c)) => delta = 0
    BY <1>1 DEF Touched, CreateDelta
  <2> HIDE DEF delta
  <2>7. NewBalance(c)[a] = IF a \in Touched(Row(c))
            THEN IF Creates(req[c]) THEN Round(balance[a] + delta) ELSE Round(balance[a] + (-delta))
            ELSE balance[a]
    BY <2>2 DEF NewBalance, delta
  <2> QED  BY <2>1, <2>4, <2>5, <2>6, <2>7 DEF delta
<1> QED  BY <1>1, <1>4 DEF Commit, NewBalance

(* The definitions the clerk shares with the service.                       *)
LEMMA SameData ==
  /\ \A r : Clerk!Creates(r) = Creates(r) /\ Clerk!Touched(r) = Touched(r)
            /\ Clerk!Withdraws(r) = Withdraws(r)
  /\ \A r, a : Clerk!CreateDelta(r, a) = CreateDelta(r, a)
BY DEF Clerk!Creates, Creates, Clerk!Touched, Touched, Clerk!Withdraws, Withdraws,
       Clerk!CreateDelta, CreateDelta, Clerk!CounterAmount, CounterAmount,
       Clerk!CrossCurrency, CrossCurrency

LEMMA CommitIsEntry ==
  ASSUME WholeCents, OneVoidPerRow, IInv, VoidInv, NEW c \in Call, Commit(c)
  PROVE  Clerk!Post(c) \/ Clerk!Reverse(c)
<1>1. /\ Row(c) \in CreateRequest /\ Touched(Row(c)) \subseteq Account
      /\ balance' = [a \in Account |->
             IF Creates(req[c]) THEN balance[a] + CreateDelta(Row(c), a)
                                ELSE balance[a] - CreateDelta(Row(c), a)]
  BY ExactCommit
<1>2. pc[c] = "written" /\ req' = req
  BY DEF Commit
<1>3. CASE Creates(req[c])
  <2>1. /\ ~KeyTaken(c) /\ status[c] = "ABSENT" /\ Row(c) = req[c]
        /\ Withdraws(req[c]) => balance[req[c].acc] >= req[c].amt
    BY <1>3, CreateIsCovered
  <2>2. status' = [status EXCEPT ![c] = "CONFIRMED"]
    BY <1>3 DEF Commit
  <2>3. \A d \in Clerk!Posted : req[d].key # req[c].key
    BY <2>1 DEF KeyTaken, Clerk!Posted
  <2> QED  BY <1>1, <1>2, <1>3, <2>1, <2>2, <2>3, SameData DEF Clerk!Post
<1>4. CASE ~Creates(req[c])
  <2>1. req[c].id \in Call /\ status[req[c].id] # "ABSENT"
    BY <1>2, <1>4, RowId DEF IInv, RowInv, InTx
  <2>2. status[req[c].id] # "VOID"
    <3>1. \A e \in Call : e # c /\ ~Creates(req[e]) => req[e].id # req[c].id
      BY <1>4 DEF OneVoidPerRow, IInv, TypeOK
    <3> QED  BY <1>2, <2>1, <3>1 DEF VoidInv, Finished
  <2>3. status[req[c].id] = "CONFIRMED"
    BY <2>1, <2>2 DEF IInv, TypeOK
  <2>4. status' = [status EXCEPT ![req[c].id] = "VOID"] /\ Row(c) = req[req[c].id]
    BY <1>4 DEF Commit, Row
  <2> QED  BY <1>1, <1>2, <1>4, <2>3, <2>4, SameData DEF Clerk!Reverse
<1> QED  BY <1>3, <1>4

\* Creates and voids, however they interleave, fail or are repeated, do to the
\* balances and the rows what one clerk would do entering them one by one.
THEOREM Implements ==
  ASSUME WholeCents, OneVoidPerRow
  PROVE  Spec => RefinesBook
<1>1. Init => VoidInv /\ Clerk!Open
  BY DEF Init, VoidInv, Clerk!Open
<1>2. IInv /\ VoidInv /\ [Next]_vars => VoidInv'
  BY VoidStep
<1>3. IInv /\ VoidInv /\ [Next]_vars =>
        [\E c \in Call : Clerk!Post(c) \/ Clerk!Reverse(c)]_(Clerk!bookVars)
  BY OnlyCommitWrites, CommitIsEntry DEF Clerk!bookVars
<1> QED  BY <1>1, <1>2, <1>3, Invariance, PTL DEF Spec, RefinesBook, Clerk!Book

-----------------------------------------------------------------------------
(* No deadlock. *)

\* A call asks for its accounts in increasing order, and nothing else waits.
OrderInv ==
    /\ \A c \in Call : \A x \in held[c], y \in todo[c] : x < y
    /\ \A c \in Call : pc[c] # "inserted" /\ shared[c] = {}

LEMMA OrderInit == ASSUME Init PROVE OrderInv
BY DEF Init, OrderInv

(* With the counter account of a non-transfer absent, the foreign keys of an *)
(* accepted insert name locked rows only.                                   *)
LEMMA NothingToCheck ==
  ASSUME CounterOnlyOnTransfer, IInv, NEW c \in Call, Creates(req[c]), Accepted(c)
  PROVE  ~ChecksCounter(c)
<1>1. req \in Workload
  BY DEF IInv, TypeOK
<1>2. req[c].type # "TRANSFER" => req[c].ctr = NoAccount
  BY <1>1 DEF CounterOnlyOnTransfer
<1> QED  BY <1>2 DEF ChecksCounter, Accepted

(* The least of the accounts still to lock is less than the ones left. *)
LEMMA LockKeepsOrder ==
  ASSUME TypeOK, OrderInv, NEW c \in Call, Lock(c)
  PROVE  OrderInv'
<1> DEFINE a == Min(todo[c])
<1>1. todo[c] # {} /\ todo[c] \subseteq Account
  BY DEF Lock, TypeOK
<1>2. a \in todo[c] /\ (\A b \in todo[c] : a <= b)
  BY <1>1, MinLeast
<1>3. /\ held' = [held EXCEPT ![c] = @ \cup {a}] /\ todo' = [todo EXCEPT ![c] = @ \ {a}]
      /\ UNCHANGED <<pc, shared>>
  BY DEF Lock
<1> HIDE DEF a
<1>4. \A b \in todo[c] \ {a} : a < b
  <2>1. todo[c] \subseteq Nat
    BY <1>1, DataAssumption
  <2> QED  BY <2>1, <1>2
<1>5. held \in [Call -> SUBSET Account] /\ todo \in [Call -> SUBSET Account]
  BY DEF TypeOK
<1> QED  BY <1>2, <1>3, <1>4, <1>5 DEF OrderInv

LEMMA OrderStep ==
  ASSUME CounterOnlyOnTransfer, IInv, OrderInv, [Next]_vars
  PROVE  OrderInv'
<1> USE DEF IInv, TypeOK, InTx
<1>1. ASSUME NEW c \in Call, Arrive(c) PROVE OrderInv'
  BY <1>1 DEF Arrive, CacheHit, CacheError, RejectEarly, CacheMiss, FindExisting,
              RejectVoid, Outside, GoTo, OrderInv
<1>2. ASSUME NEW c \in Call, Begin(c) PROVE OrderInv'
  BY <1>2 DEF Begin, GoTo, OrderInv, LockInv
<1>3. ASSUME NEW c \in Call, Lock(c) PROVE OrderInv'
  BY <1>3, LockKeepsOrder
<1>4. ASSUME NEW c \in Call, Rollback(c) PROVE OrderInv'
  BY <1>4 DEF Rollback, GoTo, OrderInv
<1>5. ASSUME NEW c \in Call, Insert(c) PROVE OrderInv'
  <2>1. ~ChecksCounter(c)
    BY <1>5, NothingToCheck DEF Insert
  <2> QED  BY <1>5, <2>1 DEF Insert, GoTo, OrderInv
<1>6. ASSUME NEW c \in Call, LinkCounter(c) PROVE OrderInv'
  BY <1>6 DEF LinkCounter, OrderInv
<1>7. ASSUME NEW c \in Call, MarkVoid(c) PROVE OrderInv'
  BY <1>7 DEF MarkVoid, GoTo, OrderInv
<1>8. ASSUME NEW c \in Call, Commit(c) PROVE OrderInv'
  BY <1>8 DEF Commit, GoTo, OrderInv
<1>9. ASSUME NEW c \in Call, CacheSet(c) \/ Emit(c) PROVE OrderInv'
  BY <1>9 DEF CacheSet, Emit, GoTo, OrderInv
<1>10. ASSUME NEW k \in Key, Expire(k) PROVE OrderInv'
  BY <1>10 DEF Expire, OrderInv
<1>11. CASE Crash
  BY <1>11 DEF Crash, OrderInv
<1>12. CASE UNCHANGED vars
  BY <1>12 DEF vars, OrderInv
<1>13. ASSUME NEW c \in Call, Progress(c) \/ Abort(c) PROVE OrderInv'
  BY <1>2, <1>3, <1>4, <1>5, <1>6, <1>7, <1>8, <1>9, <1>13
     DEF Progress, LockConflict, Refuse, LinkConflict, Abort
<1> QED  BY <1>1, <1>10, <1>11, <1>12, <1>13 DEF Next

(* Of calls that all wait for one another, the one that waits for the       *)
(* greatest account waits for a call that waits for a greater one.          *)
LEMMA OrderExcludesCycles ==
  ASSUME IInv, OrderInv
  PROVE  NoWaitCycle
<1> SUFFICES ASSUME NEW S \in SUBSET Call, S # {},
                    \A c \in S : \E d \in S : WaitsFor(c, d)
             PROVE  FALSE
  BY DEF NoWaitCycle
<1>1. \A c \in Call : todo[c] \subseteq Account
  BY DEF IInv, TypeOK
<1>2. \A c \in S : pc[c] = "locking"
  BY DEF WaitsFor, OrderInv
<1>3. \A c \in S : todo[c] # {}
  BY <1>2 DEF WaitsFor
<1>4. \A c \in S : \E d \in S : Min(todo[c]) \in held[d]
  BY <1>3, <1>2 DEF WaitsFor, OrderInv
<1>5. \A c \in S : Min(todo[c]) \in todo[c]
  BY <1>1, <1>3, MinLeast
<1> DEFINE R == {Min(todo[c]) : c \in S}
<1>6. R \subseteq Account /\ R # {}
  BY <1>1, <1>5
<1>7. PICK m \in R : \A x \in R : x <= m
  BY <1>6, MaxExists
<1>8. PICK c \in S : m = Min(todo[c])
  BY <1>7
<1>9. PICK d \in S : m \in held[d]
  BY <1>4, <1>8
<1>10. m < Min(todo[d]) /\ Min(todo[d]) <= m
  BY <1>5, <1>7, <1>9 DEF OrderInv
<1>11. m \in Nat /\ Min(todo[d]) \in Nat
  BY <1>1, <1>5, <1>6, DataAssumption
<1> QED  BY <1>10, <1>11

\* Any number of creates and voids run to their commit without a wait cycle.
THEOREM DeadlockFree ==
  ASSUME CounterOnlyOnTransfer
  PROVE  Spec => []NoWaitCycle
<1>1. Init => OrderInv
  BY OrderInit
<1>2. IInv /\ OrderInv /\ [Next]_vars => OrderInv'
  BY OrderStep
<1>3. IInv /\ OrderInv => NoWaitCycle
  BY OrderExcludesCycles
<1> QED  BY <1>1, <1>2, <1>3, Invariance, PTL DEF Spec

-----------------------------------------------------------------------------
(* The audit log and the balances. *)

\* The audit log is finite and has one entry per committed call, each about a
\* row that a create wrote.
AuditInv ==
    /\ IsFiniteSet(auditLog)
    /\ \A e \in auditLog : pc[e.by] \in Finished /\ req[e.id] \in CreateRequest

\* The entry call c adds to the audit log when it commits.
EntryOf(c) ==
    [by |-> c, action |-> IF Creates(req[c]) THEN "CREATE" ELSE "UPDATE",
     id |-> IF Creates(req[c]) THEN c ELSE req[c].id]

(* Replaying an entry moves each balance by an integer. *)
LEMMA EntryType ==
  ASSUME AuditInv, NEW e \in auditLog, NEW a \in Account
  PROVE  EntryDelta(e, a) \in Int
BY DeltaType DEF AuditInv, EntryDelta

(* A commit adds its entry, which tells by how much it moves each balance.  *)
LEMMA CommitLogs ==
  ASSUME WholeCents, IInv, NEW c \in Call, Commit(c)
  PROVE  /\ auditLog' = auditLog \cup {EntryOf(c)}
         /\ req[EntryOf(c).id] \in CreateRequest
         /\ \A a \in Account : /\ EntryDelta(EntryOf(c), a) \in Int
                               /\ balance'[a] = balance[a] + EntryDelta(EntryOf(c), a)
<1> DEFINE r == Row(c)
<1>1. auditLog' = auditLog \cup {EntryOf(c)}
  BY DEF Commit, EntryOf
<1>2. /\ r \in CreateRequest
      /\ balance' = [a \in Account |-> IF Creates(req[c]) THEN balance[a] + CreateDelta(r, a)
                                                          ELSE balance[a] - CreateDelta(r, a)]
  BY ExactCommit
<1>3. req[EntryOf(c).id] = r /\ (EntryOf(c).action = "CREATE" <=> Creates(req[c]))
  BY DEF EntryOf, Row
<1>4. r.amt % Cent = 0 /\ r.camt % Cent = 0
  <2>1. EntryOf(c).id \in Call
    BY RowId DEF EntryOf, IInv
  <2>2. Creates(r)
    BY <1>2 DEF Creates, CreateRequest
  <2> QED  BY <1>3, <2>1, <2>2 DEF WholeCents, IInv, TypeOK
<1> HIDE DEF r
<1>5. ASSUME NEW a \in Account
      PROVE  /\ EntryDelta(EntryOf(c), a) \in Int
             /\ balance'[a] = balance[a] + EntryDelta(EntryOf(c), a)
  <2>1. balance[a] \in Int /\ CreateDelta(r, a) \in Int
    BY <1>2, DeltaType DEF IInv, TypeOK
  <2>2. VoidDelta(r, a) = -CreateDelta(r, a)
    BY <1>2, <1>4, VoidUndoes
  <2>3. EntryDelta(EntryOf(c), a) = IF Creates(req[c]) THEN CreateDelta(r, a) ELSE VoidDelta(r, a)
    BY <1>3 DEF EntryDelta
  <2> QED  BY <1>2, <2>1, <2>2, <2>3
<1> QED  BY <1>1, <1>2, <1>3, <1>5

LEMMA AuditInvStep ==
  ASSUME WholeCents, IInv, AuditInv, [Next]_vars
  PROVE  AuditInv'
<1>1. \A e \in auditLog : e.by \in Call
  BY DEF IInv, TypeOK, AuditEntry
<1>2. CASE UNCHANGED <<req, balance, status, auditLog>>
  BY <1>1, <1>2, FinishedStays DEF IInv, AuditInv
<1>3. ASSUME NEW c \in Call, Commit(c)
      PROVE  AuditInv'
  <2>1. auditLog' = auditLog \cup {EntryOf(c)} /\ req[EntryOf(c).id] \in CreateRequest
    BY <1>3, CommitLogs
  <2>2. pc'[c] = "committed" /\ req' = req
    BY <1>3 DEF Commit, GoTo, IInv, TypeOK
  <2>3. \A e \in auditLog : pc'[e.by] \in Finished
    BY <1>1, FinishedStays DEF IInv, AuditInv
  <2>4. pc'[EntryOf(c).by] \in Finished
    BY <2>2 DEF EntryOf, Finished
  <2>5. IsFiniteSet(auditLog')
    BY <2>1, FS_AddElement DEF AuditInv
  <2> QED  BY <2>1, <2>2, <2>3, <2>4, <2>5 DEF AuditInv
<1> QED  BY <1>2, <1>3, OnlyCommitWrites

LEMMA AuditStep ==
  ASSUME WholeCents, IInv, AuditInv, AuditReplaysToBalance, [Next]_vars
  PROVE  AuditReplaysToBalance'
<1>1. CASE UNCHANGED <<req, balance, status, auditLog>>
  BY <1>1 DEF AuditReplaysToBalance, Replayed, EntryDelta
<1>2. ASSUME NEW c \in Call, Commit(c), NEW a \in Account
      PROVE  balance'[a] = Replayed(a)'
  <2> DEFINE n == EntryOf(c)
             f == [e \in auditLog |-> EntryDelta(e, a)]
             g == [e \in auditLog \cup {n} |-> EntryDelta(e, a)]
  <2>1. /\ auditLog' = auditLog \cup {n}
        /\ EntryDelta(n, a) \in Int /\ balance'[a] = balance[a] + EntryDelta(n, a)
    BY <1>2, CommitLogs
  <2>2. n \notin auditLog
    BY <1>2 DEF AuditInv, EntryOf, Commit, Finished
  <2>3. Replayed(a)' = SumFunctionOnSet(g, auditLog \cup {n})
    <3>1. req' = req
      BY <1>2 DEF Commit
    <3> HIDE DEF n
    <3> QED  BY <2>1, <3>1 DEF Replayed, SumFunction, EntryDelta
  <2>4. balance[a] = SumFunctionOnSet(f, auditLog)
    BY DEF AuditReplaysToBalance, Replayed, SumFunction
  <2>5. SumFunctionOnSet(g, auditLog \cup {n}) = SumFunctionOnSet(g, auditLog) + g[n]
    <3>1. \A e \in auditLog \cup {n} : g[e] \in Int
      BY <2>1, EntryType
    <3>2. IsFiniteSet(auditLog)
      BY DEF AuditInv
    <3> HIDE DEF g, n
    <3> QED  BY <2>2, <3>1, <3>2, SumAdd
  <2>6. SumFunctionOnSet(g, auditLog) = SumFunctionOnSet(f, auditLog)
    <3>1. IsFiniteSet(auditLog)
      BY DEF AuditInv
    <3>2. \A e \in auditLog : g[e] = f[e]
      OBVIOUS
    <3> HIDE DEF f, g
    <3> QED  BY <3>1, <3>2, SumAgree
  <2>7. g[n] = EntryDelta(n, a)
    OBVIOUS
  <2> HIDE DEF f, g, n
  <2> QED  BY <2>1, <2>3, <2>4, <2>5, <2>6, <2>7
<1> QED  BY <1>1, <1>2, OnlyCommitWrites DEF AuditReplaysToBalance

\* However creates and voids interleave, fail or are repeated, the audit log
\* tells all that happened to the balances, once.
THEOREM AuditTellsBalance ==
  ASSUME WholeCents
  PROVE  Spec => []AuditReplaysToBalance
<1>1. Init => AuditInv
  BY FS_EmptySet DEF Init, AuditInv
<1>2. Init => AuditReplaysToBalance
  <2>1. ASSUME Init, NEW a \in Account PROVE Replayed(a) = 0
    BY <2>1, SumEmpty DEF Init, Replayed, SumFunction
  <2> QED  BY <2>1 DEF Init, AuditReplaysToBalance
<1>3. IInv /\ AuditInv /\ [Next]_vars => AuditInv'
  BY AuditInvStep
<1>4. IInv /\ AuditInv /\ AuditReplaysToBalance /\ [Next]_vars => AuditReplaysToBalance'
  BY AuditStep
<1> QED  BY <1>1, <1>2, <1>3, <1>4, Invariance, PTL DEF Spec

-----------------------------------------------------------------------------
(* The confirmed rows and the balances. *)

\* Rows have been written by finitely many calls, all of them creates.
ConfirmedInv ==
    /\ IsFiniteSet(Confirmed)
    /\ \A c \in Confirmed : req[c] \in CreateRequest

LEMMA ConfirmedStep ==
  ASSUME WholeCents, OneVoidPerRow, IInv, VoidInv, ConfirmedInv, BalanceIsConfirmedSum,
         [Next]_vars
  PROVE  ConfirmedInv' /\ BalanceIsConfirmedSum'
<1> USE DEF IInv, TypeOK
<1>1. CASE UNCHANGED <<req, balance, status, auditLog>>
  BY <1>1 DEF ConfirmedInv, BalanceIsConfirmedSum, Confirmed
<1>2. ASSUME NEW c \in Call, Commit(c), Clerk!Post(c)
      PROVE  ConfirmedInv' /\ BalanceIsConfirmedSum'
  <2>1. /\ Creates(req[c]) /\ status[c] = "ABSENT" /\ req' = req
        /\ status' = [status EXCEPT ![c] = "CONFIRMED"]
        /\ \A a \in Account : balance'[a] = balance[a] + CreateDelta(req[c], a)
    BY <1>2, SameData DEF Clerk!Post
  <2>2. c \notin Confirmed /\ Confirmed' = Confirmed \cup {c}
    BY <2>1 DEF Confirmed
  <2>3. req[c] \in CreateRequest
    BY <2>1, DataAssumption DEF Creates, Request, VoidRequest
  <2>4. ConfirmedInv'
    BY <2>1, <2>2, <2>3, FS_AddElement DEF ConfirmedInv
  <2>5. ASSUME NEW a \in Account
        PROVE  balance'[a] = SumFunction([d \in Confirmed' |-> CreateDelta(req'[d], a)])
    <3> DEFINE f == [d \in Confirmed |-> CreateDelta(req[d], a)]
               g == [d \in Confirmed \cup {c} |-> CreateDelta(req[d], a)]
    <3>1. \A d \in Confirmed \cup {c} : g[d] \in Int
      BY <2>3, DeltaType DEF ConfirmedInv
    <3>2. IsFiniteSet(Confirmed)
      BY DEF ConfirmedInv
    <3>3. \A d \in Confirmed : g[d] = f[d]
      OBVIOUS
    <3>4. g[c] = CreateDelta(req[c], a)
      OBVIOUS
    <3>5. balance[a] = SumFunctionOnSet(f, Confirmed)
      BY DEF BalanceIsConfirmedSum, SumFunction
    <3>6. SumFunction([d \in Confirmed' |-> CreateDelta(req'[d], a)])
             = SumFunctionOnSet(g, Confirmed \cup {c})
      BY <2>1, <2>2 DEF SumFunction
    <3> HIDE DEF f, g
    <3>7. SumFunctionOnSet(g, Confirmed \cup {c}) = SumFunctionOnSet(g, Confirmed) + g[c]
      BY <2>2, <3>1, <3>2, SumAdd
    <3>8. SumFunctionOnSet(g, Confirmed) = SumFunctionOnSet(f, Confirmed)
      BY <3>2, <3>3, SumAgree
    <3> QED  BY <2>1, <3>4, <3>5, <3>6, <3>7, <3>8
  <2> QED  BY <2>4, <2>5 DEF BalanceIsConfirmedSum
<1>3. ASSUME NEW c \in Call, Commit(c), Clerk!Reverse(c)
      PROVE  ConfirmedInv' /\ BalanceIsConfirmedSum'
  <2> DEFINE id == req[c].id
  <2>1. /\ id \in Call /\ status[id] = "CONFIRMED" /\ req' = req
        /\ status' = [status EXCEPT ![id] = "VOID"]
        /\ \A a \in Account : balance'[a] = balance[a] - CreateDelta(req[id], a)
    BY <1>3, SameData, RowId DEF Clerk!Reverse
  <2> HIDE DEF id
  <2>2. id \in Confirmed /\ Confirmed' = Confirmed \ {id}
    BY <2>1 DEF Confirmed
  <2>3. ConfirmedInv'
    BY <2>1, <2>2, FS_RemoveElement DEF ConfirmedInv
  <2>4. ASSUME NEW a \in Account
        PROVE  balance'[a] = SumFunction([d \in Confirmed' |-> CreateDelta(req'[d], a)])
    <3> DEFINE f == [d \in Confirmed |-> CreateDelta(req[d], a)]
               g == [d \in Confirmed \ {id} |-> CreateDelta(req[d], a)]
    <3>1. \A d \in Confirmed : f[d] \in Int
      BY DeltaType DEF ConfirmedInv
    <3>2. IsFiniteSet(Confirmed) /\ IsFiniteSet(Confirmed \ {id})
      BY FS_RemoveElement DEF ConfirmedInv
    <3>3. \A d \in Confirmed \ {id} : g[d] = f[d]
      OBVIOUS
    <3>4. f[id] = CreateDelta(req[id], a)
      BY <2>2
    <3>5. balance[a] = SumFunctionOnSet(f, Confirmed)
      BY DEF BalanceIsConfirmedSum, SumFunction
    <3>6. SumFunction([d \in Confirmed' |-> CreateDelta(req'[d], a)])
             = SumFunctionOnSet(g, Confirmed \ {id})
      BY <2>1, <2>2 DEF SumFunction
    <3>7. Confirmed \ {id} \in SUBSET Confirmed
      OBVIOUS
    <3> HIDE DEF f, g
    <3>8. SumFunctionOnSet(f, Confirmed) = SumFunctionOnSet(f, Confirmed \ {id}) + f[id]
      BY <2>2, <3>1, <3>2, SumRemove
    <3>9. SumFunctionOnSet(f, Confirmed \ {id}) = SumFunctionOnSet(g, Confirmed \ {id})
      BY <3>2, <3>3, SumAgree
    <3>10. f[id] \in Int /\ SumFunctionOnSet(f, Confirmed \ {id}) \in Int
      BY <2>2, <3>1, <3>2, <3>7, SumType
    <3> QED  BY <2>1, <3>4, <3>5, <3>6, <3>8, <3>9, <3>10
  <2> QED  BY <2>3, <2>4 DEF BalanceIsConfirmedSum
<1> QED  BY <1>1, <1>2, <1>3, OnlyCommitWrites, CommitIsEntry

\* However creates and voids interleave, fail or are repeated, a balance is
\* what the confirmed rows add up to.
THEOREM BalanceFromRows ==
  ASSUME WholeCents, OneVoidPerRow
  PROVE  Spec => []BalanceIsConfirmedSum
<1>1. Init => VoidInv
  BY DEF Init, VoidInv
<1>2. Init => ConfirmedInv /\ BalanceIsConfirmedSum
  <2>1. Init => Confirmed = {}
    BY DEF Init, Confirmed
  <2>2. ASSUME Init, NEW a \in Account
        PROVE  SumFunction([c \in Confirmed |-> CreateDelta(req[c], a)]) = 0
    BY <2>1, <2>2, SumEmpty DEF SumFunction
  <2> QED  BY <2>1, <2>2, FS_EmptySet DEF Init, ConfirmedInv, BalanceIsConfirmedSum
<1>3. IInv /\ VoidInv /\ [Next]_vars => VoidInv'
  BY VoidStep
<1>4. IInv /\ VoidInv /\ ConfirmedInv /\ BalanceIsConfirmedSum /\ [Next]_vars
        => ConfirmedInv' /\ BalanceIsConfirmedSum'
  BY ConfirmedStep
<1> QED  BY <1>1, <1>2, <1>3, <1>4, Invariance, PTL DEF Spec

-----------------------------------------------------------------------------
(* What leaves the service. *)

\* A call that has voided a row leaves it VOID, and a call that created a row
\* answers with a row of its own key.
AnswerInv ==
    /\ \A c \in Call : pc[c] = "committed" /\ ~Creates(req[c]) => status[req[c].id] = "VOID"
    /\ \A c \in Call : Creates(req[c]) /\ answer[c] # NoCall =>
           Creates(req[answer[c]]) /\ req[answer[c]].key = req[c].key

(* A row that is there stays, and a row that is VOID stays VOID.            *)
LEMMA RowsStay ==
  ASSUME IInv, [Next]_vars, NEW d \in Call
  PROVE  /\ status[d] # "ABSENT" => status'[d] # "ABSENT"
         /\ status[d] = "VOID" => status'[d] = "VOID"
<1>1. ASSUME NEW c \in Call, Commit(c), status[d] # "ABSENT"
      PROVE  status'[d] # "ABSENT" /\ (status[d] = "VOID" => status'[d] = "VOID")
  <2>1. Creates(req[c]) => d # c
    BY <1>1, CreateIsCovered
  <2> QED  BY <1>1, <2>1 DEF Commit, IInv, TypeOK
<1> QED  BY <1>1, OnlyCommitWrites

LEMMA AnswerStep ==
  ASSUME IInv, AnswerInv, NothingBeforeCommit, [Next]_vars
  PROVE  AnswerInv' /\ NothingBeforeCommit'
<1> USE DEF IInv
<1>1. \A d \in Call : /\ status[d] # "ABSENT" => status'[d] # "ABSENT"
                      /\ status[d] = "VOID" => status'[d] = "VOID"
  BY RowsStay
<1>2. req' = req
  BY OnlyCommitWrites DEF Commit
<1>3. /\ \A c \in Call : answer[c] \in Call \cup {NoCall} /\ (~Creates(req[c]) => req[c].id \in Call)
      /\ \A k \in Key : redis[k] \in Call \cup {NoCall}
      /\ \A e \in events : e[2] \in Call
      /\ NoCall \notin Call
  BY RowId, DataAssumption DEF TypeOK, Event
<1> DEFINE Quiet == UNCHANGED <<answer, redis, events>>
           NoneCommits == \A c \in Call : pc'[c] = "committed" => pc[c] = "committed"
<1>4. CASE Quiet /\ NoneCommits
  BY <1>1, <1>2, <1>3, <1>4 DEF AnswerInv, NothingBeforeCommit
<1>5. ASSUME NEW c \in Call, CacheHit(c)
      PROVE  AnswerInv' /\ NothingBeforeCommit'
  <2>1. /\ req[c].key \in Key /\ redis[req[c].key] # NoCall /\ Creates(req[c])
        /\ answer' = [answer EXCEPT ![c] = redis[req[c].key]]
        /\ pc' = [pc EXCEPT ![c] = "ok"]
        /\ UNCHANGED <<req, status, redis, events>>
    <3>1. req[c] \in Request
      BY DataAssumption DEF TypeOK
    <3> QED  BY <1>5, <3>1 DEF CacheHit, Outside, GoTo, Creates, Request, CreateRequest, VoidRequest
  <2> QED  BY <1>3, <2>1 DEF AnswerInv, NothingBeforeCommit, TypeOK
<1>6. ASSUME NEW c \in Call, Commit(c)
      PROVE  AnswerInv' /\ NothingBeforeCommit'
  <2>1. /\ pc' = [pc EXCEPT ![c] = "committed"] /\ UNCHANGED <<answer, redis, events>>
        /\ ~Creates(req[c]) => status' = [status EXCEPT ![req[c].id] = "VOID"]
    BY <1>6 DEF Commit, GoTo
  <2>2. ~Creates(req[c]) => status'[req[c].id] = "VOID"
    BY <1>3, <2>1 DEF TypeOK
  <2>3. \A d \in Call : pc'[d] = "committed" => d = c \/ pc[d] = "committed"
    BY <2>1 DEF TypeOK
  <2>4. AnswerInv'
    BY <1>1, <1>2, <1>3, <2>1, <2>2, <2>3 DEF AnswerInv
  <2>5. NothingBeforeCommit'
    BY <1>1, <1>2, <1>3, <2>1 DEF NothingBeforeCommit
  <2> QED  BY <2>4, <2>5
<1>7. ASSUME NEW c \in Call, CacheSet(c)
      PROVE  AnswerInv' /\ NothingBeforeCommit'
  <2>1. /\ Creates(req[c]) /\ status[c] # "ABSENT" /\ req[c].key \in Key
    BY <1>7 DEF CacheSet, RowInv
  <2>2. /\ redis' = redis \/ redis' = [redis EXCEPT ![req[c].key] = c]
        /\ pc' = [pc EXCEPT ![c] = "cached"] /\ UNCHANGED <<answer, status, events>>
    BY <1>7 DEF CacheSet, GoTo
  <2> QED  BY <1>2, <1>3, <2>1, <2>2 DEF AnswerInv, NothingBeforeCommit, TypeOK
<1>8. ASSUME NEW c \in Call, Emit(c)
      PROVE  AnswerInv' /\ NothingBeforeCommit'
  <2> DEFINE id == IF Creates(req[c]) THEN c ELSE req[c].id
             ev == <<IF Creates(req[c]) THEN "transaction.created" ELSE "transaction.voided", id>>
  <2>1. /\ pc' = [pc EXCEPT ![c] = "ok"] /\ answer' = [answer EXCEPT ![c] = id]
        /\ events' = events \cup {ev} /\ UNCHANGED <<status, redis>>
    BY <1>8 DEF Emit, GoTo
  <2>2. /\ Creates(req[c]) => id = c /\ status[c] # "ABSENT"
        /\ ~Creates(req[c]) => id \in Call /\ status[id] = "VOID"
    BY <1>3, <1>8 DEF Emit, RowInv, AnswerInv
  <2>3. IF ev[1] = "transaction.created" THEN status[ev[2]] # "ABSENT"
                                         ELSE status[ev[2]] = "VOID"
    BY <2>2
  <2>4. status[id] # "ABSENT" /\ id \in Call
    BY <2>2
  <2>5. Creates(req[c]) => Creates(req[id]) /\ req[id].key = req[c].key
    OBVIOUS
  <2> HIDE DEF id, ev
  <2>6. NothingBeforeCommit'
    BY <1>2, <1>3, <2>1, <2>3, <2>4 DEF NothingBeforeCommit, TypeOK
  <2>7. AnswerInv'
    BY <1>2, <1>3, <2>1, <2>5 DEF AnswerInv, TypeOK
  <2> QED  BY <2>6, <2>7
<1>9. ASSUME NEW k \in Key, Expire(k)
      PROVE  AnswerInv' /\ NothingBeforeCommit'
  BY <1>2, <1>9 DEF Expire, AnswerInv, NothingBeforeCommit, TypeOK
<1>10. (\/ \E c \in Call : \/ CacheHit(c) \/ Commit(c) \/ CacheSet(c) \/ Emit(c)
        \/ \E k \in Key : Expire(k))
       \/ (Quiet /\ NoneCommits)
  BY DEF TypeOK, Next, vars, Arrive, CacheError, RejectEarly, CacheMiss, FindExisting,
         RejectVoid, Outside, GoTo, Progress, Begin, Lock, LockConflict, Insert, Refuse,
         LinkCounter, LinkConflict, MarkVoid, Abort, Rollback, Crash
<1> QED  BY <1>4, <1>5, <1>6, <1>7, <1>8, <1>9, <1>10

LEMMA AnswerInvariance == Spec => [](AnswerInv /\ NothingBeforeCommit)
<1>1. Init => AnswerInv /\ NothingBeforeCommit
  BY DEF Init, AnswerInv, NothingBeforeCommit
<1>2. IInv /\ AnswerInv /\ NothingBeforeCommit /\ [Next]_vars
        => AnswerInv' /\ NothingBeforeCommit'
  BY AnswerStep
<1> QED  BY <1>1, <1>2, Invariance, PTL DEF Spec

\* No cached response, event or answer, whatever fails or stops, speaks of a
\* transaction that is not in the database.
THEOREM CommitComesFirst == Spec => []NothingBeforeCommit
BY AnswerInvariance, PTL

\* A request repeated with its key is answered with the transaction it made.
THEOREM SameKeySameAnswer == Spec => []SameAnswerPerKey
<1>1. IInv /\ AnswerInv /\ NothingBeforeCommit /\ OneRowPerKey => SameAnswerPerKey
  <2> SUFFICES ASSUME IInv, AnswerInv, NothingBeforeCommit, OneRowPerKey,
                      NEW c \in Call, NEW d \in Call,
                      Creates(req[c]), Creates(req[d]), req[c].key = req[d].key,
                      answer[c] # NoCall, answer[d] # NoCall
               PROVE  answer[c] = answer[d]
    BY DEF SameAnswerPerKey
  <2>1. answer[c] \in Call /\ answer[d] \in Call
    BY DEF IInv, TypeOK
  <2>2. /\ Creates(req[answer[c]]) /\ req[answer[c]].key = req[c].key
        /\ Creates(req[answer[d]]) /\ req[answer[d]].key = req[d].key
    BY DEF AnswerInv
  <2>3. status[answer[c]] # "ABSENT" /\ status[answer[d]] # "ABSENT"
    BY DEF NothingBeforeCommit
  <2> QED  BY <2>1, <2>2, <2>3 DEF OneRowPerKey
<1> QED  BY <1>1, AnswerInvariance, KeyBuysOneRow, Invariance, PTL
=============================================================================
