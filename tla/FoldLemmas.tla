---------------------------- MODULE FoldLemmas -----------------------------
(***************************************************************************)
(* What the proofs need to know of definitions that go over data of any    *)
(* size.  Sums over a finite set, which the balances, the audit log, the   *)
(* rate limit and the reports are stated with: SumFunctionOnSet of the     *)
(* community modules takes one element after the other, in no particular   *)
(* order.  And recursive functions that go along a sequence.               *)
(*                                                                         *)
(* Induction is done by the least counterexample: among the sets a claim   *)
(* fails for there is one none of whose proper subsets it fails for.       *)
(***************************************************************************)
EXTENDS Functions, Sequences, FiniteSetTheorems, WellFoundedInduction, TLAPS

-----------------------------------------------------------------------------
(* Along a sequence. *)

(* A claim that holds at 0 and passes on from each k to the next. *)
LEMMA UpTo ==
  ASSUME NEW n \in Nat, NEW G, 0 \in G, \A k \in 1..n : k - 1 \in G => k \in G
  PROVE  \A k \in 0..n : k \in G
<1> DEFINE B == (0..n) \ G
<1>1. SUFFICES ASSUME B # {} PROVE FALSE
  OBVIOUS
<1>2. B \subseteq Nat
  OBVIOUS
<1> HIDE DEF B
<1>3. IsWellFoundedOn(OpToRel(<, Nat), Nat)
  BY NatLessThanWellFounded
<1>4. PICK x \in B : \A y \in B : ~(<<y, x>> \in OpToRel(<, Nat))
  BY <1>1, <1>2, <1>3, WFMin
<1>5. \A y \in B : ~(y < x)
  BY <1>2, <1>4 DEF OpToRel
<1> QED  BY <1>5, x \in B DEF B

\* What St makes at a place k of a value in V is in V again.
Closed(St, n, V) == \A k \in 1..n : \A v \in V : St[k][v] \in V

\* g is the table of what St has made of b up to each place.
Table(St, n, b, g) == g[0] = b /\ \A k \in 1..n : g[k] = St[k][g[k - 1]]

(* A definition that goes from each place to the next has a table. *)
LEMMA TableUpTo ==
  ASSUME NEW n \in Nat, NEW V, NEW b \in V,
         NEW St, Closed(St, n, V)
  PROVE  \E g \in [0..n -> V] : Table(St, n, b, g)
<1> USE DEF Closed, Table
<1> DEFINE P(m, g) == g \in [0..m -> V] /\ g[0] = b /\ \A k \in 1..m : g[k] = St[k][g[k - 1]]
           G == {m \in 0..n : \E g : P(m, g)}
<1>1. 0 \in G
  <2>1. P(0, [k \in 0..0 |-> b])
    OBVIOUS
  <2>2. 0 \in 0..n
    OBVIOUS
  <2> HIDE DEF P
  <2> QED  BY <2>1, <2>2
<1>2. ASSUME NEW m \in 1..n, m - 1 \in G PROVE m \in G
  <2>1. PICK g : P(m - 1, g)
    BY <1>2
  <2> DEFINE h == [k \in 0..m |-> IF k = m THEN St[m][g[m - 1]] ELSE g[k]]
  <2>2. g[m - 1] \in V
    BY <2>1
  <2>3. h \in [0..m -> V]
    BY <2>1, <2>2
  <2>4. h[0] = b
    BY <2>1
  <2>5. ASSUME NEW k \in 1..m PROVE h[k] = St[k][h[k - 1]]
    <3>1. CASE k = m
      BY <3>1
    <3>2. CASE k # m
      <4>1. k \in 1..m-1 /\ k - 1 \in 0..m /\ k - 1 # m /\ k \in 0..m
        BY <3>2
      <4>2. h[k] = g[k] /\ h[k - 1] = g[k - 1]
        BY <3>2, <4>1
      <4> QED  BY <2>1, <4>1, <4>2
    <3> QED  BY <3>1, <3>2
  <2> HIDE DEF h
  <2>6. P(m, h)
    BY <2>3, <2>4, <2>5
  <2>7. m \in 0..n
    OBVIOUS
  <2> HIDE DEF P
  <2> QED  BY <2>6, <2>7
<1> HIDE DEF G
<1>3. n \in G
  <2>1. \A m \in 1..n : m - 1 \in G => m \in G
    BY <1>2
  <2>2. \A m \in 0..n : m \in G
    BY ONLY <1>1, <2>1, n \in Nat, UpTo
  <2> QED  BY <2>2
<1> QED  BY <1>3 DEF G

(* Among finitely many numbers there is a greatest. *)
LEMMA Greatest ==
  ASSUME NEW n \in Nat, NEW S, S \subseteq 1..n, S # {}
  PROVE  \E m \in S : \A x \in S : x <= m
<1> DEFINE G == {k \in 0..n : (\E x \in S : x <= k) => \E m \in S : m <= k /\ \A x \in S : x <= k => x <= m}
<1>1. 0 \in G
  OBVIOUS
<1>2. ASSUME NEW k \in 1..n, k - 1 \in G PROVE k \in G
  <2>1. CASE k \in S
    BY <2>1
  <2>2. CASE k \notin S
    <3>1. \A x \in S : x <= k <=> x <= k - 1
      BY <2>2
    <3>2. (\E x \in S : x <= k - 1) => \E m \in S : m <= k - 1 /\ \A x \in S : x <= k - 1 => x <= m
      BY <1>2
    <3> QED  BY <3>1, <3>2
  <2> QED  BY <2>1, <2>2
<1>3. n \in G
  <2> HIDE DEF G
  <2> QED  BY <1>1, <1>2, UpTo
<1>4. \A x \in S : x <= n
  OBVIOUS
<1> QED  BY <1>3, <1>4

(* The table of the elements a loop keeps up to each place. *)
KeptTable(s, W, g) ==
    g = [k \in 0..Len(s) |-> IF k = 0 THEN <<>>
                             ELSE IF s[k] \in W THEN Append(g[k - 1], s[k]) ELSE g[k - 1]]

LEMMA KeptExists ==
  ASSUME NEW S, NEW s \in Seq(S), NEW W \in SUBSET S
  PROVE  \E g : KeptTable(s, W, g)
<1> DEFINE n == Len(s)
           V == Seq(W)
           empty == <<>>
           Next(k, v) == IF s[k] \in W THEN Append(v, s[k]) ELSE v
           St == [k \in 1..n |-> [v \in V |-> Next(k, v)]]
<1>1. n \in Nat /\ empty \in V /\ \A k \in 1..n, v \in V : Next(k, v) \in V
  OBVIOUS
<1> HIDE DEF n, V, empty, Next
<1>2. Closed(St, n, V)
  BY <1>1 DEF Closed
<1> HIDE DEF St
<1>3. PICK g \in [0..n -> V] : g[0] = empty /\ \A k \in 1..n : g[k] = St[k][g[k - 1]]
  <2>1. n \in Nat /\ empty \in V
    BY <1>1
  <2>2. PICK g \in [0..n -> V] : Table(St, n, empty, g)
    BY ONLY <1>2, <2>1, TableUpTo
  <2> QED  BY <2>2 DEF Table
<1>4. \A k \in 1..n : g[k - 1] \in V
  BY <1>1, <1>3
<1>5. \A k \in 1..n : St[k][g[k - 1]] = Next(k, g[k - 1])
  BY <1>4 DEF St
<1>6. \A k \in 0..n : g[k] = IF k = 0 THEN empty ELSE Next(k, g[k - 1])
  BY <1>1, <1>3, <1>5
<1>7. g = [k \in 0..n |-> IF k = 0 THEN empty ELSE Next(k, g[k - 1])]
  <2>1. g = [k \in 0..n |-> g[k]]
    BY <1>3
  <2> QED  BY <1>6, <2>1
<1>8. KeptTable(s, W, g)
  BY <1>7 DEF KeptTable, n, empty, Next
<1> QED  BY <1>8

(* Nothing else is kept; and everything, if there is nothing else. *)
LEMMA KeptLast ==
  ASSUME NEW S, NEW s \in Seq(S), NEW W \in SUBSET S, NEW g, KeptTable(s, W, g)
  PROVE  /\ g[Len(s)] \in Seq(W)
         /\ (\A k \in 1..Len(s) : s[k] \in W) => g[Len(s)] = s
<1>1. /\ Len(s) \in Nat
      /\ g[0] = <<>>
      /\ \A k \in 1..Len(s) : /\ s[k] \in W => g[k] = Append(g[k - 1], s[k])
                              /\ s[k] \notin W => g[k] = g[k - 1]
  <2>1. Len(s) \in Nat
    OBVIOUS
  <2>2. 0 \in 0..Len(s) /\ \A k \in 1..Len(s) : k \in 0..Len(s) /\ k # 0
    BY <2>1
  <2> QED  BY <2>1, <2>2 DEF KeptTable
<1> DEFINE G == {k \in 0..Len(s) : g[k] \in Seq(W)}
           H == {k \in 0..Len(s) : g[k] = SubSeq(s, 1, k)}
<1>2. \A k \in 0..Len(s) : k \in G
  <2>1. 0 \in G
    <3>1. g[0] \in Seq(W) /\ 0 \in 0..Len(s)
      BY <1>1
    <3> QED  BY ONLY <3>1
  <2>2. ASSUME NEW k \in 1..Len(s), k - 1 \in G PROVE k \in G
    <3>1. k \in 0..Len(s) /\ s[k] \in S /\ g[k - 1] \in Seq(W)
      BY <1>1, <2>2
    <3>2. CASE s[k] \in W
      <4>1. g[k] = Append(g[k - 1], s[k])
        BY ONLY <1>1, <3>2, k \in 1..Len(s)
      <4>2. g[k] \in Seq(W)
        BY ONLY <3>1, <3>2, <4>1
      <4> QED  BY ONLY <3>1, <4>2
    <3>3. CASE s[k] \notin W
      <4>1. g[k] = g[k - 1]
        BY ONLY <1>1, <3>3, k \in 1..Len(s)
      <4> QED  BY ONLY <3>1, <4>1
    <3> QED  BY <3>2, <3>3
  <2> HIDE DEF G
  <2> QED  BY ONLY <1>1, <2>1, <2>2, UpTo
<1>3. ASSUME \A k \in 1..Len(s) : s[k] \in W PROVE g[Len(s)] = s
  <2>1. 0 \in H
    <3>1. SubSeq(s, 1, 0) = <<>> /\ 0 \in 0..Len(s)
      BY <1>1
    <3> QED  BY ONLY <3>1, <1>1
  <2>2. \A k \in 1..Len(s) : Append(SubSeq(s, 1, k - 1), s[k]) = SubSeq(s, 1, k)
    OBVIOUS
  <2>3. ASSUME NEW k \in 1..Len(s), k - 1 \in H PROVE k \in H
    <3>1. k \in 0..Len(s) /\ g[k - 1] = SubSeq(s, 1, k - 1)
      BY <1>1, <2>3
    <3>2. g[k] = Append(g[k - 1], s[k])
      BY ONLY <1>1, <1>3, k \in 1..Len(s)
    <3>3. g[k] = SubSeq(s, 1, k)
      BY ONLY <2>2, <3>1, <3>2, k \in 1..Len(s)
    <3> QED  BY ONLY <3>1, <3>3
  <2>4. \A k \in 0..Len(s) : k \in H
    <3> HIDE DEF H
    <3> QED  BY ONLY <1>1, <2>1, <2>3, UpTo
  <2>5. SubSeq(s, 1, Len(s)) = s
    OBVIOUS
  <2> QED  BY <1>1, <2>4, <2>5
<1> QED  BY <1>1, <1>2, <1>3

-----------------------------------------------------------------------------
(* Over a finite set. *)

\* The element the definition takes first.
Pick(s) == CHOOSE x \in s : TRUE

\* g is the table of the partial sums of f over the subsets of S.
SumTable(f, S, g) ==
    g = [s \in SUBSET S |-> IF s = {} THEN 0 ELSE f[Pick(s)] + g[s \ {Pick(s)}]]

(* The sum is the entry of the whole set in such a table. *)
LEMMA SumUnfold ==
  ASSUME NEW f, NEW S
  PROVE  SumFunctionOnSet(f, S) = (CHOOSE g : SumTable(f, S, g))[S]
BY DEF SumFunctionOnSet, FoldFunctionOnSet, MapThenFoldSet, SumTable, Pick

(* A set of subsets of a finite set has a member that contains no other.   *)
LEMMA LeastSet ==
  ASSUME NEW S, IsFiniteSet(S), NEW B, B \subseteq SUBSET S, B # {}
  PROVE  \E T \in B : \A U \in B : U \subseteq T => U = T
<1>1. FiniteSubsetsOf(S) = SUBSET S
  BY FS_FiniteSubsetsOfFinite
<1>2. IsWellFoundedOn(StrictSubsetOrdering(S), SUBSET S)
  BY <1>1, FS_StrictSubsetOrderingWellFounded
<1>3. PICK T \in B : \A U \in B : ~(<<U, T>> \in StrictSubsetOrdering(S))
  BY <1>2, WFMin
<1> QED  BY <1>3 DEF StrictSubsetOrdering

(* The element taken is one of the set. *)
LEMMA PickIn == ASSUME NEW s, s # {} PROVE Pick(s) \in s
BY DEF Pick

(* Two tables of one function agree wherever both have an entry.            *)
LEMMA TableUnique ==
  ASSUME NEW S, IsFiniteSet(S), NEW f, NEW T, NEW U, NEW g, NEW h,
         T \subseteq S, U \subseteq S, SumTable(f, T, g), SumTable(f, U, h)
  PROVE  \A s \in (SUBSET T) \cap (SUBSET U) : g[s] = h[s]
<1> DEFINE B == {s \in (SUBSET T) \cap (SUBSET U) : g[s] # h[s]}
<1>1. SUFFICES ASSUME B # {} PROVE FALSE
  OBVIOUS
<1>2. PICK s \in B : \A u \in B : u \subseteq s => u = s
  <2>1. B \subseteq SUBSET S
    OBVIOUS
  <2> HIDE DEF B
  <2> QED  BY <1>1, <2>1, LeastSet
<1>3. s \in SUBSET T /\ s \in SUBSET U /\ g[s] # h[s]
  BY <1>2
<1>4. /\ g[s] = IF s = {} THEN 0 ELSE f[Pick(s)] + g[s \ {Pick(s)}]
      /\ h[s] = IF s = {} THEN 0 ELSE f[Pick(s)] + h[s \ {Pick(s)}]
  BY <1>3 DEF SumTable
<1>5. s # {}
  BY <1>3, <1>4
<1>6. s \ {Pick(s)} \subseteq s /\ s \ {Pick(s)} # s
  BY <1>5, PickIn
<1>7. s \ {Pick(s)} \notin B
  BY <1>2, <1>6
<1>8. g[s \ {Pick(s)}] = h[s \ {Pick(s)}]
  BY <1>3, <1>6, <1>7
<1> QED  BY <1>3, <1>4, <1>5, <1>8

(* Every finite set has a table: its own entry on top of those of the       *)
(* smaller sets.                                                            *)
LEMMA TableExists ==
  ASSUME NEW S, IsFiniteSet(S), NEW f
  PROVE  \A T \in SUBSET S : \E g : SumTable(f, T, g)
<1> DEFINE B == {T \in SUBSET S : ~\E g : SumTable(f, T, g)}
<1>1. SUFFICES ASSUME B # {} PROVE FALSE
  OBVIOUS
<1>2. PICK T \in B : \A U \in B : U \subseteq T => U = T
  <2>1. B \subseteq SUBSET S
    OBVIOUS
  <2> HIDE DEF B
  <2> QED  BY <1>1, <2>1, LeastSet
<1>3. \A U \in SUBSET T : U # T => \E g : SumTable(f, U, g)
  BY <1>2
<1> DEFINE G(s) == CHOOSE g : SumTable(f, s, g)
           r(s) == s \ {Pick(s)}
           V(s) == IF s = {} THEN 0 ELSE f[Pick(s)] + G(r(s))[r(s)]
           t == [s \in SUBSET T |-> V(s)]
<1>4. \A s \in SUBSET T : s # {} => r(s) \in SUBSET T /\ r(s) # T /\ r(s) # s
  BY PickIn
<1>5. \A U \in SUBSET T : U # T => SumTable(f, U, G(U))
  BY <1>3
<1>6. ASSUME NEW u \in SUBSET T, u # T
      PROVE  V(u) = G(u)[u]
  <2>1. G(u)[u] = IF u = {} THEN 0 ELSE f[Pick(u)] + G(u)[r(u)]
    <3>1. SumTable(f, u, G(u))
      BY <1>5, <1>6
    <3> HIDE DEF G
    <3> QED  BY <3>1 DEF SumTable
  <2>2. u # {} => G(u)[r(u)] = G(r(u))[r(u)]
    <3>1. ASSUME u # {} PROVE G(u)[r(u)] = G(r(u))[r(u)]
      <4>1. SumTable(f, u, G(u)) /\ SumTable(f, r(u), G(r(u)))
        BY <1>4, <1>5, <1>6, <3>1
      <4>2. u \subseteq S /\ r(u) \subseteq S /\ r(u) \in (SUBSET u) \cap (SUBSET r(u))
        BY <1>2
      <4> HIDE DEF G, r
      <4> QED  BY <4>1, <4>2, TableUnique
    <3> QED  BY <3>1
  <2> HIDE DEF G, r
  <2> QED  BY <2>1, <2>2 DEF V
<1>7. SumTable(f, T, t)
  <2>1. ASSUME NEW s \in SUBSET T
        PROVE  t[s] = IF s = {} THEN 0 ELSE f[Pick(s)] + t[r(s)]
    <3>1. t[s] = V(s)
      OBVIOUS
    <3>2. s # {} => t[r(s)] = G(r(s))[r(s)]
      <4>1. ASSUME s # {} PROVE t[r(s)] = V(r(s)) /\ V(r(s)) = G(r(s))[r(s)]
        <5>1. r(s) \in SUBSET T /\ r(s) # T
          BY <1>4, <4>1
        <5> HIDE DEF V, r, G
        <5> QED  BY <1>6, <5>1
      <4> QED BY <4>1
    <3> HIDE DEF t, r, G
    <3> QED  BY <3>1, <3>2 DEF V
  <2> HIDE DEF V, G
  <2> QED  BY <2>1 DEF SumTable
<1> HIDE DEF t, V, G, r
<1> QED  BY <1>2, <1>7

-----------------------------------------------------------------------------
(* What the sum is, whatever the order of summation. *)

(* Nothing sums up to nothing. *)
LEMMA SumEmpty ==
  ASSUME NEW f
  PROVE  SumFunctionOnSet(f, {}) = 0
<1> DEFINE G == CHOOSE g : SumTable(f, {}, g)
<1>1. SumTable(f, {}, G) /\ SumFunctionOnSet(f, {}) = G[{}]
  <2>1. IsFiniteSet({})
    BY FS_EmptySet
  <2> QED  BY <2>1, TableExists, SumUnfold
<1> HIDE DEF G
<1> QED  BY <1>1 DEF SumTable

(* The equation of the definition. *)
LEMMA SumPick ==
  ASSUME NEW S, IsFiniteSet(S), S # {}, NEW f
  PROVE  SumFunctionOnSet(f, S) = f[Pick(S)] + SumFunctionOnSet(f, S \ {Pick(S)})
<1> DEFINE G(s) == CHOOSE g : SumTable(f, s, g)
           R == S \ {Pick(S)}
<1>1. \A T \in SUBSET S : SumTable(f, T, G(T)) /\ SumFunctionOnSet(f, T) = G(T)[T]
  BY TableExists, SumUnfold
<1> HIDE DEF G
<1>2. G(S)[S] = f[Pick(S)] + G(S)[R]
  BY <1>1 DEF SumTable
<1>3. G(S)[R] = G(R)[R]
  <2>1. SumTable(f, S, G(S)) /\ SumTable(f, R, G(R)) /\ R \in (SUBSET S) \cap (SUBSET R)
    BY <1>1
  <2> HIDE DEF R
  <2> QED  BY <2>1, TableUnique
<1> QED  BY <1>1, <1>2, <1>3

(* Integers sum up to an integer. *)
LEMMA SumType ==
  ASSUME NEW S, IsFiniteSet(S), NEW f, \A x \in S : f[x] \in Int
  PROVE  \A T \in SUBSET S : SumFunctionOnSet(f, T) \in Int
<1> DEFINE B == {T \in SUBSET S : SumFunctionOnSet(f, T) \notin Int}
<1>1. SUFFICES ASSUME B # {} PROVE FALSE
  OBVIOUS
<1>2. PICK T \in B : \A U \in B : U \subseteq T => U = T
  <2>1. B \subseteq SUBSET S
    OBVIOUS
  <2> HIDE DEF B
  <2> QED  BY <1>1, <2>1, LeastSet
<1>3. T \subseteq S /\ IsFiniteSet(T)
  BY <1>2, FS_Subset
<1>4. T # {}
  <2>1. SumFunctionOnSet(f, {}) \in Int
    BY SumEmpty
  <2> QED  BY <1>2, <2>1
<1>5. SumFunctionOnSet(f, T) = f[Pick(T)] + SumFunctionOnSet(f, T \ {Pick(T)})
  BY <1>3, <1>4, SumPick
<1>6. T \ {Pick(T)} \notin B /\ f[Pick(T)] \in Int
  BY <1>2, <1>3, <1>4, PickIn
<1>7. SumFunctionOnSet(f, T \ {Pick(T)}) \in Int
  BY <1>3, <1>6
<1> QED  BY <1>2, <1>5, <1>6, <1>7

(* Naturals sum up to a natural. *)
LEMMA SumNat ==
  ASSUME NEW S, IsFiniteSet(S), NEW f, \A x \in S : f[x] \in Nat
  PROVE  \A T \in SUBSET S : SumFunctionOnSet(f, T) \in Nat
<1> DEFINE B == {T \in SUBSET S : SumFunctionOnSet(f, T) \notin Nat}
<1>1. SUFFICES ASSUME B # {} PROVE FALSE
  OBVIOUS
<1>2. PICK T \in B : \A U \in B : U \subseteq T => U = T
  <2>1. B \subseteq SUBSET S
    OBVIOUS
  <2> HIDE DEF B
  <2> QED  BY <1>1, <2>1, LeastSet
<1>3. T \subseteq S /\ IsFiniteSet(T)
  BY <1>2, FS_Subset
<1>4. T # {}
  <2>1. SumFunctionOnSet(f, {}) \in Nat
    BY SumEmpty
  <2> QED  BY <1>2, <2>1
<1>5. SumFunctionOnSet(f, T) = f[Pick(T)] + SumFunctionOnSet(f, T \ {Pick(T)})
  BY <1>3, <1>4, SumPick
<1>6. T \ {Pick(T)} \notin B /\ f[Pick(T)] \in Nat
  BY <1>2, <1>3, <1>4, PickIn
<1>7. SumFunctionOnSet(f, T \ {Pick(T)}) \in Nat
  BY <1>3, <1>6
<1> QED  BY <1>2, <1>5, <1>6, <1>7

(* Any element may be taken first. *)
LEMMA SumRemove ==
  ASSUME NEW S, IsFiniteSet(S), NEW f, \A x \in S : f[x] \in Int
  PROVE  \A y \in S : SumFunctionOnSet(f, S) = SumFunctionOnSet(f, S \ {y}) + f[y]
<1> DEFINE B == {T \in SUBSET S : \E y \in T :
                    SumFunctionOnSet(f, T) # SumFunctionOnSet(f, T \ {y}) + f[y]}
<1>1. SUFFICES ASSUME B # {} PROVE FALSE
  <2>1. S \in SUBSET S
    OBVIOUS
  <2> QED  BY <2>1
<1>2. PICK T \in B : \A U \in B : U \subseteq T => U = T
  <2>1. B \subseteq SUBSET S
    OBVIOUS
  <2> HIDE DEF B
  <2> QED  BY <1>1, <2>1, LeastSet
<1>3. PICK y \in T : SumFunctionOnSet(f, T) # SumFunctionOnSet(f, T \ {y}) + f[y]
  BY <1>2
<1> DEFINE x == Pick(T)
           Tx == T \ {x}
           Ty == T \ {y}
           Txy == T \ {x, y}
<1>4. T \subseteq S /\ T # {} /\ x \in T
  BY <1>2, <1>3, PickIn
<1>5. /\ IsFiniteSet(T) /\ IsFiniteSet(Tx) /\ IsFiniteSet(Ty)
      /\ f[x] \in Int /\ f[y] \in Int /\ SumFunctionOnSet(f, Tx) \in Int
      /\ SumFunctionOnSet(f, Ty) \in Int /\ SumFunctionOnSet(f, Txy) \in Int
  <2>1. Tx \in SUBSET S /\ Ty \in SUBSET S /\ Txy \in SUBSET S
    BY <1>4
  <2> HIDE DEF Tx, Ty, Txy
  <2> QED  BY <1>3, <1>4, <2>1, FS_Subset, SumType
<1>6. SumFunctionOnSet(f, T) = f[x] + SumFunctionOnSet(f, Tx)
  BY <1>4, <1>5, SumPick
<1>7. x # y
  <2>1. f[x] + SumFunctionOnSet(f, Tx) = SumFunctionOnSet(f, Tx) + f[x]
    BY <1>5
  <2> QED  BY <1>3, <1>6, <2>1
<1>8. SumFunctionOnSet(f, Tx) = SumFunctionOnSet(f, Txy) + f[y]
  <2>1. Tx \notin B /\ Tx \subseteq S /\ y \in Tx /\ Tx \ {y} = Txy
    BY <1>2, <1>4, <1>7
  <2> QED  BY <2>1
<1>9. SumFunctionOnSet(f, Ty) = SumFunctionOnSet(f, Txy) + f[x]
  <2>1. Ty \notin B /\ Ty \subseteq S /\ x \in Ty /\ Ty \ {x} = Txy
    BY <1>2, <1>4, <1>7, <1>3
  <2> QED  BY <2>1
<1> QED  BY <1>3, <1>5, <1>6, <1>8, <1>9

(* A new element adds its value. *)
LEMMA SumAdd ==
  ASSUME NEW S, IsFiniteSet(S), NEW y, y \notin S, NEW f,
         \A x \in S \cup {y} : f[x] \in Int
  PROVE  SumFunctionOnSet(f, S \cup {y}) = SumFunctionOnSet(f, S) + f[y]
<1>1. IsFiniteSet(S \cup {y}) /\ y \in S \cup {y} /\ (S \cup {y}) \ {y} = S
  BY FS_AddElement
<1> QED  BY <1>1, SumRemove

(* The sum depends on the values at the elements and on nothing else.       *)
LEMMA SumAgree ==
  ASSUME NEW S, IsFiniteSet(S), NEW f, NEW g, \A x \in S : f[x] = g[x]
  PROVE  SumFunctionOnSet(f, S) = SumFunctionOnSet(g, S)
<1> DEFINE B == {T \in SUBSET S : SumFunctionOnSet(f, T) # SumFunctionOnSet(g, T)}
<1>1. SUFFICES ASSUME B # {} PROVE FALSE
  <2>1. S \in SUBSET S
    OBVIOUS
  <2> QED  BY <2>1
<1>2. PICK T \in B : \A U \in B : U \subseteq T => U = T
  <2>1. B \subseteq SUBSET S
    OBVIOUS
  <2> HIDE DEF B
  <2> QED  BY <1>1, <2>1, LeastSet
<1>3. T \subseteq S /\ IsFiniteSet(T)
  BY <1>2, FS_Subset
<1>4. T # {}
  BY <1>2, SumEmpty
<1>5. /\ SumFunctionOnSet(f, T) = f[Pick(T)] + SumFunctionOnSet(f, T \ {Pick(T)})
      /\ SumFunctionOnSet(g, T) = g[Pick(T)] + SumFunctionOnSet(g, T \ {Pick(T)})
  BY <1>3, <1>4, SumPick
<1>6. T \ {Pick(T)} \notin B /\ f[Pick(T)] = g[Pick(T)] /\ T \ {Pick(T)} \subseteq S
  BY <1>2, <1>3, <1>4, PickIn
<1> QED  BY <1>2, <1>5, <1>6

(* Zeros sum up to zero. *)
LEMMA SumZero ==
  ASSUME NEW S, IsFiniteSet(S)
  PROVE  SumFunctionOnSet([x \in S |-> 0], S) = 0
<1> DEFINE f == [x \in S |-> 0]
           B == {T \in SUBSET S : SumFunctionOnSet(f, T) # 0}
<1>1. SUFFICES ASSUME B # {} PROVE FALSE
  <2>1. S \in SUBSET S
    OBVIOUS
  <2> QED  BY <2>1
<1>2. PICK T \in B : \A U \in B : U \subseteq T => U = T
  <2>1. B \subseteq SUBSET S
    OBVIOUS
  <2> HIDE DEF B
  <2> QED  BY <1>1, <2>1, LeastSet
<1>3. T \subseteq S /\ IsFiniteSet(T) /\ T # {}
  BY <1>2, FS_Subset, SumEmpty
<1>4. SumFunctionOnSet(f, T) = f[Pick(T)] + SumFunctionOnSet(f, T \ {Pick(T)})
  BY <1>3, SumPick
<1>5. T \ {Pick(T)} \notin B /\ f[Pick(T)] = 0 /\ T \ {Pick(T)} \subseteq S
  BY <1>2, <1>3, PickIn
<1>6. SumFunctionOnSet(f, T \ {Pick(T)}) = 0 /\ SumFunctionOnSet(f, T) # 0
  BY <1>2, <1>5
<1> QED  BY <1>4, <1>5, <1>6

(* Changing one value changes the sum by the difference.                    *)
LEMMA SumChange ==
  ASSUME NEW S, IsFiniteSet(S), NEW f, NEW g, NEW y \in S,
         \A x \in S : f[x] \in Int, \A x \in S : g[x] \in Int,
         \A x \in S \ {y} : g[x] = f[x]
  PROVE  SumFunctionOnSet(g, S) = SumFunctionOnSet(f, S) + (g[y] - f[y])
<1> DEFINE R == S \ {y}
<1>1. /\ SumFunctionOnSet(f, S) = SumFunctionOnSet(f, R) + f[y]
      /\ SumFunctionOnSet(g, S) = SumFunctionOnSet(g, R) + g[y]
  BY SumRemove
<1>2. IsFiniteSet(R) /\ R \subseteq S
  BY FS_Subset
<1>3. SumFunctionOnSet(f, R) = SumFunctionOnSet(g, R) /\ SumFunctionOnSet(f, R) \in Int
  <2> HIDE DEF R
  <2>1. \A x \in R : f[x] = g[x]
    BY DEF R
  <2>2. R \in SUBSET S
    BY <1>2
  <2> QED  BY <1>2, <2>1, <2>2, SumAgree, SumType
<1> QED  BY <1>1, <1>3

(* What a set of numbers of at most k sums up to. *)
LEMMA SumAtMost ==
  ASSUME NEW S, IsFiniteSet(S), NEW f, NEW k \in Nat, \A x \in S : f[x] \in 0..k
  PROVE  SumFunctionOnSet(f, S) <= k * Cardinality(S)
<1> DEFINE B == {T \in SUBSET S : ~(SumFunctionOnSet(f, T) <= k * Cardinality(T))}
<1>1. SUFFICES ASSUME B # {} PROVE FALSE
  <2>1. S \in SUBSET S
    OBVIOUS
  <2> QED  BY <2>1
<1>2. PICK T \in B : \A U \in B : U \subseteq T => U = T
  <2>1. B \subseteq SUBSET S
    OBVIOUS
  <2> HIDE DEF B
  <2> QED  BY <1>1, <2>1, LeastSet
<1>3. T \subseteq S /\ IsFiniteSet(T)
  BY <1>2, FS_Subset
<1>4. T # {}
  <2>1. SumFunctionOnSet(f, {}) = 0 /\ Cardinality({}) = 0
    BY SumEmpty, FS_EmptySet
  <2>2. 0 <= k * 0
    OBVIOUS
  <2> QED  BY <1>2, <2>1, <2>2
<1> DEFINE R == T \ {Pick(T)}
<1>5. SumFunctionOnSet(f, T) = f[Pick(T)] + SumFunctionOnSet(f, R)
  BY <1>3, <1>4, SumPick
<1>6. R \notin B /\ f[Pick(T)] \in 0..k /\ R \subseteq S
  BY <1>2, <1>3, <1>4, PickIn
<1>7. SumFunctionOnSet(f, R) <= k * Cardinality(R)
  BY <1>6
<1>8. Cardinality(R) = Cardinality(T) - 1 /\ Cardinality(T) \in Nat /\ Cardinality(R) \in Nat
  BY <1>3, <1>4, PickIn, FS_RemoveElement, FS_CardinalityType
<1>9. SumFunctionOnSet(f, R) \in Int
  <2>1. \A x \in S : f[x] \in Int
    OBVIOUS
  <2> QED  BY <1>6, <2>1, SumType
<1>10. k * Cardinality(R) = k * Cardinality(T) - k /\ k * Cardinality(R) \in Int
  BY <1>8
<1> HIDE DEF R
<1>11. SumFunctionOnSet(f, T) <= k * Cardinality(T)
  BY ONLY <1>5, <1>6, <1>7, <1>8, <1>9, <1>10, k \in Nat
<1> QED  BY <1>2, <1>11

(* A mean is between the least and the greatest that is possible. *)
LEMMA MeanType ==
  ASSUME NEW s \in Nat, NEW n \in Nat \ {0}, NEW k \in Nat, s <= k * n
  PROVE  s \div n \in 0..k
<1> DEFINE q == s \div n
<1>1. q \in Int /\ n * q <= s /\ s < n * q + n
  OBVIOUS
<1> HIDE DEF q
<1>2. q >= 0
  <2>1. SUFFICES ASSUME q <= -1 PROVE FALSE
    BY <1>1
  <2>2. n * q <= -n
    BY <1>1, <2>1
  <2> QED  BY <1>1, <2>2
<1>3. q <= k
  <2>1. SUFFICES ASSUME q >= k + 1 PROVE FALSE
    BY <1>1
  <2>2. n * q >= n * (k + 1)
    BY <1>1, <2>1
  <2>3. n * (k + 1) = k * n + n
    OBVIOUS
  <2> QED  BY <1>1, <2>2, <2>3
<1> QED  BY <1>1, <1>2, <1>3 DEF q
=============================================================================
