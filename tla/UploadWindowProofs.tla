------------------------- MODULE UploadWindowProofs -------------------------
(***************************************************************************)
(* A counter without a time to live has a culprit, and no stretch of time  *)
(* as long as the window admits twice the limit, for any number of         *)
(* requests, any limit and any window.                                     *)
(***************************************************************************)
EXTENDS UploadWindow, FoldLemmas

\* A counter is somebody's: the request that created it is known as long as
\* it is there.
CounterHasOpener == counter > 0 => opener \in Request

WInv == WindowType /\ CounterHasOpener /\ LockoutHasCause

LEMMA WindowInitInv == ASSUME WindowInit PROVE WInv
BY WindowAssumption
   DEF WindowInit, WInv, WindowType, CounterHasOpener, LockoutHasCause

\* INCR: a fresh counter is its creator's, any other keeps its own.
LEMMA IncrInv ==
  ASSUME WInv, NEW r \in Request, gate[r] = "outside", Counted(r),
         NEW g \in {"opening", "counted", "waved"}, GateTo(r, g),
         counter = 0 => g \in {"opening", "waved"},
         value' \in [Request -> Nat]
  PROVE  WInv'
<1>1. WindowType'
  <2>1. gate' \in [Request -> {"outside", "in", "refused", "waved", "lost"} \cup Inside]
    BY DEF WInv, WindowType, GateTo, Inside
  <2>2. counter' \in Nat /\ left' \in 0..Window /\ opener' \in Request \cup {NoRequest}
    BY DEF WInv, WindowType, Counted
  <2>3. recent' \in [0..Window - 1 -> Nat]
    <3>1. PICK n \in {0, 1} : recent' = [recent EXCEPT ![0] = @ + n]
      BY DEF Counted
    <3>2. recent \in [0..Window - 1 -> Nat] /\ 0 \in 0..Window - 1
      BY WindowAssumption DEF WInv, WindowType
    <3>3. recent[0] + n \in Nat
      BY <3>2
    <3> QED  BY <3>1, <3>2, <3>3
  <2> QED  BY <2>1, <2>2, <2>3 DEF WindowType
<1>2. CASE counter = 0
  BY <1>1, <1>2 DEF WInv, WindowType, CounterHasOpener, LockoutHasCause, Counted, GateTo
<1>3. CASE counter > 0
  BY <1>1, <1>3 DEF WInv, WindowType, CounterHasOpener, LockoutHasCause, Counted, GateTo
<1> QED  BY <1>1, <1>2, <1>3 DEF WInv, WindowType

LEMMA GateInv == ASSUME WInv, NEW r \in Request, GateStep(r) PROVE WInv'
<1>1. CASE Incr(r)
  <2>1. value' \in [Request -> Nat]
    BY <1>1 DEF Incr, WInv, WindowType
  <2> QED  BY <1>1, <2>1, IncrInv DEF Incr, WInv, WindowType
<1>2. CASE SetTtl(r)
  BY <1>2, WindowAssumption
     DEF SetTtl, GateTo, WInv, WindowType, CounterHasOpener, LockoutHasCause, Inside
<1>3. CASE Decide(r)
  BY <1>3 DEF Decide, Leaves, GateTo, WInv, WindowType, CounterHasOpener, LockoutHasCause, Inside
<1>4. CASE Wave(r)
  BY <1>4, WindowAssumption
     DEF Wave, Leaves, GateTo, WInv, WindowType, CounterHasOpener, LockoutHasCause, Inside
<1>5. CASE WaveCounted(r)
  <2>1. value' \in [Request -> Nat]
    BY <1>5 DEF WaveCounted, Leaves, WInv, WindowType
  <2> QED  BY <1>5, <2>1, IncrInv DEF WaveCounted, Leaves
<1> QED  BY <1>1, <1>2, <1>3, <1>4, <1>5 DEF GateStep

LEMMA StopGateInv == ASSUME WInv, StopGate PROVE WInv'
BY DEF StopGate, WInv, WindowType, CounterHasOpener, LockoutHasCause, Inside

LEMMA TickTyped == ASSUME WindowType, Tick PROVE WindowType'
<1>1. recent' \in [0..Window - 1 -> Nat]
  <2>1. \A t \in 0..Window - 1 : t # 0 => t - 1 \in 0..Window - 1
    BY WindowAssumption
  <2> QED  BY <2>1 DEF Tick, WindowType
<1>2. left' \in 0..Window /\ counter' \in Nat /\ opener' \in Request \cup {NoRequest}
  BY WindowAssumption DEF Tick, WindowType
<1> QED  BY <1>1, <1>2 DEF Tick, WindowType

LEMMA TickInv == ASSUME WInv, Tick PROVE WInv'
<1>1. WindowType'
  BY TickTyped DEF WInv
<1>2. CounterHasOpener' /\ LockoutHasCause'
  BY DEF Tick, WInv, WindowType, CounterHasOpener, LockoutHasCause
<1> QED  BY <1>1, <1>2 DEF WInv

LEMMA WindowStepInv == ASSUME WInv, [WindowNext]_windowVars PROVE WInv'
<1>1. CASE UNCHANGED windowVars
  BY <1>1 DEF windowVars, WInv, WindowType, CounterHasOpener, LockoutHasCause
<1> QED  BY <1>1, GateInv, StopGateInv, TickInv DEF WindowNext

LEMMA WindowInvariance == WindowSpec => []WInv
BY WindowInitInv, WindowStepInv, PTL DEF WindowSpec

\* Every variable of the window keeps its type.
THEOREM WindowTyped == WindowSpec => []WindowType
BY WindowInvariance, PTL DEF WInv

\* Whenever the counter is there without a time to live, the request that made
\* it is between INCR and EXPIRE, or was let through or lost there.
THEOREM LockoutExplained == WindowSpec => []LockoutHasCause
BY WindowInvariance, PTL DEF WInv

-----------------------------------------------------------------------------
(* No stretch of Window ticks admits twice the limit. *)

\* How many of the requests counted in the current window are admitted.
AdmittedNow == IF counter < MaxRequests THEN counter ELSE MaxRequests

\* How many requests were admitted in the last n ticks, given how many there
\* were at each age.
First(f, n) == SumFunctionOnSet(f, 0..n - 1)
AdmittedSince(n) == First(recent, n)

\* A request that is opening a window has created the counter, which has no
\* time to live yet; one that has it is there.  Of the requests of the last
\* Window ticks, at most MaxRequests - 1 belong to earlier windows; those after
\* the EXPIRE of the current window are requests of it, and its opener came
\* before the EXPIRE.
StretchInv ==
    /\ \A r \in Request : gate[r] = "opening" => r = opener /\ counter > 0 /\ left = 0
    /\ left > 0 => counter > 0
    /\ AdmittedSince(Window) <= MaxRequests - 1 + AdmittedNow
    /\ left > 0 => AdmittedSince(Window - left) <= AdmittedNow - 1

(* The number admitted in any number of ticks is a number, an earlier tick   *)
(* adds to it what was admitted then, and one more now is one more in every  *)
(* stretch.                                                                  *)
LEMMA FirstType ==
  ASSUME NEW f \in [0..Window - 1 -> Nat], NEW n \in 0..Window
  PROVE  First(f, n) \in Int
<1> DEFINE S == 0..n - 1
<1>1. Window \in Nat /\ n \in Int
  BY WindowAssumption
<1>2. IsFiniteSet(S) /\ S \in SUBSET S
  BY <1>1, FS_Interval
<1>3. \A t \in S : f[t] \in Int
  BY <1>1
<1> HIDE DEF S
<1>4. SumFunctionOnSet(f, S) \in Int
  BY <1>2, <1>3, SumType
<1> QED  BY <1>4 DEF First, S

LEMMA FirstMore ==
  ASSUME NEW f \in [0..Window - 1 -> Nat], NEW n \in 0..Window - 1
  PROVE  First(f, n + 1) = First(f, n) + f[n]
<1> DEFINE S == 0..n - 1
<1>1. Window \in Nat /\ n \in Int
  BY WindowAssumption
<1>2. 0..(n + 1) - 1 = S \cup {n} /\ n \notin S
  BY <1>1
<1>3. IsFiniteSet(S)
  BY <1>1, FS_Interval
<1>4. \A t \in S \cup {n} : f[t] \in Int
  BY <1>1
<1> HIDE DEF S
<1>5. SumFunctionOnSet(f, S \cup {n}) = SumFunctionOnSet(f, S) + f[n]
  BY <1>2, <1>3, <1>4, SumAdd
<1> QED  BY <1>2, <1>5 DEF First, S

LEMMA FirstBump ==
  ASSUME NEW f, NEW g, NEW k \in {0, 1}, NEW n \in 1..Window,
         \A t \in 0..Window - 1 : f[t] \in Nat /\ g[t] \in Nat,
         g[0] = f[0] + k, \A t \in 1..Window - 1 : g[t] = f[t]
  PROVE  First(g, n) = First(f, n) + k
<1> DEFINE S == 0..n - 1
<1>1. Window \in Nat /\ n \in Int
  BY WindowAssumption
<1>2. 0 \in S /\ IsFiniteSet(S)
  BY <1>1, FS_Interval
<1>3. \A t \in S : f[t] \in Int
  BY <1>1
<1>4. \A t \in S : g[t] \in Int
  BY <1>1
<1>5. \A t \in S \ {0} : g[t] = f[t]
  BY <1>1
<1>6. g[0] - f[0] = k
  BY <1>1
<1>7. SumFunctionOnSet(g, S) = SumFunctionOnSet(f, S) + (g[0] - f[0])
  <2> HIDE DEF S
  <2> QED  BY ONLY <1>2, <1>3, <1>4, <1>5, SumChange
<1> HIDE DEF S
<1> QED  BY <1>6, <1>7 DEF First, S

(* A tick makes every stretch one tick older. *)
LEMMA FirstShift ==
  ASSUME NEW f \in [0..Window - 1 -> Nat], NEW g \in [0..Window - 1 -> Nat],
         g = [t \in 0..Window - 1 |-> IF t = 0 THEN 0 ELSE f[t - 1]]
  PROVE  \A n \in 0..Window - 1 : First(g, n + 1) = First(f, n)
<1> DEFINE B == {n \in 0..Window - 1 : First(g, n + 1) # First(f, n)}
<1>1. SUFFICES ASSUME B # {} PROVE FALSE
  OBVIOUS
<1>2. Window \in Nat \ {0}
  BY WindowAssumption
<1>3. PICK n \in B : \A m \in B : ~(m < n)
  <2>1. B \subseteq Nat
    BY <1>2
  <2> HIDE DEF B
  <2>2. IsWellFoundedOn(OpToRel(<, Nat), Nat)
    BY NatLessThanWellFounded
  <2>3. PICK x \in B : \A y \in B : ~(<<y, x>> \in OpToRel(<, Nat))
    BY <1>1, <2>1, <2>2, WFMin
  <2> QED  BY <2>1, <2>3 DEF OpToRel
<1>4. n \in 0..Window - 1 /\ n \in Nat /\ First(g, n + 1) # First(f, n)
  BY <1>2, <1>3
<1>5. First(g, n + 1) = First(g, n) + g[n]
  BY <1>4, FirstMore
<1>6. CASE n = 0
  <2>1. 0..0 - 1 = {}
    OBVIOUS
  <2>2. First(g, 0) = 0 /\ First(f, 0) = 0
    BY <2>1, SumEmpty DEF First
  <2> QED  BY <1>2, <1>4, <1>5, <1>6, <2>2
<1>7. CASE n > 0
  <2>1. n - 1 \in 0..Window - 1 /\ (n - 1) + 1 = n
    BY <1>2, <1>4, <1>7
  <2>2. First(g, n) = First(f, n - 1)
    <3>1. n - 1 \notin B
      BY <1>3, <1>4, <1>7
    <3> QED  BY <2>1, <3>1
  <2>3. g[n] = f[n - 1]
    BY <1>4, <1>7
  <2>4. First(f, n) = First(f, n - 1) + f[n - 1]
    <3> DEFINE m == n - 1
    <3>1. m \in 0..Window - 1 /\ m + 1 = n
      BY <2>1
    <3> HIDE DEF m
    <3>2. First(f, m + 1) = First(f, m) + f[m]
      BY <3>1, FirstMore
    <3> QED  BY <3>1, <3>2 DEF m
  <2> QED  BY <1>4, <1>5, <2>2, <2>3, <2>4
<1> QED  BY <1>4, <1>6, <1>7

-----------------------------------------------------------------------------

LEMMA StretchInit == ASSUME WindowInit PROVE StretchInv
<1> DEFINE S == 0..Window - 1
<1>1. Window \in Nat /\ MaxRequests \in Nat \ {0}
  BY WindowAssumption
<1>2. SumFunctionOnSet(recent, S) = 0
  <2>1. IsFiniteSet(S)
    BY <1>1, FS_Interval
  <2> HIDE DEF S
  <2>2. SumFunctionOnSet([x \in S |-> 0], S) = 0
    BY <2>1, SumZero
  <2> QED  BY <2>2 DEF WindowInit, S
<1> QED  BY <1>1, <1>2 DEF WindowInit, StretchInv, AdmittedSince, First, AdmittedNow

(* INCR: one more request of the current window, or one that is refused.    *)
LEMMA StretchCounted ==
  ASSUME WInv, StretchInv, NEW r \in Request, gate[r] = "outside", Counted(r),
         NEW g \in {"opening", "counted", "waved"}, GateTo(r, g),
         g = "opening" => counter = 0
  PROVE  StretchInv'
<1> DEFINE k == IF counter < MaxRequests THEN 1 ELSE 0
<1>1. Window \in Nat \ {0} /\ MaxRequests \in Nat \ {0} /\ counter \in Nat /\ left \in 0..Window
  BY WindowAssumption DEF WInv, WindowType
<1>2. /\ counter' = counter + 1 /\ left' = left /\ recent' = [recent EXCEPT ![0] = @ + k]
      /\ opener' = IF counter = 0 THEN r ELSE opener
      /\ gate' = [gate EXCEPT ![r] = g]
  BY DEF Counted, GateTo
<1>3. k \in {0, 1} /\ AdmittedNow' = AdmittedNow + k
  BY <1>1, <1>2 DEF AdmittedNow
<1>4. recent \in [0..Window - 1 -> Nat] /\ recent' \in [0..Window - 1 -> Nat]
  <2>1. recent \in [0..Window - 1 -> Nat] /\ 0 \in 0..Window - 1
    BY <1>1 DEF WInv, WindowType
  <2> QED  BY <1>2, <1>3, <2>1
<1> HIDE DEF k
<1>5. \A n \in 1..Window : First(recent', n) = First(recent, n) + k /\ First(recent, n) \in Int
  <2> TAKE n \in 1..Window
  <2>1. n \in 0..Window
    OBVIOUS
  <2>2. First(recent, n) \in Int
    BY <1>4, <2>1, FirstType
  <2>3. First(recent', n) = First(recent, n) + k
    <3>1. /\ recent'[0] = recent[0] + k /\ \A t \in 1..Window - 1 : recent'[t] = recent[t]
          /\ \A t \in 0..Window - 1 : recent[t] \in Nat /\ recent'[t] \in Nat
      BY <1>1, <1>2, <1>4
    <3> QED  BY ONLY <1>3, <3>1, n \in 1..Window, FirstBump
  <2> QED  BY <2>2, <2>3
<1>6. (left > 0 => counter > 0)' /\ (\A q \in Request : gate[q] = "opening" => q = opener /\ counter > 0 /\ left = 0)'
  BY <1>1, <1>2 DEF StretchInv, WInv, WindowType
<1>7. AdmittedSince(Window)' <= MaxRequests - 1 + AdmittedNow'
  <2>1. Window \in 1..Window
    BY <1>1
  <2> QED  BY <1>1, <1>3, <1>5, <2>1 DEF StretchInv, AdmittedSince, AdmittedNow
<1>8. (left > 0 => AdmittedSince(Window - left) <= AdmittedNow - 1)'
  <2>1. ASSUME left > 0, left < Window
        PROVE  First(recent', Window - left) <= AdmittedNow' - 1
    <3>1. Window - left \in 1..Window
      BY <1>1, <2>1
    <3> QED  BY <1>1, <1>3, <1>5, <2>1, <3>1 DEF StretchInv, AdmittedSince, AdmittedNow
  <2>2. First(recent', 0) = 0
    <3>1. 0..0 - 1 = {}
      OBVIOUS
    <3> QED  BY <3>1, SumEmpty DEF First
  <2>3. AdmittedNow' >= 1 /\ AdmittedNow' \in Int
    BY <1>1, <1>2 DEF AdmittedNow
  <2>4. CASE left = Window
    <3>1. Window - left' = 0
      BY <1>1, <1>2, <2>4
    <3> QED  BY <2>2, <2>3, <3>1 DEF AdmittedSince
  <2>5. CASE left < Window
    BY <1>2, <2>1, <2>5 DEF AdmittedSince
  <2> QED  BY <1>1, <2>4, <2>5
<1> QED  BY <1>6, <1>7, <1>8 DEF StretchInv

LEMMA StretchGate ==
  ASSUME WInv, StretchInv, NEW r \in Request, GateStep(r)
  PROVE  StretchInv'
<1> USE DEF WInv, WindowType
<1>1. Window \in Nat \ {0} /\ MaxRequests \in Nat \ {0} /\ counter \in Nat
  BY WindowAssumption
<1>2. CASE Incr(r)
  BY <1>2, StretchCounted DEF Incr
<1>3. CASE WaveCounted(r)
  BY <1>3, StretchCounted DEF WaveCounted, Leaves
<1>4. CASE gate[r] = "opening" /\ UNCHANGED <<counter, recent, opener>> /\ left' = Window
           /\ \A q \in Request : gate'[q] = "opening" => q # r /\ gate[q] = "opening"
  <2>1. counter > 0 /\ \A q \in Request : gate'[q] # "opening"
    BY <1>4 DEF StretchInv
  <2>2. AdmittedNow' >= 1 /\ AdmittedNow' = AdmittedNow /\ AdmittedNow \in Int
    BY <1>1, <1>4, <2>1 DEF AdmittedNow
  <2>3. AdmittedSince(Window)' = AdmittedSince(Window)
    BY <1>4 DEF AdmittedSince
  <2>4. AdmittedSince(Window - left)' = 0
    <3>1. 0..(Window - left') - 1 = {}
      BY <1>1, <1>4
    <3> QED  BY <3>1, SumEmpty DEF AdmittedSince, First
  <2> QED  BY <1>1, <1>4, <2>1, <2>2, <2>3, <2>4 DEF StretchInv
<1>5. CASE UNCHANGED <<counter, left, opener, recent>>
           /\ \A q \in Request : gate'[q] = "opening" => gate[q] = "opening"
  BY <1>5 DEF StretchInv, AdmittedSince, AdmittedNow
<1>6. CASE SetTtl(r)
  BY <1>4, <1>6 DEF SetTtl, GateTo
<1>7. CASE Decide(r)
  BY <1>5, <1>7 DEF Decide, Leaves, GateTo
<1>8. CASE Wave(r)
  BY <1>4, <1>5, <1>8 DEF Wave, Leaves, GateTo
<1> QED  BY <1>2, <1>3, <1>6, <1>7, <1>8 DEF GateStep

LEMMA StretchStop ==
  ASSUME StretchInv, StopGate
  PROVE  StretchInv'
BY DEF StopGate, StretchInv, AdmittedSince, AdmittedNow

LEMMA StretchTick ==
  ASSUME WInv, StretchInv, Tick
  PROVE  StretchInv'
<1> USE DEF WInv, WindowType
<1>1. Window \in Nat \ {0} /\ MaxRequests \in Nat \ {0} /\ counter \in Nat /\ left \in 0..Window
  BY WindowAssumption
<1>2. recent \in [0..Window - 1 -> Nat] /\ recent' \in [0..Window - 1 -> Nat]
  BY TickTyped
<1>3. \A n \in 0..Window - 1 : First(recent', n + 1) = First(recent, n)
  BY <1>2, FirstShift DEF Tick
<1>4. \A n \in 0..Window : First(recent, n) \in Int
  BY <1>2, FirstType
<1>5. First(recent', Window) = First(recent, Window - 1)
  <2>1. Window - 1 \in 0..Window - 1 /\ (Window - 1) + 1 = Window
    BY <1>1
  <2> QED  BY <1>3, <2>1
<1>6. First(recent, Window - 1) <= First(recent, Window)
  <2> DEFINE m == Window - 1
  <2>1. m \in 0..Window - 1 /\ m \in 0..Window /\ m + 1 = Window /\ Window \in 0..Window
    BY <1>1
  <2> HIDE DEF m
  <2>2. First(recent, m + 1) = First(recent, m) + recent[m] /\ recent[m] \in Nat
    BY <1>2, <2>1, FirstMore
  <2>3. First(recent, m) <= First(recent, Window)
    BY <1>4, <2>1, <2>2
  <2> QED  BY <2>3 DEF m
<1>7. \A q \in Request : gate'[q] = "opening" => q = opener' /\ counter' > 0 /\ left' = 0
  BY <1>1 DEF Tick, StretchInv
<1>8. /\ First(recent, Window - 1) \in Int /\ First(recent, Window) \in Int
      /\ AdmittedNow \in Int /\ AdmittedNow <= MaxRequests
  BY <1>1, <1>4 DEF AdmittedNow
<1>9. CASE left = 1
  <2>1. left' = 0 /\ counter' = 0 /\ AdmittedNow' = 0
    BY <1>1, <1>9 DEF Tick, AdmittedNow
  <2>2. First(recent, Window - 1) <= AdmittedNow - 1
    BY <1>9 DEF StretchInv, AdmittedSince
  <2> QED  BY <1>1, <1>5, <1>7, <1>8, <2>1, <2>2 DEF StretchInv, AdmittedSince
<1>10. CASE left # 1
  <2>1. /\ counter' = counter /\ AdmittedNow' = AdmittedNow
        /\ left' = IF left > 0 THEN left - 1 ELSE 0
    BY <1>10 DEF Tick, AdmittedNow
  <2>2. AdmittedSince(Window)' <= MaxRequests - 1 + AdmittedNow'
    BY <1>1, <1>5, <1>6, <1>8, <2>1 DEF StretchInv, AdmittedSince
  <2>3. ASSUME left' > 0
        PROVE  AdmittedSince(Window - left)' <= AdmittedNow' - 1
    <3> DEFINE m == Window - left
    <3>1. left > 0 /\ m \in 0..Window - 1 /\ Window - left' = m + 1
      BY <1>1, <2>1, <2>3
    <3>2. First(recent, m) <= AdmittedNow - 1
      BY <3>1 DEF StretchInv, AdmittedSince
    <3> HIDE DEF m
    <3>3. First(recent', m + 1) = First(recent, m)
      BY <1>3, <3>1
    <3> QED  BY <2>1, <3>1, <3>2, <3>3 DEF AdmittedSince
  <2>4. (left > 0 => counter > 0)'
    BY <1>1, <2>1 DEF StretchInv
  <2> QED  BY <1>7, <2>2, <2>3, <2>4 DEF StretchInv
<1> QED  BY <1>9, <1>10

\* Any stretch of Window ticks admits less than twice the limit, whatever the
\* requests race with, as long as nothing but the counter admits them.
THEOREM StretchBounded == WindowSpec => []UploadsBounded
<1>1. WindowInit => StretchInv
  BY StretchInit
<1>2. WInv /\ StretchInv /\ [WindowNext]_windowVars => StretchInv'
  <2>1. ASSUME StretchInv, UNCHANGED windowVars PROVE StretchInv'
    BY <2>1 DEF windowVars, StretchInv, AdmittedSince, AdmittedNow
  <2> QED  BY <2>1, StretchGate, StretchStop, StretchTick DEF WindowNext
<1>3. WInv /\ StretchInv => UploadsBounded
  <2> SUFFICES ASSUME WInv, StretchInv PROVE UploadsBounded
    OBVIOUS
  <2>1. /\ Window \in Nat \ {0} /\ MaxRequests \in Nat \ {0} /\ counter \in Nat
        /\ recent \in [0..Window - 1 -> Nat]
    BY WindowAssumption DEF WInv, WindowType
  <2>2. Window \in 0..Window
    BY <2>1
  <2>3. First(recent, Window) \in Int
    BY <2>1, <2>2, FirstType
  <2>4. SumFunction(recent) = First(recent, Window)
    BY <2>1 DEF SumFunction, First
  <2> QED  BY <2>1, <2>3, <2>4 DEF StretchInv, AdmittedSince, AdmittedNow, UploadsBounded
<1> QED  BY <1>1, <1>2, <1>3, WindowInvariance, PTL DEF WindowSpec
=============================================================================
