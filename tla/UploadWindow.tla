---------------------------- MODULE UploadWindow ----------------------------
(***************************************************************************)
(* UploadRateLimiterGuard, in front of POST /imports of one business: a    *)
(* counter in Redis that the first request of a window creates and that    *)
(* its time to live removes.  RedisService.incr is two commands, INCR and  *)
(* EXPIRE, and whatever goes wrong with either lets the request through.   *)
(***************************************************************************)
EXTENDS Integers, Functions

CONSTANTS
    Request,      \* requests to the endpoint
    NoRequest,
    MaxRequests,  \* RATE_LIMIT_MAX_REQUESTS, 10
    Window,       \* RATE_LIMIT_WINDOW_SECONDS, 60, in ticks
    RedisFails    \* whether commands to Redis may fail

ASSUME WindowAssumption ==
    /\ {MaxRequests, Window} \subseteq Nat \ {0}
    /\ RedisFails \in BOOLEAN
    /\ NoRequest \notin Request

VARIABLES
    gate,     \* how far each request has come
    value,    \* what INCR made of the counter for it, while it is at the guard
    counter,  \* rate:upload:<business>, 0 while the key is absent
    left,     \* ticks until the key expires, 0 while it has no time to live
    opener,   \* history: the request whose INCR created the key
    recent    \* history: requests whose INCR admits them, by ticks since

windowVars == <<gate, value, counter, left, opener, recent>>

WindowInit ==
    /\ gate = [r \in Request |-> "outside"]
    /\ value = [r \in Request |-> 0]
    /\ counter = 0
    /\ left = 0
    /\ opener = NoRequest
    /\ recent = [t \in 0..Window - 1 |-> 0]

Within(n) == n <= MaxRequests

GateTo(r, g) == gate' = [gate EXCEPT ![r] = g]
Leaves(r, g) == GateTo(r, g) /\ value' = [value EXCEPT ![r] = 0]

\* The server side of INCR.
Counted(r) ==
    /\ counter' = counter + 1
    /\ opener' = IF counter = 0 THEN r ELSE opener
    /\ recent' = [recent EXCEPT ![0] = @ + IF counter < MaxRequests THEN 1 ELSE 0]
    /\ UNCHANGED left

\* Variant: the time to live is set at the second request.
IncrNoTtl(r) ==
    /\ gate[r] = "outside"
    /\ Counted(r)
    /\ GateTo(r, IF counter = 1 THEN "opening" ELSE "counted")
    /\ value' = [value EXCEPT ![r] = counter + 1]

\* INCR.  The request that created the key goes on to EXPIRE it.
Incr(r) ==
    /\ gate[r] = "outside"
    /\ Counted(r)
    /\ GateTo(r, IF counter = 0 THEN "opening" ELSE "counted")
    /\ value' = [value EXCEPT ![r] = counter + 1]

\* Variant: the key lives too short.
SetTtlShort(r) ==
    /\ gate[r] = "opening"
    /\ GateTo(r, "counted")
    /\ left' = Window - 1
    /\ UNCHANGED <<value, counter, opener, recent>>

\* EXPIRE.
SetTtl(r) ==
    /\ gate[r] = "opening"
    /\ GateTo(r, "counted")
    /\ left' = Window
    /\ UNCHANGED <<value, counter, opener, recent>>

Decide(r) ==
    /\ gate[r] = "counted"
    /\ Leaves(r, IF Within(value[r]) THEN "in" ELSE "refused")
    /\ UNCHANGED <<counter, left, opener, recent>>

\* Fail-open: INCR or EXPIRE throws, and the server may have carried it out.
Wave(r) ==
    /\ RedisFails
    /\ gate[r] \in {"outside", "opening"}
    /\ Leaves(r, "waved")
    /\ left' \in {left} \cup IF gate[r] = "opening" THEN {Window} ELSE {}
    /\ UNCHANGED <<counter, opener, recent>>

WaveCounted(r) ==
    /\ RedisFails
    /\ gate[r] = "outside"
    /\ Leaves(r, "waved")
    /\ Counted(r)

\* The process stops, and with it the requests it has at the guard.
Inside == {"opening", "counted"}

StopGate ==
    /\ gate' = [r \in Request |-> IF gate[r] \in Inside THEN "lost" ELSE gate[r]]
    /\ value' = [r \in Request |-> 0]
    /\ UNCHANGED <<counter, left, opener, recent>>

\* A tick of time, at the last of which the key expires.
Tick ==
    /\ left' = IF left > 0 THEN left - 1 ELSE 0
    /\ counter' = IF left = 1 THEN 0 ELSE counter
    /\ opener' = IF left = 1 THEN NoRequest ELSE opener
    /\ recent' = [t \in 0..Window - 1 |-> IF t = 0 THEN 0 ELSE recent[t - 1]]
    /\ UNCHANGED <<gate, value>>

GateStep(r) == Incr(r) \/ SetTtl(r) \/ Decide(r) \/ Wave(r) \/ WaveCounted(r)

WindowNext == (\E r \in Request : GateStep(r)) \/ StopGate \/ Tick

WindowSpec == WindowInit /\ [][WindowNext]_windowVars

\* The event loop goes on with a request that has created the key, to EXPIRE or
\* its failure, and time goes on; no request has to come.
FairWindow ==
    /\ WindowSpec
    /\ \A r \in Request : WF_windowVars(gate[r] = "opening" /\ GateStep(r))
    /\ WF_windowVars(Tick)

-----------------------------------------------------------------------------
(* Properties. *)

WindowType ==
    /\ gate \in [Request -> {"outside", "in", "refused", "waved", "lost"} \cup Inside]
    /\ value \in [Request -> Nat]
    /\ counter \in Nat
    /\ left \in 0..Window
    /\ opener \in Request \cup {NoRequest}
    /\ recent \in [0..Window - 1 -> Nat]

\* The window does not slide: its end forgets the requests just counted, so any
\* stretch of Window ticks may admit almost twice the limit, and no more.
UploadsBounded == SumFunction(recent) < 2 * MaxRequests

\* A counter that nothing will ever remove, behind which a business is locked
\* out of uploading, was left by a request that created it and was let
\* through, or lost, before it could give it a time to live.
LockoutHasCause ==
    counter > 0 /\ left = 0 => gate[opener] \in {"opening", "waved", "lost"}

\* Every window closes, but for that.
WindowReopens == counter > 0 ~> counter = 0 \/ gate[opener] \in {"waved", "lost"}
=============================================================================
