---------------------------- MODULE WhatsappLink ----------------------------
(***************************************************************************)
(* SettingsService: how a user links a WhatsApp number.  linkWhatsapp puts *)
(* a code for a number in Redis and sends it there, verifyWhatsapp takes   *)
(* the code back and marks the number verified, unlinkWhatsapp clears it.  *)
(* Every await is a step, so calls of one user, and of users of a business *)
(* that share its flag waLinked, interleave and may stop half way.         *)
(*                                                                         *)
(* A code is random over 900000 values; here it is the call that drew it,  *)
(* so codes never collide and are never guessed.                           *)
(***************************************************************************)
EXTENDS Naturals

CONSTANTS
    User, Business, Phone, Call,
    BusinessOf,     \* User.businessId
    Workload,       \* the assignments of a request to every call
    NoPhone,        \* User.whatsappPhone is null
    NoCode,         \* no code in Redis, or a wrong one typed
    MaxAttempts     \* OTP_MAX_ATTEMPTS, 5 in the code

ASSUME LinkAssumption ==
    /\ BusinessOf \in [User -> Business]
    /\ Workload \subseteq
         [Call -> [op: {"link", "verify", "unlink"}, user: User, phone: Phone]]
    /\ NoPhone \notin Phone /\ NoCode \notin Call
    /\ MaxAttempts \in Nat

VARIABLES
    req,        \* the request of each call; only link uses the phone
    pc,
    typed,      \* the code a verify came with
    seen,       \* the code the verify found in Redis
    tries,      \* the attempt the verify is, by its own counting
    phone,      \* User.whatsappPhone
    verified,   \* User.waVerified
    linked,     \* Business.waLinked
    otp,        \* wa_otp:<user>; the number stored with it is the code's
    attempts,   \* wa_otp_attempts:<user>, 0 when there is none
    inbox,      \* codes that reached the phone they were sent to
    tested,     \* history: how often each code was compared with an input
    overlapped, \* history: users who had two calls in flight
    late        \* history: businesses whose flag was set while an unlink,
                \* having counted no verified user, was about to clear it

request == <<req, typed, seen, tries>>
rows == <<phone, verified, linked>>
redis == <<otp, attempts>>
history == <<tested, overlapped, late>>
vars == <<req, pc, typed, seen, tries, phone, verified, linked, otp, attempts,
          inbox, tested, overlapped, late>>

Terminal == {"ok", "failed"}
PC == {"idle", "storing code", "resetting", "naming", "sending", "counting",
       "storing count", "spent", "right", "proving", "unlinking",
       "counting users", "clearing"} \cup Terminal

Init ==
    /\ req \in Workload
    /\ pc = [c \in Call |-> "idle"]
    /\ typed = [c \in Call |-> NoCode]
    /\ seen = [c \in Call |-> NoCode]
    /\ tries = [c \in Call |-> 0]
    /\ phone = [u \in User |-> NoPhone]
    /\ verified = [u \in User |-> FALSE]
    /\ linked = [b \in Business |-> FALSE]
    /\ otp = [u \in User |-> NoCode]
    /\ attempts = [u \in User |-> 0]
    /\ inbox = {}
    /\ tested = [c \in Call |-> 0]
    /\ overlapped = {} /\ late = {}

Of(c) == req[c].user
GoTo(c, p) == pc' = [pc EXCEPT ![c] = p]
Active(c) == pc[c] \notin {"idle"} \cup Terminal

\* A call begins, next to the others its user has in flight.
Begin(c, op) ==
    /\ pc[c] = "idle" /\ req[c].op = op
    /\ overlapped' = overlapped \cup
         {u \in {Of(c)} : \E d \in Call : Active(d) /\ Of(d) = u}

-----------------------------------------------------------------------------
(* linkWhatsapp *)

\* Refused when another user has verified the number.
CheckPhone(c) ==
    /\ Begin(c, "link")
    /\ GoTo(c, IF \E u \in User \ {Of(c)} : verified[u] /\ phone[u] = req[c].phone
               THEN "failed" ELSE "storing code")
    /\ UNCHANGED <<request, rows, redis, inbox, tested, late>>

SetCode(c) ==
    /\ pc[c] = "storing code"
    /\ GoTo(c, "resetting")
    /\ otp' = [otp EXCEPT ![Of(c)] = c]
    /\ UNCHANGED <<request, rows, attempts, inbox, history>>

\* The last redis.del of linkWhatsapp and of a verifyWhatsapp that succeeds.
ResetAttempts(c) ==
    /\ pc[c] = "resetting"
    /\ GoTo(c, IF req[c].op = "link" THEN "naming" ELSE "proving")
    /\ attempts' = [attempts EXCEPT ![Of(c)] = 0]
    /\ UNCHANGED <<request, rows, otp, inbox, history>>

\* The index on User.whatsappPhone counts numbers that are not verified too.
PhoneFree(u, p) == \A v \in User \ {u} : phone[v] # p

NamePhone(c) ==
    /\ pc[c] = "naming"
    /\ IF PhoneFree(Of(c), req[c].phone)
       THEN /\ GoTo(c, "sending")
            /\ phone' = [phone EXCEPT ![Of(c)] = req[c].phone]
            /\ verified' = [verified EXCEPT ![Of(c)] = FALSE]
       ELSE GoTo(c, "failed") /\ UNCHANGED <<phone, verified>>
    /\ UNCHANGED <<request, linked, redis, inbox, history>>

\* sendReply logs a failure and returns.
Send(c) ==
    /\ pc[c] = "sending"
    /\ GoTo(c, "ok")
    /\ UNCHANGED <<request, rows, redis, inbox, history>>

\* The message arrives, some time or never.
Deliver(c) ==
    /\ req[c].op = "link" /\ pc[c] = "ok" /\ c \notin inbox
    /\ inbox' = inbox \cup {c}
    /\ UNCHANGED <<request, pc, rows, redis, history>>

-----------------------------------------------------------------------------
(* verifyWhatsapp *)

\* The user types a code that arrived, or something else.
ReadCode(c) ==
    /\ Begin(c, "verify")
    /\ \E k \in inbox \cup {NoCode} : typed' = [typed EXCEPT ![c] = k]
    /\ seen' = [seen EXCEPT ![c] = otp[Of(c)]]
    /\ GoTo(c, IF otp[Of(c)] = NoCode THEN "failed" ELSE "counting")
    /\ UNCHANGED <<req, tries, rows, redis, inbox, tested, late>>

ReadAttempts(c) ==
    /\ pc[c] = "counting"
    /\ GoTo(c, "storing count")
    /\ tries' = [tries EXCEPT ![c] = attempts[Of(c)] + 1]
    /\ UNCHANGED <<req, typed, seen, rows, redis, inbox, history>>

\* Variant: the attempts are counted, but the limit is not looked at.
StoreUnlimited(c) ==
    /\ pc[c] = "storing count"
    /\ attempts' = [attempts EXCEPT ![Of(c)] = tries[c]]
    /\ GoTo(c, IF typed[c] = seen[c] THEN "right" ELSE "failed")
    /\ tested' = [tested EXCEPT ![seen[c]] = @ + 1]
    /\ UNCHANGED <<request, rows, otp, inbox, overlapped, late>>

\* Stores the count it has made and, within the limit, compares the code.
StoreAttempts(c) ==
    /\ pc[c] = "storing count"
    /\ attempts' = [attempts EXCEPT ![Of(c)] = tries[c]]
    /\ IF tries[c] > MaxAttempts
       THEN GoTo(c, "spent") /\ UNCHANGED tested
       ELSE /\ GoTo(c, IF typed[c] = seen[c] THEN "right" ELSE "failed")
            /\ tested' = [tested EXCEPT ![seen[c]] = @ + 1]
    /\ UNCHANGED <<request, rows, otp, inbox, overlapped, late>>

\* Variant: a code that was right stays in Redis.
DropSpentCode(c) ==
    /\ pc[c] \in {"spent", "right"}
    /\ GoTo(c, IF pc[c] = "spent" THEN "failed" ELSE "resetting")
    /\ otp' = [otp EXCEPT ![Of(c)] = IF pc[c] = "spent" THEN NoCode ELSE @]
    /\ UNCHANGED <<request, rows, attempts, inbox, history>>

\* Whatever code is there now: not only the one the call has seen.
DropCode(c) ==
    /\ pc[c] \in {"spent", "right"}
    /\ GoTo(c, IF pc[c] = "spent" THEN "failed" ELSE "resetting")
    /\ otp' = [otp EXCEPT ![Of(c)] = NoCode]
    /\ UNCHANGED <<request, rows, attempts, inbox, history>>

\* Variant: keeps the number the row has.
ProveRow(c) ==
    /\ pc[c] = "proving"
    /\ GoTo(c, "ok")
    /\ verified' = [verified EXCEPT ![Of(c)] = TRUE]
    /\ linked' = [linked EXCEPT ![BusinessOf[Of(c)]] = TRUE]
    /\ UNCHANGED <<request, phone, redis, inbox, history>>

\* User and business in one transaction.
Prove(c) ==
    LET u == Of(c)  b == BusinessOf[u]  p == req[seen[c]].phone IN
    /\ pc[c] = "proving"
    /\ IF PhoneFree(u, p)
       THEN /\ GoTo(c, "ok")
            /\ phone' = [phone EXCEPT ![u] = p]
            /\ verified' = [verified EXCEPT ![u] = TRUE]
            /\ linked' = [linked EXCEPT ![b] = TRUE]
            /\ late' = late \cup
                 {x \in {b} : \E d \in Call : pc[d] = "clearing" /\ BusinessOf[Of(d)] = x}
       ELSE GoTo(c, "failed") /\ UNCHANGED <<rows, late>>
    /\ UNCHANGED <<request, redis, inbox, tested, overlapped>>

-----------------------------------------------------------------------------
(* unlinkWhatsapp *)

ReadUser(c) ==
    /\ Begin(c, "unlink")
    /\ GoTo(c, IF verified[Of(c)] THEN "unlinking" ELSE "failed")
    /\ UNCHANGED <<request, rows, redis, inbox, tested, late>>

Unlink(c) ==
    /\ pc[c] = "unlinking"
    /\ GoTo(c, "counting users")
    /\ phone' = [phone EXCEPT ![Of(c)] = NoPhone]
    /\ verified' = [verified EXCEPT ![Of(c)] = FALSE]
    /\ UNCHANGED <<request, linked, redis, inbox, history>>

\* Variant: nobody else is counted.
CountNobody(c) ==
    /\ pc[c] = "counting users"
    /\ GoTo(c, "clearing")
    /\ UNCHANGED <<request, rows, redis, inbox, history>>

CountUsers(c) ==
    /\ pc[c] = "counting users"
    /\ GoTo(c, IF \E u \in User : BusinessOf[u] = BusinessOf[Of(c)] /\ verified[u]
               THEN "ok" ELSE "clearing")
    /\ UNCHANGED <<request, rows, redis, inbox, history>>

ClearFlag(c) ==
    /\ pc[c] = "clearing"
    /\ GoTo(c, "ok")
    /\ linked' = [linked EXCEPT ![BusinessOf[Of(c)]] = FALSE]
    /\ UNCHANGED <<request, phone, verified, redis, inbox, history>>

-----------------------------------------------------------------------------

\* The database or Redis refuses, or the process stops.
Fail(c) ==
    /\ Active(c)
    /\ GoTo(c, "failed")
    /\ UNCHANGED <<request, rows, redis, inbox, history>>

ExpireCode(u) ==
    /\ otp[u] # NoCode
    /\ otp' = [otp EXCEPT ![u] = NoCode]
    /\ UNCHANGED <<request, pc, rows, attempts, inbox, history>>

\* Every attempt renews the count for as long as a code lives, so the count
\* outlives a code it was renewed under; by more, it is assumed, than a call
\* takes from reading the one to reading the other.
ExpireAttempts(u) ==
    /\ attempts[u] # 0
    /\ otp[u] # NoCode => tested[otp[u]] = 0
    /\ \A c \in Call : Of(c) = u => pc[c] # "counting"
    /\ attempts' = [attempts EXCEPT ![u] = 0]
    /\ UNCHANGED <<request, pc, rows, otp, inbox, history>>

CallStep(c) ==
    \/ CheckPhone(c) \/ SetCode(c) \/ ResetAttempts(c) \/ NamePhone(c) \/ Send(c)
    \/ Deliver(c)
    \/ ReadCode(c) \/ ReadAttempts(c) \/ StoreAttempts(c) \/ DropCode(c) \/ Prove(c)
    \/ ReadUser(c) \/ Unlink(c) \/ CountUsers(c) \/ ClearFlag(c)
    \/ Fail(c)

Next ==
    \/ \E c \in Call : CallStep(c)
    \/ \E u \in User : ExpireCode(u) \/ ExpireAttempts(u)

Spec == Init /\ [][Next]_vars

-----------------------------------------------------------------------------
(* Properties. *)

\* Every variable keeps its type.
TypeOK ==
    /\ req \in Workload
    /\ pc \in [Call -> PC]
    /\ typed \in [Call -> Call \cup {NoCode}]
    /\ seen \in [Call -> Call \cup {NoCode}]
    /\ tries \in [Call -> Nat]
    /\ phone \in [User -> Phone \cup {NoPhone}]
    /\ verified \in [User -> BOOLEAN]
    /\ linked \in [Business -> BOOLEAN]
    /\ otp \in [User -> Call \cup {NoCode}]
    /\ attempts \in [User -> Nat]
    /\ inbox \subseteq Call
    /\ tested \in [Call -> Nat]
    /\ overlapped \subseteq User /\ late \subseteq Business

\* Call d of user u brought the code that was sent to phone p for u.
Proves(d, u, p) ==
    /\ Of(d) = u /\ req[d].op = "verify"
    /\ typed[d] = seen[d] /\ typed[d] \in inbox
    /\ Of(typed[d]) = u /\ req[typed[d]].phone = p

\* A number is marked verified only for a user who brought back a code that
\* arrived at that very number, however links and verifies overlap.
ProvenPhone ==
    \A u \in User : verified[u] => \E d \in Call : Proves(d, u, phone[u])

\* The bot finds the user by the number: it is verified for one user at most.
OneUserPerPhone ==
    \A u, v \in User : verified[u] /\ verified[v] /\ phone[u] = phone[v] => u = v

\* The business of a verified user has its flag set, unless the flag was
\* set between the count and the write of an unlink.
VerifiedIsLinked ==
    \A u \in User : verified[u] => linked[BusinessOf[u]] \/ BusinessOf[u] \in late

\* A code is compared OTP_MAX_ATTEMPTS times at most for a user who sends one
\* call after the other, whatever fails, expires or is linked again.
AttemptLimit ==
    \A k \in Call : req[k].op = "link" /\ Of(k) \notin overlapped => tested[k] <= MaxAttempts

\* A code links a number once, for a user who sends one call after the other,
\* also when a call stops half way.
CodeUsedOnce ==
    \A c, d \in Call :
        /\ c # d /\ Of(c) = Of(d) /\ Of(c) \notin overlapped
        /\ req[c].op = "verify" /\ req[d].op = "verify"
        /\ pc[c] = "ok" /\ pc[d] = "ok"
        => seen[c] # seen[d]
=============================================================================
