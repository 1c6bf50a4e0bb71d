------------------------------ MODULE Session ------------------------------
(***************************************************************************)
(* AuthService and AuthController: registration, login, the rotation of    *)
(* refresh tokens in families, and logout, over the tables User and        *)
(* RefreshToken and the cookie jars of the browsers.                       *)
(*                                                                         *)
(* A refresh token is a JWT over the user and the second it was signed in. *)
(* It carries nothing else that changes, so a token is the pair of the     *)
(* two, and the table knows it by its hash under a unique index.           *)
(***************************************************************************)
EXTENDS Integers, FiniteSets

CONSTANTS
    User,       \* users, each with an email and a business of its own
    Browser,    \* cookie jars
    Call,       \* requests; a login's family is named after the call
    Workload,   \* the assignments of a request to every call that are explored
    NoCall,     \* no family: the token is not stored
    NoToken,    \* no cookie
    Lifetime,   \* seconds until a token expires, 7 days in the code
    MaxTime,    \* bound on the clock
    Faults      \* what may go wrong: "crash", "database", "network"

ASSUME SessionAssumption ==
    /\ Workload \subseteq [Call -> [op: {"register", "login", "refresh", "logout"},
                                   browser: Browser, user: User]]
    /\ MaxTime \in Nat /\ Lifetime \in Nat
    /\ NoCall \notin Call
    /\ NoToken \notin [user: User, iat: 0..MaxTime]
    /\ Faults \subseteq {"crash", "database", "network"}

VARIABLES
    req,        \* the request of each call; the user is of register and login
    pc,         \* how far each call has come
    sent,       \* the cookie the request came with
    made,       \* the token the call has stored
    jar,        \* the cookie of each browser
    clock,      \* seconds
    users,      \* User rows
    seeded,     \* users whose business has its default categories
    family,     \* RefreshToken.family of each token, NoCall before it is stored
    revoked,    \* RefreshToken.isRevoked
    rotated,    \* history: calls that invalidated the token they came with
    ended,      \* history: families revoked as a whole
    overtaken   \* history: calls that had passed the check when that happened

Token == [user: User, iat: 0..MaxTime]

requests == <<req, sent>>
accounts == <<users, seeded>>
table == <<family, revoked>>
history == <<rotated, ended, overtaken>>
vars == <<req, pc, sent, made, jar, clock, users, seeded, family, revoked,
          rotated, ended, overtaken>>

Terminal == {"ok", "failed", "reused", "lost"}
PC == {"idle", "hashing", "seeding", "issuing", "sent", "rotating", "reuse",
       "answering"} \cup Terminal

Init ==
    /\ req \in Workload
    /\ pc = [c \in Call |-> "idle"]
    /\ sent = [c \in Call |-> NoToken]
    /\ made = [c \in Call |-> NoToken]
    /\ jar = [b \in Browser |-> NoToken]
    /\ clock = 0
    /\ users = {} /\ seeded = {}
    /\ family = [t \in Token |-> NoCall]
    /\ revoked = [t \in Token |-> FALSE]
    /\ rotated = {} /\ ended = {} /\ overtaken = {}

GoTo(c, p) == pc' = [pc EXCEPT ![c] = p]
Asks(c, op) == pc[c] = "idle" /\ req[c].op = op
Active(c) == pc[c] \notin {"idle"} \cup Terminal

\* The user a token is made for, and the family it is made in.
Owner(c) == IF sent[c] = NoToken THEN req[c].user ELSE sent[c].user
FamilyOf(c) == IF sent[c] = NoToken THEN c ELSE family[sent[c]]

-----------------------------------------------------------------------------
(* register and login *)

CheckEmail(c) ==
    /\ Asks(c, "register") /\ req[c].user \notin users
    /\ GoTo(c, "hashing")
    /\ UNCHANGED <<requests, made, jar, clock, accounts, table, history>>

\* Business and user in one transaction; the index on the email decides.
CreateUser(c) ==
    /\ pc[c] = "hashing" /\ req[c].user \notin users
    /\ GoTo(c, "seeding")
    /\ users' = users \cup {req[c].user}
    /\ UNCHANGED <<requests, made, jar, clock, seeded, table, history>>

\* The email is taken, at the check or at the insert.
EmailTaken(c) ==
    /\ Asks(c, "register") \/ pc[c] = "hashing"
    /\ req[c].user \in users
    /\ GoTo(c, "failed")
    /\ UNCHANGED <<requests, made, jar, clock, accounts, table, history>>

\* seedDefaults, outside the transaction.
Seed(c) ==
    /\ pc[c] = "seeding"
    /\ GoTo(c, "issuing")
    /\ seeded' = seeded \cup {req[c].user}
    /\ UNCHANGED <<requests, made, jar, clock, users, table, history>>

Login(c) ==
    /\ Asks(c, "login") /\ req[c].user \in users
    /\ GoTo(c, "issuing")
    /\ UNCHANGED <<requests, made, jar, clock, accounts, table, history>>

\* No such user, or the wrong password.
WrongCredentials(c) ==
    /\ Asks(c, "login")
    /\ GoTo(c, "failed")
    /\ UNCHANGED <<requests, made, jar, clock, accounts, table, history>>

-----------------------------------------------------------------------------
(* generateTokens *)

Signed(c) == [user |-> Owner(c), iat |-> clock]

\* Variant: every token starts a family of its own.
IssueAlone(c) ==
    /\ pc[c] = "issuing" /\ family[Signed(c)] = NoCall
    /\ GoTo(c, "answering")
    /\ made' = [made EXCEPT ![c] = Signed(c)]
    /\ family' = [family EXCEPT ![Signed(c)] = c]
    /\ UNCHANGED <<requests, jar, clock, accounts, revoked, history>>

Issue(c) ==
    /\ pc[c] = "issuing" /\ family[Signed(c)] = NoCall
    /\ GoTo(c, "answering")
    /\ made' = [made EXCEPT ![c] = Signed(c)]
    /\ family' = [family EXCEPT ![Signed(c)] = FamilyOf(c)]
    /\ UNCHANGED <<requests, jar, clock, accounts, revoked, history>>

\* Another call has signed for this user within the second: the same string.
IssueTaken(c) ==
    /\ pc[c] = "issuing" /\ family[Signed(c)] # NoCall
    /\ GoTo(c, "failed")
    /\ UNCHANGED <<requests, made, jar, clock, accounts, table, history>>

-----------------------------------------------------------------------------
(* refresh and logout *)

\* The browser adds the cookie it has when it sends the request.
Send(c) ==
    /\ \E op \in {"refresh", "logout"} : Asks(c, op)
    /\ GoTo(c, "sent")
    /\ sent' = [sent EXCEPT ![c] = jar[req[c].browser]]
    /\ UNCHANGED <<req, made, jar, clock, accounts, table, history>>

Arrives(c, op) == pc[c] = "sent" /\ req[c].op = op
Valid(t) == t # NoToken /\ clock < t.iat + Lifetime

\* No cookie or one that has expired; or a guard refuses the request.
Refuse(c) ==
    /\ pc[c] = "sent"
    /\ GoTo(c, "failed")
    /\ UNCHANGED <<requests, made, jar, clock, accounts, table, history>>

\* Variant: a revoked token is answered for by a branch that is not there.
FindRevoked(c) ==
    /\ Arrives(c, "refresh") /\ Valid(sent[c])
    /\ GoTo(c, IF revoked[sent[c]] THEN "revoked" ELSE "rotating")
    /\ UNCHANGED <<requests, made, jar, clock, accounts, table, history>>

\* isRevoked is read here and looked at no more.
FindToken(c) ==
    /\ Arrives(c, "refresh") /\ Valid(sent[c])
    /\ GoTo(c, IF revoked[sent[c]] THEN "reuse" ELSE "rotating")
    /\ UNCHANGED <<requests, made, jar, clock, accounts, table, history>>

\* Variant: only the token that came is revoked.
RevokeToken(c) ==
    /\ pc[c] = "reuse"
    /\ GoTo(c, "reused")
    /\ revoked' = [revoked EXCEPT ![sent[c]] = TRUE]
    /\ ended' = ended \cup {FamilyOf(c)}
    /\ UNCHANGED <<requests, made, jar, clock, accounts, family, rotated, overtaken>>

\* Calls of family f that go on to store a token.
InFlight(f) == {d \in Call : pc[d] \in {"rotating", "issuing"} /\ FamilyOf(d) = f}

RevokeFamily(c) ==
    /\ pc[c] = "reuse"
    /\ GoTo(c, "reused")
    /\ revoked' = [t \in Token |-> revoked[t] \/ family[t] = FamilyOf(c)]
    /\ ended' = ended \cup {FamilyOf(c)}
    /\ overtaken' = overtaken \cup InFlight(FamilyOf(c))
    /\ UNCHANGED <<requests, made, jar, clock, accounts, family, rotated>>

\* Variant: the token stays valid until the new one is stored, and after.
RotateLater(c) ==
    /\ pc[c] = "rotating"
    /\ GoTo(c, "issuing")
    /\ rotated' = rotated \cup {c}
    /\ UNCHANGED <<requests, made, jar, clock, accounts, table, ended, overtaken>>

\* The token is invalidated, by its id and whatever it has become.  Users are
\* never deleted, so the one it names is there.
Rotate(c) ==
    /\ pc[c] = "rotating"
    /\ GoTo(c, "issuing")
    /\ revoked' = [revoked EXCEPT ![sent[c]] = TRUE]
    /\ rotated' = rotated \cup {c}
    /\ UNCHANGED <<requests, made, jar, clock, accounts, family, ended, overtaken>>

Logout(c) ==
    /\ Arrives(c, "logout")
    /\ GoTo(c, "answering")
    /\ revoked' = [t \in Token |-> revoked[t] \/ t = sent[c]]
    /\ UNCHANGED <<requests, made, jar, clock, accounts, family, history>>

-----------------------------------------------------------------------------

\* The response replaces the cookie, or clears it.
Answer(c) ==
    /\ pc[c] = "answering"
    /\ GoTo(c, "ok")
    /\ jar' = [jar EXCEPT ![req[c].browser] = made[c]]
    /\ UNCHANGED <<requests, made, clock, accounts, table, history>>

\* The response is lost on its way.
LoseAnswer(c) ==
    /\ pc[c] = "answering" /\ "network" \in Faults
    /\ GoTo(c, "lost")
    /\ UNCHANGED <<requests, made, jar, clock, accounts, table, history>>

\* A statement fails before it has an effect.
Fail(c) ==
    /\ "database" \in Faults
    /\ Active(c) /\ pc[c] # "answering"
    /\ GoTo(c, "failed")
    /\ UNCHANGED <<requests, made, jar, clock, accounts, table, history>>

\* The process stops with every call it was at.
Crash ==
    /\ "crash" \in Faults
    /\ \E c \in Call : Active(c)
    /\ pc' = [c \in Call |-> IF Active(c) THEN "lost" ELSE pc[c]]
    /\ UNCHANGED <<requests, made, jar, clock, accounts, table, history>>

Tick ==
    /\ clock < MaxTime
    /\ clock' = clock + 1
    /\ UNCHANGED <<requests, pc, made, jar, accounts, table, history>>

CallStep(c) ==
    \/ CheckEmail(c) \/ CreateUser(c) \/ EmailTaken(c) \/ Seed(c)
    \/ Login(c) \/ WrongCredentials(c) \/ Issue(c) \/ IssueTaken(c)
    \/ Send(c) \/ Refuse(c) \/ FindToken(c) \/ RevokeFamily(c) \/ Rotate(c) \/ Logout(c)
    \/ Answer(c) \/ LoseAnswer(c) \/ Fail(c)

Next == Tick \/ Crash \/ \E c \in Call : CallStep(c)

Spec == Init /\ [][Next]_vars

-----------------------------------------------------------------------------
(* Properties. *)

\* Every variable keeps its type.
TypeOK ==
    /\ req \in Workload
    /\ pc \in [Call -> PC]
    /\ sent \in [Call -> Token \cup {NoToken}]
    /\ made \in [Call -> Token \cup {NoToken}]
    /\ jar \in [Browser -> Token \cup {NoToken}]
    /\ clock \in 0..MaxTime
    /\ users \subseteq User /\ seeded \subseteq User
    /\ family \in [Token -> Call \cup {NoCall}]
    /\ revoked \in [Token -> BOOLEAN]
    /\ rotated \subseteq Call /\ ended \subseteq Call /\ overtaken \subseteq Call

\* Tokens of family f that can still be refreshed, but for their age.
Live(f) == {t \in Token : family[t] = f /\ ~revoked[t]}

\* A family is forked when two refreshes have invalidated the same token.
Forked(f) ==
    \E c, d \in rotated : c # d /\ sent[c] = sent[d] /\ family[sent[c]] = f

\* Rotation: a family has one live token at most, unless two refreshes that
\* came with the same cookie both read it before either invalidated it.
OneLiveToken == \A f \in Call : Forked(f) \/ \A t, u \in Live(f) : t = u

\* A family that was revoked as a whole has no live token, unless a refresh had
\* passed the check before and stored its token afterwards.
EndedIsDead ==
    \A f \in ended : Live(f) # {} =>
        \E c \in overtaken : made[c] # NoToken /\ family[made[c]] = f

\* No two calls are given the same token, although tokens of one user that are
\* signed within a second are equal.
DistinctTokens ==
    \A c, d \in Call : c # d /\ made[c] = made[d] => made[c] = NoToken

\* The cookie of a browser is a stored token, of a family that was started by a
\* register or login of that browser, for that user.
SessionOfBrowser ==
    \A b \in Browser : jar[b] # NoToken =>
        /\ family[jar[b]] # NoCall
        /\ LET r == req[family[jar[b]]] IN
               /\ r.op \in {"register", "login"}
               /\ r.browser = b /\ r.user = jar[b].user

\* Of the registrations with one email one at most gets an account, and its
\* business has the default categories by the time it has a token.
OneAccountPerEmail ==
    \A c, d \in Call :
        /\ req[c].op = "register" /\ req[d].op = "register" /\ req[c].user = req[d].user
        /\ made[c] # NoToken
        => req[c].user \in seeded /\ (c = d \/ made[d] = NoToken)

=============================================================================
