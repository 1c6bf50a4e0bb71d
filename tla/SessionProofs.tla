---------------------------- MODULE SessionProofs ----------------------------
(* Proofs about Session: its type, that two calls never get one token, that a *)
(* session belongs to its browser, that an email opens one account, and the   *)
(* two promises of the rotation, for any number of users, browsers and calls, *)
(* any lifetime of a token and any failures.                                  *)
EXTENDS Session, TLAPS

-----------------------------------------------------------------------------
(* The inductive invariant *)

Opens(c) == req[c].op \in {"register", "login"}

\* What the place a call has come to says of it.
StageInv ==
    /\ \A c \in Call :
        /\ pc[c] \in {"idle", "hashing", "seeding", "issuing", "sent", "rotating", "reuse"}
             => made[c] = NoToken
        /\ pc[c] \in {"hashing", "seeding"} => req[c].op = "register"
        /\ pc[c] \in {"rotating", "reuse"} => req[c].op = "refresh" /\ sent[c] # NoToken
        /\ pc[c] = "issuing" => Opens(c) \/ (sent[c] # NoToken /\ c \in rotated)
        /\ Opens(c) \/ pc[c] = "idle" => sent[c] = NoToken
    /\ \A c \in rotated :
        /\ pc[c] \in {"issuing", "answering"} \cup Terminal
        /\ sent[c] # NoToken /\ revoked[sent[c]]

\* A token in the hands of a call or of browser b is a stored one, of a family
\* that b opened.
GoodToken(t, b) ==
    t # NoToken => /\ family[t] # NoCall
                   /\ Opens(family[t])
                   /\ req[family[t]].browser = b /\ req[family[t]].user = t.user

StoreInv ==
    /\ \A c \in Call : GoodToken(made[c], req[c].browser) /\ GoodToken(sent[c], req[c].browser)
    /\ \A b \in Browser : GoodToken(jar[b], b)
    /\ DistinctTokens
    /\ \A t \in Token : family[t] # NoCall => made[family[t]] # NoToken

\* A registration that has created its user.
Created(c) ==
    req[c].op = "register" /\ (pc[c] \in {"seeding", "issuing", "answering"} \/ made[c] # NoToken)

OnceInv ==
    /\ \A c \in Call : Created(c) => req[c].user \in users
    /\ \A c, d \in Call : Created(c) /\ Created(d) /\ req[c].user = req[d].user => c = d
    /\ \A c \in Call : Created(c) /\ pc[c] # "seeding" => req[c].user \in seeded

\* A family grows at one end: of the tokens that no refresh has invalidated and
\* the calls about to store one there is one at most.
Last(t) == \A c \in rotated : sent[c] # t
Pending(c, f) == pc[c] = "issuing" /\ FamilyOf(c) = f
ForkInv ==
    \A f \in Call : Forked(f) \/
        /\ \A t, u \in Token : family[t] = f /\ family[u] = f /\ Last(t) /\ Last(u) => t = u
        /\ \A c, d \in Call : Pending(c, f) /\ Pending(d, f) => c = d
        /\ \A t \in Token, c \in Call : ~(family[t] = f /\ Last(t) /\ Pending(c, f))

\* Once a family is revoked only a call that was overtaken brings it back.
Revived(f) == \E c \in overtaken : made[c] # NoToken /\ family[made[c]] = f
EndInv ==
    \A f \in ended : /\ made[f] # NoToken
                     /\ Revived(f) \/ (Live(f) = {} /\ InFlight(f) \subseteq overtaken)

IInv == TypeOK /\ StageInv /\ StoreInv /\ OnceInv /\ ForkInv /\ EndInv

-----------------------------------------------------------------------------
(* Types *)

LEMMA NoTokenApart == NoToken \notin Token
BY SessionAssumption DEF Token

LEMMA RequestType ==
  ASSUME TypeOK, NEW c \in Call
  PROVE  /\ req[c].op \in {"register", "login", "refresh", "logout"}
         /\ req[c].browser \in Browser /\ req[c].user \in User
BY SessionAssumption DEF TypeOK

LEMMA SignedType ==
  ASSUME TypeOK, NEW c \in Call
  PROVE  Signed(c) \in Token
<1>1. Owner(c) \in User
  BY RequestType DEF TypeOK, Owner, Token
<1> QED  BY <1>1 DEF Signed, Token, TypeOK

LEMMA SentStored ==
  ASSUME TypeOK, StageInv, StoreInv, NEW c \in Call, pc[c] \in {"rotating", "reuse"}
  PROVE  /\ sent[c] \in Token /\ family[sent[c]] \in Call
         /\ FamilyOf(c) = family[sent[c]]
BY DEF TypeOK, StageInv, StoreInv, GoodToken, FamilyOf

LEMMA TypeStep ==
  ASSUME TypeOK, StageInv, StoreInv, [Next]_vars
  PROVE  TypeOK'
<1> USE DEF TypeOK, requests, accounts, table, history, GoTo
<1>1. CASE Tick
  BY <1>1, SessionAssumption DEF Tick
<1>2. CASE Crash
  BY <1>2 DEF Crash, PC, Terminal
<1>3. ASSUME NEW c \in Call, CallStep(c)
      PROVE  TypeOK'
  <2>0. req[c].browser \in Browser /\ req[c].user \in User
    BY RequestType
  <2>1. CASE CheckEmail(c) \/ CreateUser(c) \/ EmailTaken(c) \/ Seed(c)
    BY <2>1, <2>0 DEF CheckEmail, CreateUser, EmailTaken, Seed, PC, Terminal
  <2>2. CASE Login(c) \/ WrongCredentials(c) \/ IssueTaken(c) \/ Refuse(c) \/ FindToken(c)
    BY <2>2 DEF Login, WrongCredentials, IssueTaken, Refuse, FindToken, PC, Terminal
  <2>3. CASE Issue(c)
    <3>1. FamilyOf(c) \in Call \cup {NoCall}
      BY DEF FamilyOf
    <3> QED  BY <2>3, <3>1, SignedType DEF Issue, PC
  <2>4. CASE Send(c)
    BY <2>4, <2>0 DEF Send, PC
  <2>5. CASE RevokeFamily(c)
    <3>1. FamilyOf(c) \in Call
      BY <2>5, SentStored DEF RevokeFamily
    <3> QED  BY <2>5, <3>1 DEF RevokeFamily, PC, Terminal, InFlight
  <2>6. CASE Rotate(c)
    BY <2>6 DEF Rotate, PC
  <2>7. CASE Logout(c)
    BY <2>7 DEF Logout, PC
  <2>8. CASE Answer(c) \/ LoseAnswer(c) \/ Fail(c)
    BY <2>8, <2>0 DEF Answer, LoseAnswer, Fail, PC, Terminal
  <2> QED  BY <1>3, <2>1, <2>2, <2>3, <2>4, <2>5, <2>6, <2>7, <2>8 DEF CallStep
<1>4. CASE UNCHANGED vars
  BY <1>4 DEF vars
<1> QED  BY <1>1, <1>2, <1>3, <1>4 DEF Next

-----------------------------------------------------------------------------
(* Steps that move calls to their end and touch nothing else *)

LEMMA QuietInv ==
  ASSUME IInv, TypeOK',
         UNCHANGED <<requests, made, jar, accounts, table, history>>,
         \A d \in Call : \/ pc'[d] = pc[d] \/ pc'[d] \in Terminal
                         \/ pc[d] = "idle" /\ pc'[d] = "hashing" /\ req[d].op = "register"
  PROVE  IInv'
<1>0. StageInv /\ UNCHANGED <<req, sent, made, revoked, rotated>>
  BY DEF IInv, requests, table, history
<1>1. StageInv'
  <2>1. \A c \in Call : \/ pc'[c] = pc[c] \/ pc'[c] \in Terminal
                        \/ pc[c] = "idle" /\ pc'[c] = "hashing" /\ req[c].op = "register"
    OBVIOUS
  <2>2. ASSUME NEW c \in rotated
        PROVE  c \in Call /\ pc'[c] \in {"issuing", "answering"} \cup Terminal
    <3>1. c \in Call
      BY DEF IInv, TypeOK
    <3> QED  BY <1>0, <2>1, <3>1 DEF StageInv, Terminal
  <2> QED  BY <1>0, <2>1, <2>2 DEF StageInv, Opens, Terminal
<1> USE DEF IInv, requests, accounts, table, history
<1>2. StoreInv'
  BY DEF StoreInv, GoodToken, Opens, DistinctTokens
<1>3. OnceInv'
  BY DEF OnceInv, Created, StageInv, Terminal
<1>4. ForkInv'
  <2>1. \A c, f \in Call : Pending(c, f)' => Pending(c, f)
    BY DEF Pending, FamilyOf, Terminal
  <2>2. \A f \in Call : Forked(f)' = Forked(f)
    BY DEF Forked
  <2>3. \A t \in Token : Last(t)' = Last(t)
    BY DEF Last
  <2> QED  BY <2>1, <2>2, <2>3 DEF ForkInv
<1>5. EndInv'
  <2>1. \A f \in Call : InFlight(f)' \subseteq InFlight(f)
    BY DEF InFlight, FamilyOf, Terminal
  <2>2. \A f \in Call : Live(f)' = Live(f)
    BY DEF Live
  <2>3. \A f \in Call : Revived(f)' = Revived(f)
    BY DEF Revived
  <2> QED  BY <2>1, <2>2, <2>3 DEF EndInv, TypeOK
<1> QED  BY <1>1, <1>2, <1>3, <1>4, <1>5

-----------------------------------------------------------------------------
(* register and login *)

LEMMA CreateUserInv ==
  ASSUME IInv, TypeOK', NEW c \in Call, CreateUser(c)
  PROVE  IInv'
<1>1. /\ pc[c] = "hashing" /\ req[c].op = "register" /\ req[c].user \notin users
      /\ made[c] = NoToken /\ c \notin rotated
      /\ pc' = [pc EXCEPT ![c] = "seeding"] /\ users' = users \cup {req[c].user}
      /\ UNCHANGED <<req, sent, made, jar, seeded, family, revoked, rotated, ended, overtaken>>
  BY DEF CreateUser, GoTo, IInv, StageInv, requests, table, history, Terminal
<1>2. pc'[c] = "seeding" /\ \A d \in Call : d # c => pc'[d] = pc[d]
  BY <1>1 DEF IInv, TypeOK
<1>3. StageInv'
  BY <1>1, <1>2 DEF IInv, StageInv, Opens, TypeOK
<1>4. StoreInv'
  BY <1>1 DEF IInv, StoreInv, GoodToken, Opens, DistinctTokens
<1>5. OnceInv'
  BY <1>1, <1>2 DEF IInv, OnceInv, Created
<1>6. ForkInv'
  BY <1>1, <1>2 DEF IInv, ForkInv, Forked, Last, Pending, FamilyOf
<1>7. EndInv'
  BY <1>1, <1>2 DEF IInv, EndInv, Revived, Live, InFlight, FamilyOf
<1> QED  BY <1>3, <1>4, <1>5, <1>6, <1>7 DEF IInv

\* A family that is about to be opened is empty.
LEMMA NewFamily ==
  ASSUME TypeOK, StageInv, StoreInv, NEW c \in Call, made[c] = NoToken
  PROVE  /\ \A t \in Token : family[t] # c
         /\ \A d \in Call : d # c => ~Pending(d, c)
<1>1. \A t \in Token : family[t] # c
  BY SessionAssumption DEF StoreInv
<1>2. ASSUME NEW d \in Call, d # c, Pending(d, c)
      PROVE  FALSE
  <2>1. sent[d] # NoToken /\ family[sent[d]] = c
    BY <1>2 DEF Pending, FamilyOf
  <2>2. sent[d] \in Token
    BY <2>1 DEF TypeOK
  <2> QED  BY <1>1, <2>1, <2>2
<1> QED  BY <1>1, <1>2

LEMMA OpenInv ==
  ASSUME IInv, TypeOK', NEW c \in Call, Seed(c) \/ Login(c)
  PROVE  IInv'
<1>1. /\ pc[c] \in {"seeding", "idle"} /\ Opens(c)
      /\ made[c] = NoToken /\ sent[c] = NoToken /\ c \notin rotated
      /\ pc' = [pc EXCEPT ![c] = "issuing"]
      /\ UNCHANGED <<req, sent, made, jar, users, family, revoked, rotated, ended, overtaken>>
  BY DEF Seed, Login, GoTo, Asks, Opens, IInv, StageInv, requests, accounts, table, history,
         Terminal
<1>2. pc'[c] = "issuing" /\ \A d \in Call : d # c => pc'[d] = pc[d]
  BY <1>1 DEF IInv, TypeOK
<1>3. StageInv'
  BY <1>1, <1>2 DEF IInv, StageInv, Opens, TypeOK
<1>4. StoreInv'
  BY <1>1 DEF IInv, StoreInv, GoodToken, Opens, DistinctTokens
<1>5. OnceInv'
  <2>1. CASE Seed(c)
    <3>1. req[c].op = "register" /\ seeded' = seeded \cup {req[c].user} /\ pc[c] = "seeding"
      BY <2>1 DEF Seed, IInv, StageInv
    <3> QED  BY <3>1, <1>1, <1>2 DEF IInv, OnceInv, Created
  <2>2. CASE Login(c)
    <3>1. req[c].op = "login" /\ seeded' = seeded
      BY <2>2 DEF Login, Asks, accounts
    <3> QED  BY <3>1, <1>1, <1>2 DEF IInv, OnceInv, Created
  <2> QED  BY <2>1, <2>2
<1>6. /\ \A t \in Token : family[t] # c
      /\ \A d \in Call : d # c => ~Pending(d, c)
  BY <1>1, NewFamily DEF IInv
<1>7. ForkInv'
  <2>1. \A f \in Call : f # c => \A d \in Call : Pending(d, f)' = Pending(d, f)
    BY <1>1, <1>2 DEF Pending, FamilyOf
  <2>2. \A d \in Call : d # c => ~Pending(d, c)'
    BY <1>1, <1>2, <1>6 DEF Pending, FamilyOf
  <2>3. \A f \in Call : Forked(f)' = Forked(f)
    BY <1>1 DEF Forked
  <2>4. \A t \in Token : Last(t)' = Last(t)
    BY <1>1 DEF Last
  <2> QED  BY <1>1, <1>6, <2>1, <2>2, <2>3, <2>4 DEF IInv, ForkInv
<1>8. EndInv'
  <2>1. \A f \in ended : f \in Call /\ f # c
    BY <1>1 DEF IInv, EndInv, TypeOK
  <2>2. \A f \in ended : InFlight(f)' = InFlight(f)
    BY <1>1, <1>2, <2>1 DEF InFlight, FamilyOf
  <2>3. \A f \in ended : Live(f)' = Live(f) /\ Revived(f)' = Revived(f)
    BY <1>1 DEF Live, Revived
  <2> QED  BY <1>1, <2>2, <2>3 DEF IInv, EndInv
<1> QED  BY <1>3, <1>4, <1>5, <1>7, <1>8 DEF IInv

-----------------------------------------------------------------------------
(* generateTokens *)

LEMMA IssueInv ==
  ASSUME IInv, TypeOK', NEW c \in Call, Issue(c)
  PROVE  IInv'
<1>0. /\ Signed(c) \in Token /\ Signed(c).user = Owner(c) /\ FamilyOf(c) \in Call
      /\ pc[c] = "issuing" /\ made[c] = NoToken
  BY SignedType, SessionAssumption
     DEF Issue, Signed, IInv, StageInv, StoreInv, GoodToken, FamilyOf, TypeOK
<1>a. PICK t \in Token, f \in Call : t = Signed(c) /\ f = FamilyOf(c)
  BY <1>0
<1>1. /\ pc[c] = "issuing" /\ family[t] = NoCall /\ made[c] = NoToken
      /\ pc' = [pc EXCEPT ![c] = "answering"]
      /\ made' = [made EXCEPT ![c] = t] /\ family' = [family EXCEPT ![t] = f]
      /\ UNCHANGED <<req, sent, jar, users, seeded, revoked, rotated, ended, overtaken>>
  BY <1>0, <1>a DEF Issue, GoTo, requests, accounts, history
<1>2. t \in Token /\ t.user = Owner(c)
  BY <1>0, <1>a
<1>3. f \in Call /\ (sent[c] = NoToken => f = c /\ Opens(c))
      /\ (sent[c] # NoToken => f = family[sent[c]] /\ sent[c] \in Token /\ c \in rotated)
  BY <1>0, <1>a DEF IInv, StageInv, FamilyOf, TypeOK, Opens
<1>4. /\ pc'[c] = "answering" /\ made'[c] = t /\ family'[t] = f
      /\ \A d \in Call : d # c => pc'[d] = pc[d] /\ made'[d] = made[d]
      /\ \A u \in Token : u # t => family'[u] = family[u]
  BY <1>1, <1>2 DEF IInv, TypeOK
<1>5. \A u \in Token : family[u] # NoCall => family'[u] = family[u]
  BY <1>1, <1>4
<1>6. t # NoToken
  BY <1>2, NoTokenApart
<1>7. StageInv'
  BY <1>1, <1>4 DEF IInv, StageInv, Opens, TypeOK
<1>8. StoreInv'
  <2>1. GoodToken(t, req[c].browser)'
    BY <1>1, <1>2, <1>3, <1>4, SessionAssumption
       DEF IInv, StoreInv, GoodToken, Opens, Owner
  <2>2. \A u \in Token \cup {NoToken}, b \in Browser : GoodToken(u, b) => GoodToken(u, b)'
    BY <1>1, <1>5 DEF GoodToken, Opens
  <2>3. \A d \in Call : GoodToken(made[d], req[d].browser)' /\ GoodToken(sent[d], req[d].browser)'
    BY <1>1, <1>4, <2>1, <2>2, RequestType DEF IInv, StoreInv, TypeOK
  <2>4. \A b \in Browser : GoodToken(jar[b], b)'
    BY <1>1, <2>2 DEF IInv, StoreInv, TypeOK
  <2>5. \A d \in Call : made[d] # t
    BY <1>1, <1>6 DEF IInv, StoreInv, GoodToken
  <2>6. DistinctTokens'
    BY <1>4, <2>5 DEF IInv, StoreInv, DistinctTokens
  <2>7. \A u \in Token : family'[u] # NoCall => made'[family'[u]] # NoToken
    <3>1. ASSUME NEW u \in Token, u # t, family'[u] # NoCall
          PROVE  made'[family'[u]] # NoToken
      BY <3>1, <1>1, <1>4, <1>6 DEF IInv, StoreInv, TypeOK
    <3>2. made'[f] # NoToken
      <4>1. CASE sent[c] = NoToken
        BY <4>1, <1>3, <1>4, <1>6
      <4>2. CASE sent[c] # NoToken
        BY <4>2, <1>1, <1>3, <1>4, <1>6, SessionAssumption DEF IInv, StoreInv
      <4> QED  BY <4>1, <4>2
    <3> QED  BY <3>1, <3>2, <1>4
  <2> QED  BY <2>3, <2>4, <2>6, <2>7 DEF StoreInv
<1>9. OnceInv'
  BY <1>1, <1>4 DEF IInv, OnceInv, Created
<1>10. ForkInv'
  <2>1. ASSUME NEW d \in Call, d # c, NEW g \in Call
        PROVE  Pending(d, g)' = Pending(d, g)
    BY <2>1, <1>1, <1>4, <1>5 DEF Pending, FamilyOf, IInv, StoreInv, GoodToken, TypeOK
  <2>2. \A g \in Call : ~Pending(c, g)'
    BY <1>4 DEF Pending
  <2>3. ASSUME NEW g \in Call, Forked(g)
        PROVE  Forked(g)'
    <3>1. PICK d \in rotated, e \in rotated : d # e /\ sent[d] = sent[e] /\ family[sent[d]] = g
      BY <2>3 DEF Forked
    <3>2. sent[d] \in Token
      BY DEF IInv, TypeOK, StageInv
    <3>3. family'[sent[d]] = g
      BY <3>1, <3>2, <1>5, SessionAssumption
    <3> QED  BY <3>1, <3>3, <1>1 DEF Forked
  <2>4. \A u \in Token : Last(u)' = Last(u)
    BY <1>1 DEF Last
  <2>5. Pending(c, f)
    BY <1>1, <1>a DEF Pending
  <2>6. ASSUME NEW g \in Call, g # f, ~Forked(g)'
        PROVE  /\ \A u, v \in Token : family'[u] = g /\ family'[v] = g /\ Last(u)' /\ Last(v)' => u = v
               /\ \A d, e \in Call : Pending(d, g)' /\ Pending(e, g)' => d = e
               /\ \A u \in Token, d \in Call : ~(family'[u] = g /\ Last(u)' /\ Pending(d, g)')
    <3>1. \A u \in Token : family'[u] = g => family[u] = g
      BY <2>6, <1>4
    <3> QED  BY <2>6, <3>1, <2>1, <2>2, <2>3, <2>4 DEF IInv, ForkInv
  <2>7. ASSUME ~Forked(f)'
        PROVE  /\ \A u, v \in Token : family'[u] = f /\ family'[v] = f /\ Last(u)' /\ Last(v)' => u = v
               /\ \A d \in Call : ~Pending(d, f)'
    <3>1. \A d \in Call : Pending(d, f) => d = c
      BY <2>7, <2>3, <2>5, <1>3 DEF IInv, ForkInv
    <3>2. \A u \in Token : ~(family[u] = f /\ Last(u))
      BY <2>7, <2>3, <2>5, <1>3 DEF IInv, ForkInv
    <3>3. \A u \in Token : family'[u] = f /\ Last(u)' => u = t
      BY <3>2, <2>4, <1>4
    <3> QED  BY <3>1, <3>3, <2>1, <2>2, <1>3
  <2> QED  BY <2>6, <2>7 DEF ForkInv
<1>11. EndInv'
  <2>1. ASSUME NEW g \in ended
        PROVE  /\ g \in Call /\ made'[g] # NoToken
               /\ Revived(g) => Revived(g)'
               /\ InFlight(g)' \subseteq InFlight(g)
    <3>1. g \in Call /\ made'[g] # NoToken
      BY <1>4, <1>6 DEF IInv, EndInv, TypeOK
    <3>2. Revived(g) => Revived(g)'
      BY <1>1, <1>4, <1>5, SessionAssumption, <3>1 DEF Revived, IInv, TypeOK
    <3>3. InFlight(g)' \subseteq InFlight(g)
      BY <1>1, <1>4, <1>5 DEF InFlight, FamilyOf, IInv, StoreInv, GoodToken, TypeOK
    <3> QED  BY <3>1, <3>2, <3>3
  <2>2. ASSUME NEW g \in ended, g = f, ~Revived(g)
        PROVE  Revived(g)'
    <3>1. c \in InFlight(f)
      BY <1>1, <1>a DEF InFlight
    <3>2. c \in overtaken
      BY <2>2, <3>1 DEF IInv, EndInv
    <3> QED  BY <2>2, <3>2, <1>1, <1>4, <1>6 DEF Revived
  <2>3. ASSUME NEW g \in ended, g # f
        PROVE  Live(g)' \subseteq Live(g)
    BY <2>3, <1>1, <1>4 DEF Live
  <2> QED  BY <1>1, <2>1, <2>2, <2>3 DEF IInv, EndInv
<1> QED  BY <1>7, <1>8, <1>9, <1>10, <1>11 DEF IInv

-----------------------------------------------------------------------------
(* refresh and logout *)

LEMMA SendInv ==
  ASSUME IInv, TypeOK', NEW c \in Call, Send(c)
  PROVE  IInv'
<1>1. /\ pc[c] = "idle" /\ req[c].op \in {"refresh", "logout"}
      /\ made[c] = NoToken /\ c \notin rotated
      /\ pc' = [pc EXCEPT ![c] = "sent"] /\ sent' = [sent EXCEPT ![c] = jar[req[c].browser]]
      /\ UNCHANGED <<req, made, jar, users, seeded, family, revoked, rotated, ended, overtaken>>
  BY DEF Send, Asks, GoTo, IInv, StageInv, accounts, table, history, Terminal
<1>2. /\ pc'[c] = "sent" /\ sent'[c] = jar[req[c].browser]
      /\ \A d \in Call : d # c => pc'[d] = pc[d] /\ sent'[d] = sent[d]
  BY <1>1 DEF IInv, TypeOK
<1>3. \A d \in rotated : d \in Call /\ d # c
  BY <1>1 DEF IInv, TypeOK
<1>4. StageInv'
  BY <1>1, <1>2, <1>3 DEF IInv, StageInv, Opens, TypeOK
<1>5. StoreInv'
  <2>1. \A u \in Token \cup {NoToken}, b \in Browser : GoodToken(u, b) => GoodToken(u, b)'
    BY <1>1 DEF GoodToken, Opens
  <2> QED  BY <1>1, <1>2, <2>1, RequestType DEF IInv, StoreInv, TypeOK, DistinctTokens
<1>6. OnceInv'
  BY <1>1, <1>2 DEF IInv, OnceInv, Created
<1>7. ForkInv'
  <2>1. \A f \in Call : Forked(f)' = Forked(f)
    BY <1>1, <1>2, <1>3 DEF Forked
  <2>2. \A t \in Token : Last(t)' = Last(t)
    BY <1>1, <1>2, <1>3 DEF Last
  <2>3. \A d, f \in Call : Pending(d, f)' => Pending(d, f)
    BY <1>1, <1>2 DEF Pending, FamilyOf
  <2> QED  BY <1>1, <2>1, <2>2, <2>3 DEF IInv, ForkInv
<1>8. EndInv'
  BY <1>1, <1>2 DEF IInv, EndInv, Revived, Live, InFlight, FamilyOf
<1> QED  BY <1>4, <1>5, <1>6, <1>7, <1>8 DEF IInv

LEMMA FindTokenInv ==
  ASSUME IInv, TypeOK', NEW c \in Call, FindToken(c)
  PROVE  IInv'
<1>1. /\ pc[c] = "sent" /\ req[c].op = "refresh" /\ sent[c] # NoToken
      /\ made[c] = NoToken /\ c \notin rotated
      /\ pc' = [pc EXCEPT ![c] = IF revoked[sent[c]] THEN "reuse" ELSE "rotating"]
      /\ UNCHANGED <<req, sent, made, jar, users, seeded, family, revoked, rotated, ended,
                     overtaken>>
  BY DEF FindToken, Arrives, Valid, GoTo, IInv, StageInv, requests, accounts, table, history,
         Terminal
<1>2. /\ pc'[c] = IF revoked[sent[c]] THEN "reuse" ELSE "rotating"
      /\ \A d \in Call : d # c => pc'[d] = pc[d]
  BY <1>1 DEF IInv, TypeOK
<1>3. StageInv'
  BY <1>1, <1>2 DEF IInv, StageInv, Opens, TypeOK
<1>4. StoreInv'
  BY <1>1 DEF IInv, StoreInv, GoodToken, Opens, DistinctTokens
<1>5. OnceInv'
  BY <1>1, <1>2 DEF IInv, OnceInv, Created
<1>6. ForkInv'
  <2>1. \A d, f \in Call : Pending(d, f)' => Pending(d, f)
    BY <1>1, <1>2 DEF Pending, FamilyOf
  <2> QED  BY <1>1, <2>1 DEF IInv, ForkInv, Forked, Last
<1>7. EndInv'
  <2>1. \A f \in Call : Live(f)' = Live(f) /\ Revived(f)' = Revived(f)
    BY <1>1 DEF Live, Revived
  <2>2. ASSUME NEW f \in ended, Live(f) = {}
        PROVE  InFlight(f)' \subseteq InFlight(f)
    <3>1. sent[c] \in Token /\ FamilyOf(c)' = family[sent[c]]
      BY <1>1 DEF IInv, TypeOK, FamilyOf
    <3>2. FamilyOf(c)' = f => pc'[c] = "reuse"
      BY <3>1, <2>2, <1>2 DEF Live
    <3> QED  BY <3>2, <1>1, <1>2 DEF InFlight, FamilyOf
  <2> QED  BY <1>1, <2>1, <2>2 DEF IInv, EndInv, TypeOK
<1> QED  BY <1>3, <1>4, <1>5, <1>6, <1>7 DEF IInv

LEMMA RevokeFamilyInv ==
  ASSUME IInv, TypeOK', NEW c \in Call, RevokeFamily(c)
  PROVE  IInv'
<1>0. pc[c] = "reuse" /\ sent[c] \in Token /\ FamilyOf(c) \in Call
      /\ FamilyOf(c) = family[sent[c]]
  BY SentStored DEF RevokeFamily, IInv
<1>a. PICK f \in Call : f = FamilyOf(c)
  BY <1>0
<1>1. /\ made[c] = NoToken /\ c \notin rotated
      /\ pc' = [pc EXCEPT ![c] = "reused"]
      /\ revoked' = [t \in Token |-> revoked[t] \/ family[t] = f]
      /\ ended' = ended \cup {f} /\ overtaken' = overtaken \cup InFlight(f)
      /\ UNCHANGED <<req, sent, made, jar, users, seeded, family, rotated>>
  BY <1>0, <1>a DEF RevokeFamily, GoTo, IInv, StageInv, requests, accounts, Terminal
<1>2. pc'[c] = "reused" /\ \A d \in Call : d # c => pc'[d] = pc[d]
  BY <1>1 DEF IInv, TypeOK
<1>3. \A t \in Token : (revoked[t] => revoked'[t]) /\ (family[t] = f => revoked'[t])
  BY <1>1
<1>4. StageInv'
  <2>1. \A d \in rotated : d \in Call /\ d # c /\ sent[d] \in Token
    BY <1>1 DEF IInv, StageInv, TypeOK
  <2> QED  BY <1>1, <1>2, <1>3, <2>1 DEF IInv, StageInv, Opens, TypeOK, Terminal
<1>5. StoreInv'
  BY <1>1 DEF IInv, StoreInv, GoodToken, Opens, DistinctTokens
<1>6. OnceInv'
  BY <1>1, <1>2 DEF IInv, OnceInv, Created
<1>7. ForkInv'
  <2>1. \A d, g \in Call : Pending(d, g)' => Pending(d, g)
    BY <1>1, <1>2 DEF Pending, FamilyOf
  <2> QED  BY <1>1, <2>1 DEF IInv, ForkInv, Forked, Last
<1>8. EndInv'
  <2>1. \A g \in Call : /\ InFlight(g)' \subseteq InFlight(g)
                        /\ Live(g)' \subseteq Live(g)
                        /\ Revived(g) => Revived(g)'
    BY <1>1, <1>2, <1>3 DEF InFlight, Live, Revived, FamilyOf
  <2>2. Live(f)' = {}
    BY <1>1, <1>3 DEF Live
  <2>3. made[f] # NoToken
    BY <1>0, <1>a, SessionAssumption DEF IInv, StoreInv
  <2>4. \A g \in ended : g \in Call
    BY DEF IInv, TypeOK
  <2> QED  BY <1>1, <2>1, <2>2, <2>3, <2>4 DEF IInv, EndInv
<1> QED  BY <1>4, <1>5, <1>6, <1>7, <1>8 DEF IInv

LEMMA RotateInv ==
  ASSUME IInv, TypeOK', NEW c \in Call, Rotate(c)
  PROVE  IInv'
<1>0. pc[c] = "rotating" /\ sent[c] \in Token /\ FamilyOf(c) = family[sent[c]]
      /\ family[sent[c]] \in Call
  BY SentStored DEF Rotate, IInv
<1>a. PICK t \in Token, f \in Call : t = sent[c] /\ f = family[t]
  BY <1>0
<1>1. /\ made[c] = NoToken /\ c \notin rotated /\ req[c].op = "refresh" /\ t # NoToken
      /\ pc' = [pc EXCEPT ![c] = "issuing"]
      /\ revoked' = [revoked EXCEPT ![t] = TRUE] /\ rotated' = rotated \cup {c}
      /\ UNCHANGED <<req, sent, made, jar, users, seeded, family, ended, overtaken>>
  BY <1>0, <1>a DEF Rotate, GoTo, IInv, StageInv, requests, accounts, Terminal
<1>2. pc'[c] = "issuing" /\ \A d \in Call : d # c => pc'[d] = pc[d]
  BY <1>1 DEF IInv, TypeOK
<1>3. revoked'[t] /\ \A u \in Token : revoked[u] => revoked'[u]
  BY <1>1 DEF IInv, TypeOK
<1>4. StageInv'
  <2>1. \A d \in rotated : d \in Call /\ d # c /\ sent[d] \in Token
    BY <1>1 DEF IInv, StageInv, TypeOK
  <2> QED  BY <1>a, <1>1, <1>2, <1>3, <2>1 DEF IInv, StageInv, Opens, TypeOK
<1>5. StoreInv'
  BY <1>1 DEF IInv, StoreInv, GoodToken, Opens, DistinctTokens
<1>6. OnceInv'
  BY <1>1, <1>2 DEF IInv, OnceInv, Created
<1>7. ForkInv'
  <2>1. \A g \in Call : Forked(g) => Forked(g)'
    BY <1>1 DEF Forked
  <2>2. \A u \in Token : Last(u)' <=> Last(u) /\ u # t
    BY <1>1, <1>a DEF Last
  <2>3. \A d, g \in Call : d # c => Pending(d, g)' = Pending(d, g)
    BY <1>1, <1>2 DEF Pending, FamilyOf
  <2>4. \A g \in Call : Pending(c, g)' => g = f
    BY <1>1, <1>a DEF Pending, FamilyOf
  <2>5. ASSUME ~Forked(f)'
        PROVE  Last(t)
    <3>1. ASSUME NEW d \in rotated, sent[d] = t
          PROVE  FALSE
      <4>1. d # c /\ d \in rotated' /\ c \in rotated'
        BY <1>1
      <4>2. sent'[c] = sent'[d] /\ family'[sent'[c]] = f
        BY <1>1, <1>a, <3>1
      <4> QED  BY <4>1, <4>2, <2>5 DEF Forked
    <3> QED  BY <3>1 DEF Last
  <2>6. ASSUME ~Forked(f)'
        PROVE  /\ \A u \in Token : ~(family'[u] = f /\ Last(u)')
               /\ \A d \in Call : Pending(d, f)' => d = c
    <3>1. Last(t) /\ ~Forked(f)
      BY <2>6, <2>5, <2>1
    <3>2. \A u \in Token : family[u] = f /\ Last(u) => u = t
      BY <3>1, <1>a DEF IInv, ForkInv
    <3>3. \A d \in Call : ~Pending(d, f)
      BY <3>1, <1>a DEF IInv, ForkInv
    <3> QED  BY <3>2, <3>3, <2>2, <2>3, <1>1
  <2>7. ASSUME NEW g \in Call, g # f, ~Forked(g)'
        PROVE  /\ \A u, v \in Token : family'[u] = g /\ family'[v] = g /\ Last(u)' /\ Last(v)' => u = v
               /\ \A d, e \in Call : Pending(d, g)' /\ Pending(e, g)' => d = e
               /\ \A u \in Token, d \in Call : ~(family'[u] = g /\ Last(u)' /\ Pending(d, g)')
    BY <2>7, <2>1, <2>2, <2>3, <2>4, <1>1 DEF IInv, ForkInv
  <2> QED  BY <2>6, <2>7 DEF ForkInv
<1>8. EndInv'
  <2>1. \A g \in ended : InFlight(g)' \subseteq InFlight(g)
    BY <1>0, <1>1, <1>2 DEF InFlight, FamilyOf
  <2>2. \A g \in ended : Live(g)' \subseteq Live(g) /\ Revived(g)' = Revived(g)
    BY <1>1, <1>3 DEF Live, Revived
  <2> QED  BY <1>1, <2>1, <2>2 DEF IInv, EndInv
<1> QED  BY <1>4, <1>5, <1>6, <1>7, <1>8 DEF IInv

LEMMA LogoutInv ==
  ASSUME IInv, TypeOK', NEW c \in Call, Logout(c)
  PROVE  IInv'
<1>1. /\ pc[c] = "sent" /\ req[c].op = "logout" /\ made[c] = NoToken /\ c \notin rotated
      /\ pc' = [pc EXCEPT ![c] = "answering"]
      /\ revoked' = [t \in Token |-> revoked[t] \/ t = sent[c]]
      /\ UNCHANGED <<req, sent, made, jar, users, seeded, family, rotated, ended, overtaken>>
  BY DEF Logout, Arrives, GoTo, IInv, StageInv, requests, accounts, history, Terminal
<1>2. pc'[c] = "answering" /\ \A d \in Call : d # c => pc'[d] = pc[d]
  BY <1>1 DEF IInv, TypeOK
<1>3. \A t \in Token : revoked[t] => revoked'[t]
  BY <1>1
<1>4. StageInv'
  <2>1. \A d \in rotated : d \in Call /\ d # c /\ sent[d] \in Token
    BY <1>1 DEF IInv, StageInv, TypeOK
  <2> QED  BY <1>1, <1>2, <1>3, <2>1 DEF IInv, StageInv, Opens, TypeOK
<1>5. StoreInv'
  BY <1>1 DEF IInv, StoreInv, GoodToken, Opens, DistinctTokens
<1>6. OnceInv'
  BY <1>1, <1>2 DEF IInv, OnceInv, Created
<1>7. ForkInv'
  <2>1. \A d, f \in Call : Pending(d, f)' => Pending(d, f)
    BY <1>1, <1>2 DEF Pending, FamilyOf
  <2> QED  BY <1>1, <2>1 DEF IInv, ForkInv, Forked, Last
<1>8. EndInv'
  <2>1. \A f \in Call : /\ InFlight(f)' \subseteq InFlight(f)
                        /\ Live(f)' \subseteq Live(f) /\ Revived(f)' = Revived(f)
    BY <1>1, <1>2, <1>3 DEF InFlight, Live, Revived, FamilyOf
  <2> QED  BY <1>1, <2>1 DEF IInv, EndInv, TypeOK
<1> QED  BY <1>4, <1>5, <1>6, <1>7, <1>8 DEF IInv

LEMMA AnswerInv ==
  ASSUME IInv, TypeOK', NEW c \in Call, Answer(c)
  PROVE  IInv'
<1>1. /\ pc[c] = "answering" /\ pc' = [pc EXCEPT ![c] = "ok"]
      /\ jar' = [jar EXCEPT ![req[c].browser] = made[c]]
      /\ UNCHANGED <<req, sent, made, users, seeded, family, revoked, rotated, ended, overtaken>>
  BY DEF Answer, GoTo, requests, accounts, table, history
<1>2. pc'[c] = "ok" /\ \A d \in Call : d # c => pc'[d] = pc[d]
  BY <1>1 DEF IInv, TypeOK
<1>3. StageInv'
  BY <1>1, <1>2 DEF IInv, StageInv, Opens, TypeOK, Terminal
<1>4. StoreInv'
  <2>1. \A b \in Browser : jar'[b] = IF b = req[c].browser THEN made[c] ELSE jar[b]
    BY <1>1 DEF IInv, TypeOK
  <2>2. \A u \in Token \cup {NoToken}, b \in Browser : GoodToken(u, b) => GoodToken(u, b)'
    BY <1>1 DEF GoodToken, Opens
  <2> QED  BY <1>1, <2>1, <2>2, RequestType DEF IInv, StoreInv, TypeOK, DistinctTokens
<1>5. OnceInv'
  BY <1>1, <1>2 DEF IInv, OnceInv, Created
<1>6. ForkInv'
  <2>1. \A d, f \in Call : Pending(d, f)' => Pending(d, f)
    BY <1>1, <1>2 DEF Pending, FamilyOf
  <2> QED  BY <1>1, <2>1 DEF IInv, ForkInv, Forked, Last
<1>7. EndInv'
  <2>1. \A f \in Call : /\ InFlight(f)' \subseteq InFlight(f)
                        /\ Live(f)' = Live(f) /\ Revived(f)' = Revived(f)
    BY <1>1, <1>2 DEF InFlight, Live, Revived, FamilyOf
  <2> QED  BY <1>1, <2>1 DEF IInv, EndInv, TypeOK
<1> QED  BY <1>3, <1>4, <1>5, <1>6, <1>7 DEF IInv

-----------------------------------------------------------------------------
(* The theorems *)

LEMMA InitInv == ASSUME Init PROVE IInv
<1>1. TypeOK
  BY SessionAssumption DEF Init, TypeOK, PC
<1> QED  BY <1>1, SessionAssumption
            DEF Init, IInv, StageInv, StoreInv, GoodToken, DistinctTokens, OnceInv, Created,
                ForkInv, Forked, Last, Pending, EndInv

LEMMA StepInv == ASSUME IInv, [Next]_vars PROVE IInv'
<1>0. TypeOK'
  BY TypeStep DEF IInv
<1>1. CASE Tick
  BY <1>0, <1>1, QuietInv DEF Tick, requests
<1>2. CASE Crash
  <2>1. \A d \in Call : pc'[d] = pc[d] \/ pc'[d] \in Terminal
    BY <1>2 DEF Crash, Terminal
  <2> QED  BY <1>0, <1>2, <2>1, QuietInv DEF Crash
<1>3. ASSUME NEW c \in Call, CallStep(c)
      PROVE  IInv'
  <2>1. CASE CheckEmail(c)
    <3>1. \A d \in Call : pc'[d] = pc[d] \/ (pc[d] = "idle" /\ pc'[d] = "hashing" /\ req[d].op = "register")
      BY <2>1 DEF CheckEmail, Asks, GoTo, IInv, TypeOK
    <3> QED  BY <1>0, <2>1, <3>1, QuietInv DEF CheckEmail
  <2>2. CASE EmailTaken(c) \/ WrongCredentials(c) \/ IssueTaken(c) \/ Refuse(c)
             \/ LoseAnswer(c) \/ Fail(c)
    <3>1. \A d \in Call : pc'[d] = pc[d] \/ pc'[d] \in Terminal
      BY <2>2 DEF EmailTaken, WrongCredentials, IssueTaken, Refuse, LoseAnswer, Fail, GoTo,
                  Terminal, IInv, TypeOK
    <3>2. UNCHANGED <<requests, made, jar, accounts, table, history>>
      BY <2>2 DEF EmailTaken, WrongCredentials, IssueTaken, Refuse, LoseAnswer, Fail
    <3> QED  BY <1>0, <3>1, <3>2, QuietInv
  <2>3. CASE CreateUser(c)
    BY <1>0, <2>3, CreateUserInv
  <2>4. CASE Seed(c) \/ Login(c)
    BY <1>0, <2>4, OpenInv
  <2>5. CASE Issue(c)
    BY <1>0, <2>5, IssueInv
  <2>6. CASE Send(c)
    BY <1>0, <2>6, SendInv
  <2>7. CASE FindToken(c)
    BY <1>0, <2>7, FindTokenInv
  <2>8. CASE RevokeFamily(c)
    BY <1>0, <2>8, RevokeFamilyInv
  <2>9. CASE Rotate(c)
    BY <1>0, <2>9, RotateInv
  <2>10. CASE Logout(c)
    BY <1>0, <2>10, LogoutInv
  <2>11. CASE Answer(c)
    BY <1>0, <2>11, AnswerInv
  <2> QED  BY <1>3, <2>1, <2>2, <2>3, <2>4, <2>5, <2>6, <2>7, <2>8, <2>9, <2>10, <2>11
              DEF CallStep
<1>4. CASE UNCHANGED vars
  BY <1>0, <1>4, QuietInv DEF vars, requests, accounts, table, history
<1> QED  BY <1>1, <1>2, <1>3, <1>4 DEF Next

LEMMA Inductive == Spec => []IInv
<1>1. IInv /\ [Next]_vars => IInv'
  BY StepInv
<1> QED  BY InitInv, <1>1, PTL DEF Spec

\* What the invariant says of the rotation.
LEMMA RotationFacts == ASSUME IInv PROVE OneLiveToken /\ EndedIsDead
<1>1. OneLiveToken
  <2>1. ASSUME NEW f \in Call, NEW t \in Live(f)
        PROVE  t \in Token /\ family[t] = f /\ Last(t)
    BY DEF Live, Last, IInv, StageInv
  <2> QED  BY <2>1 DEF OneLiveToken, IInv, ForkInv
<1>2. EndedIsDead
  BY DEF EndedIsDead, IInv, EndInv, Revived
<1> QED  BY <1>1, <1>2

\* Every variable of the sessions keeps its type.
THEOREM TypeCorrect == Spec => []TypeOK
BY Inductive, PTL DEF IInv

\* Whatever overlaps, a family of tokens has one live token, unless two
\* refreshes invalidated the same one.
THEOREM OneLive == Spec => []OneLiveToken
<1>1. IInv => OneLiveToken
  BY RotationFacts
<1> QED  BY Inductive, <1>1, PTL

\* A family revoked as a whole is brought back by nobody but a refresh that had
\* passed the check before.
THEOREM EndedStaysDead == Spec => []EndedIsDead
<1>1. IInv => EndedIsDead
  BY RotationFacts
<1> QED  BY Inductive, <1>1, PTL

\* Tokens signed within a second are equal, but no two calls are given one.
THEOREM TokensDistinct == Spec => []DistinctTokens
<1>1. IInv => DistinctTokens
  BY DEF IInv, StoreInv
<1> QED  BY Inductive, <1>1, PTL

\* A browser's cookie is of a session that this browser opened for that user.
THEOREM BrowserKeepsSession == Spec => []SessionOfBrowser
<1>1. IInv => SessionOfBrowser
  BY DEF IInv, StoreInv, GoodToken, Opens, SessionOfBrowser
<1> QED  BY Inductive, <1>1, PTL

\* An email opens one account, and a token for it is not given before the
\* business has its categories.
THEOREM OneAccount == Spec => []OneAccountPerEmail
<1>1. IInv => OneAccountPerEmail
  BY DEF IInv, OnceInv, Created, OneAccountPerEmail, StageInv
<1> QED  BY Inductive, <1>1, PTL
=============================================================================
