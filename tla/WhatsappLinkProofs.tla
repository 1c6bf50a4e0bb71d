------------------------- MODULE WhatsappLinkProofs -------------------------
(* Proofs about WhatsappLink: its type, that only a number that was proven is *)
(* marked verified, that it is one user's, and that the flag of the business  *)
(* follows its users; and, for a user who sends one call after the other,     *)
(* that the attempts are limited and a code is good for one use; for any      *)
(* number of users, businesses, numbers and calls.                            *)
EXTENDS WhatsappLink, TLAPS

-----------------------------------------------------------------------------
(* The inductive invariant *)

IsLink(k, u) == req[k].op = "link" /\ Of(k) = u

\* What the place a call has come to says of it.
StageInv ==
    \A c \in Call :
        /\ pc[c] \in {"storing code", "naming", "sending"} => req[c].op = "link"
        /\ pc[c] \in {"unlinking", "counting users", "clearing"} => req[c].op = "unlink"
        /\ pc[c] = "idle" => typed[c] = NoCode
        /\ pc[c] \in {"counting", "storing count", "spent", "right", "proving"}
             => req[c].op = "verify" /\ seen[c] # NoCode
        /\ pc[c] = "resetting" /\ req[c].op # "link"
             => req[c].op = "verify" /\ seen[c] # NoCode

\* A code belongs to the user whose key holds it and who has read it.
CodeInv ==
    /\ \A u \in User : otp[u] # NoCode => IsLink(otp[u], u)
    /\ \A c \in Call : seen[c] # NoCode => IsLink(seen[c], Of(c))
    /\ \A c \in Call : typed[c] # NoCode => typed[c] \in inbox

\* A call that is past the comparison has proven the number of its code.
Past(c) == pc[c] \in {"right", "proving"} \/ (pc[c] = "resetting" /\ req[c].op # "link")
ProofInv ==
    /\ \A c \in Call : Past(c) => Proves(c, Of(c), req[seen[c]].phone)
    /\ ProvenPhone

\* Numbers are distinct before they are verified.
PhoneInv ==
    /\ \A u, v \in User : phone[u] = phone[v] /\ phone[u] # NoPhone => u = v
    /\ \A u \in User : verified[u] => phone[u] # NoPhone

\* An unlink that is about to clear the flag has no verified user to fear, but
\* those that came late.
FlagInv ==
    /\ VerifiedIsLinked
    /\ \A c \in Call, u \in User :
        pc[c] = "clearing" /\ BusinessOf[u] = BusinessOf[Of(c)] /\ verified[u]
          => BusinessOf[u] \in late

IInv == TypeOK /\ StageInv /\ CodeInv /\ ProofInv /\ PhoneInv /\ FlagInv

-----------------------------------------------------------------------------

LEMMA RequestType ==
  ASSUME TypeOK, NEW c \in Call
  PROVE  /\ req[c].op \in {"link", "verify", "unlink"}
         /\ Of(c) \in User /\ req[c].phone \in Phone /\ BusinessOf[Of(c)] \in Business
BY LinkAssumption DEF TypeOK, Of

LEMMA TypeStep ==
  ASSUME TypeOK, StageInv, [Next]_vars
  PROVE  TypeOK'
<1> USE DEF TypeOK, request, rows, redis, history, GoTo
<1>1. ASSUME NEW c \in Call, CallStep(c)
      PROVE  TypeOK'
  <2>0. /\ Of(c) \in User /\ req[c].phone \in Phone /\ BusinessOf[Of(c)] \in Business
        /\ pc[c] \in PC
    BY RequestType
  <2>1. CASE CheckPhone(c)
    BY <2>1, <2>0 DEF CheckPhone, Begin, PC, Terminal
  <2>2. CASE SetCode(c)
    BY <2>2, <2>0 DEF SetCode, PC
  <2>14. CASE Send(c)
    BY <2>14 DEF Send, PC, Terminal
  <2>13. CASE ResetAttempts(c)
    <3>1. pc' \in [Call -> PC]
      BY <2>13 DEF ResetAttempts, PC
    <3> QED  BY <2>13, <2>0, <3>1 DEF ResetAttempts
  <2>12. CASE NamePhone(c)
    <3>1. CASE PhoneFree(Of(c), req[c].phone)
      BY <2>12, <2>0, <3>1 DEF NamePhone, PC
    <3>2. CASE ~PhoneFree(Of(c), req[c].phone)
      BY <2>12, <3>2 DEF NamePhone, PC, Terminal
    <3> QED  BY <3>1, <3>2
  <2>3. CASE Deliver(c)
    BY <2>3 DEF Deliver
  <2>4. CASE ReadCode(c)
    BY <2>4, <2>0 DEF ReadCode, Begin, PC, Terminal
  <2>5. CASE ReadAttempts(c)
    <3>1. attempts[Of(c)] + 1 \in Nat
      BY <2>0
    <3>2. tries' \in [Call -> Nat]
      BY <2>5, <3>1 DEF ReadAttempts
    <3> QED  BY <2>5, <3>2 DEF ReadAttempts, PC
  <2>6. CASE StoreAttempts(c)
    <3>1. seen[c] \in Call /\ tries[c] \in Nat
      BY <2>6 DEF StoreAttempts, StageInv
    <3>2. pc' \in [Call -> PC]
      BY <2>6 DEF StoreAttempts, PC, Terminal
    <3>3. tested[seen[c]] + 1 \in Nat
      BY <3>1
    <3>4. tested' = tested \/ tested' = [tested EXCEPT ![seen[c]] = tested[seen[c]] + 1]
      BY <2>6 DEF StoreAttempts
    <3>5. tested' \in [Call -> Nat]
      BY <3>3, <3>4
    <3> QED  BY <2>6, <2>0, <3>1, <3>2, <3>5 DEF StoreAttempts
  <2>7. CASE DropCode(c)
    <3>1. pc' \in [Call -> PC]
      BY <2>7 DEF DropCode, PC, Terminal
    <3> QED  BY <2>7, <2>0, <3>1 DEF DropCode
  <2>8. CASE Prove(c)
    <3>1. req[seen[c]].phone \in Phone
      BY <2>8, RequestType DEF Prove, StageInv
    <3> QED  BY <2>8, <2>0, <3>1 DEF Prove, PC, Terminal
  <2>9. CASE ReadUser(c)
    BY <2>9, <2>0 DEF ReadUser, Begin, PC, Terminal
  <2>10. CASE Unlink(c) \/ CountUsers(c) \/ ClearFlag(c)
    BY <2>10, <2>0 DEF Unlink, CountUsers, ClearFlag, PC, Terminal
  <2>11. CASE Fail(c)
    BY <2>11 DEF Fail, PC, Terminal
  <2> QED  BY <1>1, <2>1, <2>2, <2>3, <2>4, <2>5, <2>6, <2>7, <2>8, <2>9, <2>10, <2>11,
              <2>12, <2>13, <2>14
              DEF CallStep
<1>2. ASSUME NEW u \in User, ExpireCode(u) \/ ExpireAttempts(u)
      PROVE  TypeOK'
  BY <1>2 DEF ExpireCode, ExpireAttempts
<1>3. CASE UNCHANGED vars
  BY <1>3 DEF vars
<1> QED  BY <1>1, <1>2, <1>3 DEF Next

-----------------------------------------------------------------------------
(* The codes *)

\* What a step can do to the codes a call holds.
LEMMA HeldCodes ==
  ASSUME TypeOK, StageInv, [Next]_vars, NEW c \in Call
  PROVE  /\ req' = req /\ inbox \subseteq inbox'
         /\ \/ typed'[c] = typed[c] /\ seen'[c] = seen[c]
            \/ /\ pc[c] = "idle" /\ req[c].op = "verify" /\ seen'[c] = otp[Of(c)]
               /\ typed'[c] \in inbox \cup {NoCode} /\ pc'[c] \in {"failed", "counting"}
               /\ otp[Of(c)] # NoCode \/ pc'[c] = "failed"
<1> USE DEF TypeOK, request, rows, redis, history, GoTo
<1>1. ASSUME NEW d \in Call, CallStep(d)
      PROVE  /\ req' = req /\ inbox \subseteq inbox'
             /\ \/ typed' = typed /\ seen' = seen
                \/ ReadCode(d)
  BY <1>1 DEF CallStep, CheckPhone, SetCode, ResetAttempts, NamePhone, Send, Deliver,
       ReadCode, ReadAttempts, StoreAttempts, DropCode, Prove, ReadUser, Unlink,
       CountUsers, ClearFlag, Fail
<1>2. ASSUME NEW d \in Call, ReadCode(d)
      PROVE  \/ typed'[c] = typed[c] /\ seen'[c] = seen[c]
             \/ /\ pc[c] = "idle" /\ req[c].op = "verify" /\ seen'[c] = otp[Of(c)]
                /\ typed'[c] \in inbox \cup {NoCode} /\ pc'[c] \in {"failed", "counting"}
                /\ otp[Of(c)] # NoCode \/ pc'[c] = "failed"
  BY <1>2 DEF ReadCode, Begin
<1>3. ASSUME NEW u \in User, ExpireCode(u) \/ ExpireAttempts(u)
      PROVE  UNCHANGED <<req, inbox, typed, seen>>
  BY <1>3 DEF ExpireCode, ExpireAttempts
<1>4. CASE UNCHANGED vars
  BY <1>4 DEF vars
<1> QED  BY <1>1, <1>2, <1>3, <1>4 DEF Next

\* Where a step can take a call.
LEMMA Moves ==
  ASSUME TypeOK, [Next]_vars, NEW c \in Call
  PROVE  \/ pc'[c] = pc[c] \/ pc'[c] \in Terminal
         \/ pc[c] = "idle" /\ req[c].op = "link" /\ pc'[c] = "storing code"
         \/ pc[c] = "idle" /\ ReadCode(c) /\ otp[Of(c)] # NoCode /\ pc'[c] = "counting"
         \/ pc[c] = "idle" /\ req[c].op = "unlink" /\ pc'[c] = "unlinking"
         \/ pc[c] = "storing code" /\ pc'[c] = "resetting"
         \/ pc[c] = "resetting" /\ pc'[c] = IF req[c].op = "link" THEN "naming" ELSE "proving"
         \/ pc[c] = "naming" /\ pc'[c] = "sending"
         \/ pc[c] = "counting" /\ pc'[c] = "storing count"
         \/ pc[c] = "storing count" /\ pc'[c] = "spent"
         \/ pc[c] = "storing count" /\ typed[c] = seen[c] /\ pc'[c] = "right"
         \/ pc[c] = "right" /\ pc'[c] = "resetting"
         \/ pc[c] = "unlinking" /\ pc'[c] = "counting users"
         \/ pc[c] = "counting users" /\ CountUsers(c) /\ pc'[c] = "clearing"
<1> USE DEF TypeOK, GoTo, Terminal
<1>1. ASSUME NEW d \in Call, CallStep(d), d # c
      PROVE  pc'[c] = pc[c]
  BY <1>1 DEF CallStep, CheckPhone, SetCode, ResetAttempts, NamePhone, Send, Deliver,
       ReadCode, ReadAttempts, StoreAttempts, DropCode, Prove, ReadUser, Unlink,
       CountUsers, ClearFlag, Fail
<1>2. CASE CheckPhone(c) \/ SetCode(c) \/ ResetAttempts(c) \/ NamePhone(c)
  BY <1>2 DEF CheckPhone, Begin, SetCode, ResetAttempts, NamePhone
<1>3. CASE Send(c) \/ Deliver(c) \/ ReadAttempts(c) \/ StoreAttempts(c)
  BY <1>3 DEF Send, Deliver, ReadAttempts, StoreAttempts
<1>4. CASE ReadCode(c)
  BY <1>4 DEF ReadCode, Begin
<1>5. CASE DropCode(c) \/ Prove(c) \/ ReadUser(c) \/ Unlink(c)
  BY <1>5 DEF DropCode, Prove, ReadUser, Begin, Unlink
<1>6. CASE CountUsers(c) \/ ClearFlag(c) \/ Fail(c)
  BY <1>6 DEF CountUsers, ClearFlag, Fail
<1>7. ASSUME NEW u \in User, ExpireCode(u) \/ ExpireAttempts(u)
      PROVE  pc' = pc
  BY <1>7 DEF ExpireCode, ExpireAttempts
<1>8. CASE UNCHANGED vars
  BY <1>8 DEF vars
<1> QED  BY <1>1, <1>2, <1>3, <1>4, <1>5, <1>6, <1>7, <1>8 DEF Next, CallStep

LEMMA StageStep ==
  ASSUME TypeOK, StageInv, [Next]_vars
  PROVE  StageInv'
<1> SUFFICES ASSUME NEW c \in Call
             PROVE  /\ pc'[c] \in {"storing code", "naming", "sending"} => req'[c].op = "link"
                    /\ pc'[c] \in {"unlinking", "counting users", "clearing"}
                         => req'[c].op = "unlink"
                    /\ pc'[c] = "idle" => typed'[c] = NoCode
                    /\ pc'[c] \in {"counting", "storing count", "spent", "right", "proving"}
                         => req'[c].op = "verify" /\ seen'[c] # NoCode
                    /\ pc'[c] = "resetting" /\ req'[c].op # "link"
                         => req'[c].op = "verify" /\ seen'[c] # NoCode
  BY DEF StageInv
<1>1. CASE typed'[c] = typed[c] /\ seen'[c] = seen[c] /\ ~ReadCode(c)
  BY <1>1, HeldCodes, Moves DEF StageInv, Terminal
<1>2. CASE ReadCode(c)
  BY <1>2, HeldCodes DEF ReadCode, Begin, GoTo, TypeOK
<1>3. CASE ~ReadCode(c) /\ ~(typed'[c] = typed[c] /\ seen'[c] = seen[c])
  BY <1>3, HeldCodes
<1> QED  BY <1>1, <1>2, <1>3

\* Requests stay as they are and the inbox only fills.
LEMMA Frame ==
  ASSUME TypeOK, StageInv, [Next]_vars
  PROVE  req' = req /\ inbox \subseteq inbox' /\ \A c \in Call : Of(c)' = Of(c)
<1>1. req' = req /\ inbox \subseteq inbox'
  <2>1. CASE UNCHANGED vars
    BY <2>1 DEF vars
  <2>2. ASSUME NEW c \in Call, CallStep(c)
        PROVE  req' = req /\ inbox \subseteq inbox'
    BY HeldCodes
  <2>3. ASSUME NEW u \in User, ExpireCode(u) \/ ExpireAttempts(u)
        PROVE  req' = req /\ inbox \subseteq inbox'
    BY <2>3 DEF ExpireCode, ExpireAttempts, request
  <2> QED  BY <2>1, <2>2, <2>3 DEF Next
<1> QED  BY <1>1 DEF Of

\* A key of Redis keeps its code, loses it, or holds one its user has drawn.
LEMMA KeptCodes ==
  ASSUME TypeOK, StageInv, [Next]_vars, NEW u \in User
  PROVE  otp'[u] = otp[u] \/ otp'[u] = NoCode \/ IsLink(otp'[u], u)
<1> USE DEF TypeOK, request, rows, redis, history
<1>1. ASSUME NEW c \in Call, CallStep(c)
      PROVE  \/ otp' = otp
             \/ otp' = [otp EXCEPT ![Of(c)] = NoCode]
             \/ otp' = [otp EXCEPT ![Of(c)] = c] /\ req[c].op = "link"
  BY <1>1 DEF CallStep, CheckPhone, SetCode, ResetAttempts, NamePhone, Send, Deliver,
       ReadCode, ReadAttempts, StoreAttempts, DropCode, Prove, ReadUser, Unlink,
       CountUsers, ClearFlag, Fail, StageInv
<1>2. ASSUME NEW v \in User, ExpireCode(v) \/ ExpireAttempts(v)
      PROVE  otp'[u] = otp[u] \/ otp'[u] = NoCode
  BY <1>2 DEF ExpireCode, ExpireAttempts
<1>3. CASE UNCHANGED vars
  BY <1>3 DEF vars
<1> QED  BY <1>1, <1>2, <1>3, RequestType DEF Next, IsLink

LEMMA CodeStep ==
  ASSUME TypeOK, StageInv, CodeInv, [Next]_vars
  PROVE  CodeInv'
<1>1. req' = req /\ inbox \subseteq inbox' /\ \A c \in Call : Of(c)' = Of(c)
  BY Frame
<1>2. \A k, u : IsLink(k, u)' <=> IsLink(k, u)
  BY <1>1 DEF IsLink, Of
<1>3. ASSUME NEW u \in User, otp'[u] # NoCode
      PROVE  IsLink(otp'[u], u)
  BY <1>3, KeptCodes DEF CodeInv
<1>4. ASSUME NEW c \in Call, seen'[c] # NoCode
      PROVE  IsLink(seen'[c], Of(c))
  BY <1>4, HeldCodes, RequestType DEF CodeInv
<1>5. ASSUME NEW c \in Call, typed'[c] # NoCode
      PROVE  typed'[c] \in inbox'
  BY <1>5, <1>1, HeldCodes DEF CodeInv
<1>6. \A u \in User : otp'[u] # NoCode => IsLink(otp[u], u)'
  BY <1>1, <1>3 DEF IsLink, Of
<1>7. \A c \in Call : seen'[c] # NoCode => IsLink(seen[c], Of(c))'
  BY <1>1, <1>4 DEF IsLink, Of
<1> QED  BY <1>5, <1>6, <1>7 DEF CodeInv

-----------------------------------------------------------------------------
(* Proven numbers *)

\* What was proven stays proven.
LEMMA ProvesStays ==
  ASSUME TypeOK, StageInv, [Next]_vars, NEW d \in Call, NEW u, NEW p, Proves(d, u, p)
  PROVE  Proves(d, u, p)'
<1>1. req' = req /\ inbox \subseteq inbox'
  BY Frame
<1>2. typed[d] # NoCode
  BY LinkAssumption DEF Proves, TypeOK
<1>3. typed'[d] = typed[d] /\ seen'[d] = seen[d]
  BY <1>2, HeldCodes DEF StageInv
<1> QED  BY <1>1, <1>3 DEF Proves, Of

\* What a step can do to the row of a user.
LEMMA RowMoves ==
  ASSUME TypeOK, StageInv, [Next]_vars, NEW u \in User
  PROVE  \/ phone'[u] = phone[u] /\ verified'[u] = verified[u]
         \/ ~verified'[u] /\ phone'[u] = NoPhone
         \/ /\ ~verified'[u] /\ phone'[u] \in Phone
            /\ \A v \in User \ {u} : phone[v] # phone'[u] /\ phone'[v] = phone[v]
         \/ \E c \in Call : /\ Prove(c) /\ u = Of(c) /\ phone'[u] = req[seen[c]].phone
                            /\ PhoneFree(u, phone'[u])
                            /\ \A v \in User \ {u} : phone'[v] = phone[v]
<1> USE DEF TypeOK, request, rows, redis, history
<1>1. ASSUME NEW c \in Call, CallStep(c)
      PROVE  \/ UNCHANGED <<phone, verified>>
             \/ NamePhone(c) \/ Unlink(c) \/ Prove(c)
  BY <1>1 DEF CallStep, CheckPhone, SetCode, ResetAttempts, NamePhone, Send, Deliver,
       ReadCode, ReadAttempts, StoreAttempts, DropCode, ReadUser, Unlink,
       CountUsers, ClearFlag, Fail
<1>2. ASSUME NEW c \in Call, NamePhone(c)
      PROVE  \/ phone'[u] = phone[u] /\ verified'[u] = verified[u]
             \/ /\ ~verified'[u] /\ phone'[u] \in Phone
                /\ \A v \in User \ {u} : phone[v] # phone'[u] /\ phone'[v] = phone[v]
  BY <1>2, RequestType DEF NamePhone, PhoneFree
<1>3. ASSUME NEW c \in Call, Unlink(c)
      PROVE  \/ phone'[u] = phone[u] /\ verified'[u] = verified[u]
             \/ ~verified'[u] /\ phone'[u] = NoPhone
  BY <1>3, RequestType DEF Unlink
<1>4. ASSUME NEW c \in Call, Prove(c)
      PROVE  \/ phone'[u] = phone[u] /\ verified'[u] = verified[u]
             \/ /\ u = Of(c) /\ phone'[u] = req[seen[c]].phone
                /\ PhoneFree(u, phone'[u])
                /\ \A v \in User \ {u} : phone'[v] = phone[v]
  BY <1>4, RequestType DEF Prove
<1>5. ASSUME NEW v \in User, ExpireCode(v) \/ ExpireAttempts(v)
      PROVE  UNCHANGED <<phone, verified>>
  BY <1>5 DEF ExpireCode, ExpireAttempts
<1>6. CASE UNCHANGED vars
  BY <1>6 DEF vars
<1>7. CASE UNCHANGED <<phone, verified>>
  BY <1>7
<1> QED  BY <1>1, <1>2, <1>3, <1>4, <1>5, <1>6, <1>7 DEF Next

LEMMA ProofStep ==
  ASSUME TypeOK, StageInv, CodeInv, ProofInv, StageInv', CodeInv', [Next]_vars
  PROVE  ProofInv'
<1>0. req' = req /\ inbox \subseteq inbox' /\ \A c \in Call : Of(c)' = Of(c)
  BY Frame
<1>1. ASSUME NEW c \in Call, Past(c)'
      PROVE  Proves(c, Of(c), req[seen[c]].phone)'
  <2>1. seen'[c] # NoCode /\ req'[c].op = "verify"
    BY <1>1 DEF Past, StageInv
  <2>2. typed'[c] = typed[c] /\ seen'[c] = seen[c] /\ pc[c] # "idle"
    BY <1>1, HeldCodes, Moves DEF Past, Terminal
  <2>3. CASE Past(c)
    <3>1. Proves(c, Of(c), req[seen[c]].phone)
      BY <2>3 DEF ProofInv
    <3>2. PICK u, p : u = Of(c) /\ p = req[seen[c]].phone
      OBVIOUS
    <3>3. Proves(c, u, p)'
      BY <3>1, <3>2, ProvesStays
    <3> QED  BY <3>2, <3>3, <1>0, <2>2 DEF Proves
  <2>4. CASE ~Past(c)
    <3>1. pc[c] = "storing count" /\ typed[c] = seen[c]
      BY <1>0, <1>1, <2>1, <2>4, Moves DEF Past, StageInv, Terminal
    <3>2. typed'[c] = seen'[c] /\ typed'[c] \in inbox' /\ IsLink(seen[c], Of(c))'
      BY <2>1, <2>2, <3>1 DEF CodeInv
    <3> QED  BY <2>1, <3>2 DEF Proves, IsLink
  <2> QED  BY <2>3, <2>4
<1>2. ASSUME NEW u \in User, verified'[u]
      PROVE  \E d \in Call : Proves(d, u, phone[u])'
  <2>1. CASE phone'[u] = phone[u] /\ verified'[u] = verified[u]
    <3>1. PICK d \in Call : Proves(d, u, phone[u])
      BY <2>1, <1>2 DEF ProofInv, ProvenPhone
    <3>2. PICK p : p = phone[u]
      OBVIOUS
    <3>3. Proves(d, u, p)'
      BY <3>1, <3>2, ProvesStays
    <3> QED  BY <2>1, <3>2, <3>3 DEF Proves
  <2>2. ASSUME NEW c \in Call, Prove(c), u = Of(c), phone'[u] = req[seen[c]].phone
        PROVE  \E d \in Call : Proves(d, u, phone[u])'
    <3>1. Proves(c, u, phone'[u])
      BY <2>2 DEF Prove, Past, ProofInv
    <3>2. PICK p : p = phone'[u]
      OBVIOUS
    <3>3. Proves(c, u, p)'
      BY <3>1, <3>2, ProvesStays
    <3> QED  BY <3>2, <3>3 DEF Proves
  <2> QED  BY <1>2, <2>1, <2>2, RowMoves
<1> QED  BY <1>1, <1>2 DEF ProofInv, ProvenPhone

-----------------------------------------------------------------------------
(* One user per number *)

LEMMA PhoneStep ==
  ASSUME TypeOK, StageInv, PhoneInv, [Next]_vars
  PROVE  PhoneInv'
<1>1. ASSUME NEW u \in User, verified'[u]
      PROVE  phone'[u] # NoPhone
  <2>1. ASSUME NEW c \in Call, Prove(c), phone'[u] = req[seen[c]].phone
        PROVE  phone'[u] # NoPhone
    <3>1. seen[c] \in Call
      BY <2>1 DEF Prove, StageInv, TypeOK
    <3> QED  BY <2>1, <3>1, RequestType, LinkAssumption
  <2> QED  BY <1>1, <2>1, RowMoves DEF PhoneInv
<1>2. ASSUME NEW u \in User, NEW v \in User, u # v, phone'[u] # NoPhone
      PROVE  phone'[u] # phone'[v]
  <2>1. phone'[u] = phone[u] \/ (PhoneFree(u, phone'[u]) /\ phone'[v] = phone[v])
    BY <1>2, RowMoves DEF PhoneFree
  <2>2. \/ phone'[v] = phone[v] \/ phone'[v] = NoPhone
        \/ (PhoneFree(v, phone'[v]) /\ phone'[u] = phone[u])
    BY <1>2, RowMoves DEF PhoneFree
  <2> QED  BY <1>2, <2>1, <2>2 DEF PhoneFree, PhoneInv
<1> QED  BY <1>1, <1>2 DEF PhoneInv

-----------------------------------------------------------------------------
(* The flag of the business *)

LEMMA FlagStep ==
  ASSUME TypeOK, StageInv, FlagInv, [Next]_vars
  PROVE  FlagInv'
<1> USE DEF TypeOK, request, rows, redis, history, GoTo
<1>0. \A c \in Call : Of(c)' = Of(c)
  BY Frame
<1>1. ASSUME NEW c \in Call, Prove(c)
      PROVE  FlagInv'
  <2>1. CASE UNCHANGED <<rows, late>>
    BY <1>0, <1>1, <2>1 DEF Prove, FlagInv, VerifiedIsLinked
  <2>2. CASE ~UNCHANGED <<rows, late>>
    <3>1. PICK u \in User, b \in Business : u = Of(c) /\ b = BusinessOf[u]
      BY RequestType
    <3>2. /\ pc' = [pc EXCEPT ![c] = "ok"]
          /\ verified' = [verified EXCEPT ![u] = TRUE]
          /\ linked' = [linked EXCEPT ![b] = TRUE]
          /\ late \subseteq late'
          /\ (\E d \in Call : pc[d] = "clearing" /\ BusinessOf[Of(d)] = b) => b \in late'
      BY <1>1, <2>2, <3>1 DEF Prove
    <3>3. \A v \in User : v # u => verified'[v] = verified[v]
      BY <3>2
    <3>4. \A d \in Call : pc'[d] = "clearing" => pc[d] = "clearing"
      BY <3>2
    <3>5. VerifiedIsLinked'
      BY <3>1, <3>2, <3>3, LinkAssumption DEF FlagInv, VerifiedIsLinked
    <3>6. ASSUME NEW d \in Call, NEW v \in User, pc'[d] = "clearing",
                 BusinessOf[v] = BusinessOf[Of(d)], verified'[v]
          PROVE  BusinessOf[v] \in late'
      BY <3>1, <3>2, <3>3, <3>4, <3>6 DEF FlagInv
    <3> QED  BY <1>0, <3>5, <3>6 DEF FlagInv
  <2> QED  BY <2>1, <2>2
<1>2. ASSUME NEW c \in Call, ClearFlag(c)
      PROVE  FlagInv'
  <2>1. pc[c] = "clearing" /\ UNCHANGED <<verified, late>>
        /\ pc' = [pc EXCEPT ![c] = "ok"]
        /\ linked' = [linked EXCEPT ![BusinessOf[Of(c)]] = FALSE]
    BY <1>2 DEF ClearFlag
  <2>2. ASSUME NEW u \in User, verified[u]
        PROVE  linked'[BusinessOf[u]] \/ BusinessOf[u] \in late
    BY <2>1, <2>2, LinkAssumption DEF FlagInv, VerifiedIsLinked
  <2> QED  BY <1>0, <2>1, <2>2 DEF FlagInv, VerifiedIsLinked
<1>3. ASSUME NEW c \in Call, CountUsers(c)
      PROVE  FlagInv'
  <2>1. UNCHANGED <<verified, linked, late>> /\ \A d \in Call : d # c => pc'[d] = pc[d]
    BY <1>3 DEF CountUsers
  <2>2. pc'[c] = "clearing" =>
          \A u \in User : BusinessOf[u] = BusinessOf[Of(c)] => ~verified[u]
    BY <1>3 DEF CountUsers
  <2> QED  BY <1>0, <2>1, <2>2 DEF FlagInv, VerifiedIsLinked
<1>4. ASSUME UNCHANGED <<linked, late>>,
             \A u \in User : verified'[u] => verified[u],
             \A d \in Call : pc'[d] = "clearing" => pc[d] = "clearing"
      PROVE  FlagInv'
  BY <1>0, <1>4 DEF FlagInv, VerifiedIsLinked
<1>5. ASSUME NEW c \in Call, CallStep(c), ~Prove(c), ~ClearFlag(c), ~CountUsers(c)
      PROVE  /\ UNCHANGED <<linked, late>>
             /\ \A u \in User : verified'[u] => verified[u]
             /\ \A d \in Call : pc'[d] = "clearing" => pc[d] = "clearing"
  <2>1. \A d \in Call : pc'[d] = "clearing" => pc[d] = "clearing"
    BY <1>5 DEF CallStep, CheckPhone, SetCode, ResetAttempts, NamePhone, Send, Deliver,
       ReadCode, ReadAttempts, StoreAttempts, DropCode, ReadUser, Unlink, Fail, Begin
  <2>2. UNCHANGED <<linked, late>> /\ \A u \in User : verified'[u] => verified[u]
    BY <1>5 DEF CallStep, CheckPhone, SetCode, ResetAttempts, NamePhone, Send, Deliver,
       ReadCode, ReadAttempts, StoreAttempts, DropCode, ReadUser, Unlink, Fail, Begin
  <2> QED  BY <2>1, <2>2
<1>6. ASSUME NEW u \in User, ExpireCode(u) \/ ExpireAttempts(u)
      PROVE  UNCHANGED <<linked, late, verified, pc>>
  BY <1>6 DEF ExpireCode, ExpireAttempts
<1>7. CASE UNCHANGED vars
  BY <1>4, <1>7 DEF vars
<1> QED  BY <1>1, <1>2, <1>3, <1>4, <1>5, <1>6, <1>7 DEF Next

-----------------------------------------------------------------------------

LEMMA Inductive == Spec => []IInv
<1>1. Init => IInv
  <2> SUFFICES ASSUME Init PROVE IInv
    OBVIOUS
  <2>1. TypeOK
    BY LinkAssumption DEF Init, TypeOK, PC
  <2>2. StageInv /\ CodeInv
    BY DEF Init, StageInv, CodeInv
  <2>3. ProofInv /\ PhoneInv /\ FlagInv
    BY DEF Init, ProofInv, ProvenPhone, Past, PhoneInv, FlagInv, VerifiedIsLinked
  <2> QED  BY <2>1, <2>2, <2>3 DEF IInv
<1>2. IInv /\ [Next]_vars => IInv'
  BY TypeStep, StageStep, CodeStep, ProofStep, PhoneStep, FlagStep DEF IInv
<1> QED  BY <1>1, <1>2, PTL DEF Spec

\* Every variable keeps its type.
THEOREM TypeCorrect == Spec => []TypeOK
<1>1. IInv => TypeOK
  BY DEF IInv
<1> QED  BY <1>1, Inductive, PTL

\* verifyWhatsapp marks a number verified only with the code sent to it.
THEOREM NumberProven == Spec => []ProvenPhone
<1>1. IInv => ProvenPhone
  BY DEF IInv, ProofInv
<1> QED  BY <1>1, Inductive, PTL

\* The index on User.whatsappPhone gives the bot one user per verified number.
THEOREM NumberOfOne == Spec => []OneUserPerPhone
<1>1. IInv => OneUserPerPhone
  BY DEF IInv, PhoneInv, OneUserPerPhone
<1> QED  BY <1>1, Inductive, PTL

\* waLinked follows the users of the business, but for verifies that come
\* between the count and the write of an unlink.
THEOREM FlagFollows == Spec => []VerifiedIsLinked
<1>1. IInv => VerifiedIsLinked
  BY DEF IInv, FlagInv
<1> QED  BY <1>1, Inductive, PTL

-----------------------------------------------------------------------------
(* Users who send one call after the other *)

\* Such a user has one call under way at most.
AloneInv ==
    \A c, d \in Call :
        Active(c) /\ Active(d) /\ Of(c) = Of(d) /\ Of(c) \notin overlapped => c = d

\* A code that is not stored yet is nowhere.
FreshInv ==
    \A k \in Call : pc[k] \in {"idle", "storing code"} =>
        /\ tested[k] = 0
        /\ \A u \in User : otp[u] # k
        /\ \A c \in Call : seen[c] # k

\* The count in Redis, or in the hands of the call that is about to store it,
\* keeps up with the comparisons of the code that is still to be used.
CountInv ==
    /\ \A u \in User \ overlapped : otp[u] # NoCode => tested[otp[u]] <= attempts[u]
    /\ \A c \in Call : Of(c) \notin overlapped =>
        /\ pc[c] = "resetting" /\ req[c].op = "link" =>
               tested[c] = 0 /\ otp[Of(c)] \in {c, NoCode}
        /\ pc[c] = "resetting" /\ req[c].op # "link" => otp[Of(c)] = NoCode
        /\ pc[c] \in {"counting", "storing count"} => otp[Of(c)] \in {seen[c], NoCode}
        /\ pc[c] = "counting" => tested[seen[c]] <= attempts[Of(c)]
        /\ pc[c] = "storing count" => tested[seen[c]] < tries[c]

\* A verify that found its code right and took it from Redis.
Took(c) == req[c].op = "verify" /\ pc[c] \in {"resetting", "proving", "ok"}
Holds(c) == pc[c] \in {"counting", "storing count", "spent", "right"}

\* Nobody else gets at a code that was taken.
UseInv ==
    \A c \in Call : Took(c) =>
        /\ seen[c] # NoCode
        /\ Of(c) \notin overlapped => otp[Of(c)] # seen[c]
        /\ Of(c) \notin overlapped => \A d \in Call :
             d # c /\ Of(d) = Of(c) /\ (Holds(d) \/ Took(d)) => seen[d] # seen[c]

\* A call gets under way next to the others of its user.
LEMMA Begins ==
  ASSUME TypeOK, [Next]_vars, NEW c \in Call, Active(c)', ~Active(c)
  PROVE  /\ \A d \in Call : d # c => pc'[d] = pc[d]
         /\ \A d \in Call : Active(d) /\ Of(d) = Of(c) => Of(c) \in overlapped'
<1> USE DEF TypeOK, GoTo, Terminal, Active
<1>1. ASSUME NEW d \in Call, CallStep(d), d # c
      PROVE  pc'[c] = pc[c]
  BY <1>1 DEF CallStep, CheckPhone, SetCode, ResetAttempts, NamePhone, Send, Deliver,
       ReadCode, ReadAttempts, StoreAttempts, DropCode, Prove, ReadUser, Unlink,
       CountUsers, ClearFlag, Fail
<1>2. CASE \E op : Begin(c, op) /\ \E p : GoTo(c, p)
  BY <1>2 DEF Begin
<1>3. CASE CallStep(c)
  BY <1>2, <1>3 DEF CallStep, CheckPhone, SetCode, ResetAttempts, NamePhone, Send, Deliver,
       ReadCode, ReadAttempts, StoreAttempts, DropCode, Prove, ReadUser, Unlink,
       CountUsers, ClearFlag, Fail
<1>4. ASSUME NEW u \in User, ExpireCode(u) \/ ExpireAttempts(u)
      PROVE  pc' = pc
  BY <1>4 DEF ExpireCode, ExpireAttempts
<1>5. CASE UNCHANGED vars
  BY <1>5 DEF vars
<1> QED  BY <1>1, <1>3, <1>4, <1>5 DEF Next

\* Who has overlapped once is not followed further.
LEMMA Overlaps ==
  ASSUME TypeOK, [Next]_vars
  PROVE  overlapped \subseteq overlapped'
<1>1. ASSUME NEW c \in Call, CallStep(c)
      PROVE  overlapped \subseteq overlapped'
  BY <1>1 DEF CallStep, CheckPhone, SetCode, ResetAttempts, NamePhone, Send, Deliver,
       ReadCode, ReadAttempts, StoreAttempts, DropCode, Prove, ReadUser, Unlink,
       CountUsers, ClearFlag, Fail, Begin, history
<1>2. ASSUME NEW u \in User, ExpireCode(u) \/ ExpireAttempts(u)
      PROVE  overlapped \subseteq overlapped'
  BY <1>2 DEF ExpireCode, ExpireAttempts, history
<1>3. CASE UNCHANGED vars
  BY <1>3 DEF vars
<1> QED  BY <1>1, <1>2, <1>3 DEF Next

LEMMA AloneStep ==
  ASSUME TypeOK, StageInv, AloneInv, [Next]_vars
  PROVE  AloneInv'
<1> SUFFICES ASSUME NEW c \in Call, NEW d \in Call, Active(c)', Active(d)', Of(c) = Of(d),
                    Of(c) \notin overlapped', c # d
             PROVE  FALSE
  BY Frame DEF AloneInv
<1>1. Of(c) \notin overlapped
  BY Overlaps
<1>2. CASE ~Active(c)
  BY <1>2, Begins DEF Active
<1>3. CASE ~Active(d)
  BY <1>3, Begins DEF Active
<1> QED  BY <1>1, <1>2, <1>3 DEF AloneInv

-----------------------------------------------------------------------------
(* What a step does to the codes and the counts *)

\* A step that leaves them alone, and finishes no verify.
Quiet ==
    /\ UNCHANGED <<otp, attempts, tested, seen, tries>>
    /\ \A c \in Call :
        \/ pc'[c] = pc[c] \/ pc'[c] = "failed"
        \/ /\ pc[c] \notin {"storing code", "resetting", "counting", "storing count", "spent",
                            "right"}
           /\ pc'[c] \in {"storing code", "unlinking", "counting users", "clearing", "naming",
                          "sending", "ok"}
           /\ pc'[c] = "storing code" => pc[c] = "idle"
           /\ pc'[c] = "ok" /\ req[c].op = "verify" => pc[c] = "proving"

LEMMA Effects ==
  ASSUME TypeOK, StageInv, [Next]_vars
  PROVE  \/ Quiet
         \/ \E c \in Call : \/ SetCode(c) \/ ResetAttempts(c) \/ ReadCode(c)
                            \/ ReadAttempts(c) \/ StoreAttempts(c) \/ DropCode(c)
         \/ \E u \in User : ExpireCode(u) \/ ExpireAttempts(u)
<1> USE DEF TypeOK, GoTo, Quiet, request, redis, history
<1>1. ASSUME NEW c \in Call, CheckPhone(c) \/ NamePhone(c) \/ Send(c) \/ Deliver(c)
      PROVE  Quiet
  BY <1>1 DEF CheckPhone, NamePhone, Send, Deliver, Begin, StageInv
<1>2. ASSUME NEW c \in Call, ReadUser(c) \/ Unlink(c) \/ CountUsers(c) \/ ClearFlag(c)
      PROVE  Quiet
  BY <1>2 DEF ReadUser, Unlink, CountUsers, ClearFlag, Begin, StageInv
<1>3. ASSUME NEW c \in Call, Prove(c) \/ Fail(c)
      PROVE  Quiet
  BY <1>3 DEF Prove, Fail
<1>4. CASE UNCHANGED vars
  BY <1>4 DEF vars
<1> QED  BY <1>1, <1>2, <1>3, <1>4 DEF Next, CallStep

LEMMA FreshStep ==
  ASSUME TypeOK, StageInv, CodeInv, FreshInv, [Next]_vars
  PROVE  FreshInv'
<1> USE DEF TypeOK, GoTo, FreshInv, request, redis, history
<1>1. CASE Quiet
  <2>1. \A k \in Call : pc'[k] \in {"idle", "storing code"} => pc[k] \in {"idle", "storing code"}
    BY <1>1 DEF Quiet
  <2> QED  BY <1>1, <2>1 DEF Quiet
<1>2. ASSUME NEW c \in Call, SetCode(c) \/ ResetAttempts(c) \/ ReadAttempts(c) \/ DropCode(c)
      PROVE  FreshInv'
  <2>1. CASE SetCode(c)
    BY <2>1, RequestType DEF SetCode
  <2>2. CASE ResetAttempts(c) \/ ReadAttempts(c)
    BY <2>2 DEF ResetAttempts, ReadAttempts
  <2>3. CASE DropCode(c)
    BY <2>3, RequestType, LinkAssumption DEF DropCode
  <2> QED  BY <1>2, <2>1, <2>2, <2>3
<1>3. ASSUME NEW c \in Call, ReadCode(c)
      PROVE  FreshInv'
  BY <1>3, RequestType DEF ReadCode, Begin
<1>4. ASSUME NEW c \in Call, StoreAttempts(c)
      PROVE  FreshInv'
  BY <1>4 DEF StoreAttempts
<1>5. ASSUME NEW u \in User, ExpireCode(u) \/ ExpireAttempts(u)
      PROVE  FreshInv'
  BY <1>5, LinkAssumption DEF ExpireCode, ExpireAttempts
<1> QED  BY <1>1, <1>2, <1>3, <1>4, <1>5, Effects

-----------------------------------------------------------------------------
(* The limit *)

\* The calls of a user who sends one after the other.
LEMMA Others ==
  ASSUME TypeOK, AloneInv, NEW c \in Call, Active(c), Of(c) \notin overlapped,
         NEW d \in Call, d # c, Of(d) = Of(c)
  PROVE  pc[d] \in {"idle", "ok", "failed"}
BY DEF AloneInv, Active, Terminal

CountsInv == TypeOK /\ StageInv /\ CodeInv /\ AloneInv /\ FreshInv /\ CountInv /\ AttemptLimit

LEMMA CountSetCode ==
  ASSUME CountsInv, NEW c \in Call, SetCode(c)
  PROVE  CountInv'
<1> USE DEF CountsInv, TypeOK
<1>1. /\ pc[c] = "storing code" /\ pc' = [pc EXCEPT ![c] = "resetting"]
      /\ otp' = [otp EXCEPT ![Of(c)] = c]
      /\ UNCHANGED <<req, seen, tries, attempts, tested, overlapped>>
  BY DEF SetCode, GoTo, request, history
<1>2. \A d \in Call : Of(d)' = Of(d)
  BY <1>1 DEF Of
<1>3. tested[c] = 0 /\ req[c].op = "link" /\ Of(c) \in User
  BY <1>1, RequestType DEF FreshInv, StageInv
<1>4. ASSUME NEW u \in User \ overlapped, otp'[u] # NoCode
      PROVE  tested[otp'[u]] <= attempts[u]
  <2>1. attempts[u] \in Nat
    OBVIOUS
  <2>2. CASE u = Of(c)
    <3>1. otp'[u] = c
      BY <1>1, <1>3, <2>2
    <3> QED  BY <1>3, <2>1, <3>1
  <2>3. CASE u # Of(c)
    BY <1>1, <1>4, <2>3 DEF CountInv
  <2> QED  BY <2>2, <2>3
<1>5. ASSUME NEW d \in Call, Of(d) \notin overlapped
      PROVE  /\ pc'[d] = "resetting" /\ req[d].op = "link" =>
                    tested[d] = 0 /\ otp'[Of(d)] \in {d, NoCode}
             /\ pc'[d] = "resetting" /\ req[d].op # "link" => otp'[Of(d)] = NoCode
             /\ pc'[d] \in {"counting", "storing count"} => otp'[Of(d)] \in {seen[d], NoCode}
             /\ pc'[d] = "counting" => tested[seen[d]] <= attempts[Of(d)]
             /\ pc'[d] = "storing count" => tested[seen[d]] < tries[d]
  <2>1. CASE d = c
    BY <1>1, <1>3, <2>1
  <2>2. CASE d # c /\ Of(d) = Of(c)
    BY <1>1, <1>5, <2>2, Others DEF Active, Terminal
  <2>3. CASE d # c /\ Of(d) # Of(c)
    BY <1>1, <1>3, <1>5, <2>3, RequestType DEF CountInv
  <2> QED  BY <2>1, <2>2, <2>3
<1> QED  BY <1>1, <1>2, <1>4, <1>5 DEF CountInv

LEMMA CountReset ==
  ASSUME CountsInv, NEW c \in Call, ResetAttempts(c)
  PROVE  CountInv'
<1> USE DEF CountsInv, TypeOK
<1>1. /\ pc[c] = "resetting" /\ \A d \in Call : d # c => pc'[d] = pc[d]
      /\ pc'[c] \in {"naming", "proving"}
      /\ attempts' = [attempts EXCEPT ![Of(c)] = 0]
      /\ UNCHANGED <<req, otp, seen, tries, tested, overlapped>>
  BY DEF ResetAttempts, GoTo, request, history
<1>2. \A d \in Call : Of(d)' = Of(d)
  BY <1>1 DEF Of
<1>3. ASSUME NEW u \in User \ overlapped, otp[u] # NoCode
      PROVE  tested[otp[u]] <= attempts'[u]
  <2>1. CASE u = Of(c)
    <3>1. otp[u] = c /\ tested[c] = 0
      BY <1>1, <1>3, <2>1 DEF CountInv
    <3> QED  BY <1>1, <2>1, <3>1
  <2>2. CASE u # Of(c)
    BY <1>1, <1>3, <2>2 DEF CountInv
  <2> QED  BY <2>1, <2>2
<1>4. ASSUME NEW d \in Call, Of(d) \notin overlapped
      PROVE  /\ pc'[d] = "resetting" /\ req[d].op = "link" =>
                    tested[d] = 0 /\ otp[Of(d)] \in {d, NoCode}
             /\ pc'[d] = "resetting" /\ req[d].op # "link" => otp[Of(d)] = NoCode
             /\ pc'[d] \in {"counting", "storing count"} => otp[Of(d)] \in {seen[d], NoCode}
             /\ pc'[d] = "counting" => tested[seen[d]] <= attempts'[Of(d)]
             /\ pc'[d] = "storing count" => tested[seen[d]] < tries[d]
  <2>1. CASE d = c
    BY <1>1, <2>1
  <2>2. CASE d # c /\ Of(d) = Of(c)
    BY <1>1, <1>4, <2>2, Others DEF Active, Terminal
  <2>3. CASE d # c /\ Of(d) # Of(c)
    BY <1>1, <1>4, <2>3, RequestType DEF CountInv
  <2> QED  BY <2>1, <2>2, <2>3
<1> QED  BY <1>1, <1>2, <1>3, <1>4 DEF CountInv

\* A verify reads a code of its user, with the count that was kept of it.
LEMMA CountRead ==
  ASSUME CountsInv, NEW c \in Call, ReadCode(c) \/ ReadAttempts(c)
  PROVE  CountInv'
<1> USE DEF CountsInv, TypeOK
<1>1. /\ UNCHANGED <<req, otp, attempts, tested>> /\ overlapped \subseteq overlapped'
      /\ \A d \in Call : d # c => /\ pc'[d] = pc[d] /\ seen'[d] = seen[d]
                                  /\ tries'[d] = tries[d]
  BY DEF ReadCode, ReadAttempts, Begin, GoTo, redis, rows, history
<1>2. \A d \in Call : Of(d)' = Of(d)
  BY <1>1 DEF Of
<1>3. CASE ReadCode(c)
  <2>1. /\ seen'[c] = otp[Of(c)]
        /\ pc'[c] = "failed" \/ (pc'[c] = "counting" /\ otp[Of(c)] # NoCode)
    BY <1>3 DEF ReadCode, GoTo
  <2>2. ASSUME NEW d \in Call, Of(d) \notin overlapped'
        PROVE  /\ pc'[d] = "resetting" /\ req[d].op = "link" =>
                      tested[d] = 0 /\ otp[Of(d)] \in {d, NoCode}
               /\ pc'[d] = "resetting" /\ req[d].op # "link" => otp[Of(d)] = NoCode
               /\ pc'[d] \in {"counting", "storing count"} => otp[Of(d)] \in {seen'[d], NoCode}
               /\ pc'[d] = "counting" => tested[seen'[d]] <= attempts[Of(d)]
               /\ pc'[d] = "storing count" => tested[seen'[d]] < tries'[d]
    <3>1. CASE d = c
      BY <1>1, <2>1, <2>2, <3>1, RequestType DEF CountInv
    <3>2. CASE d # c
      BY <1>1, <2>2, <3>2 DEF CountInv
    <3> QED  BY <3>1, <3>2
  <2> QED  BY <1>1, <1>2, <2>2 DEF CountInv
<1>4. CASE ReadAttempts(c)
  <2>1. /\ pc[c] = "counting" /\ pc'[c] = "storing count" /\ seen'[c] = seen[c]
        /\ tries'[c] = attempts[Of(c)] + 1
    BY <1>4 DEF ReadAttempts, GoTo
  <2>2. Of(c) \in User /\ seen[c] \in Call
    BY <2>1, RequestType DEF StageInv
  <2>3. attempts[Of(c)] \in Nat /\ tested[seen[c]] \in Nat
    BY <2>2
  <2>4. ASSUME Of(c) \notin overlapped
        PROVE  tested[seen[c]] < tries'[c] /\ otp[Of(c)] \in {seen[c], NoCode}
    <3>1. tested[seen[c]] <= attempts[Of(c)] /\ otp[Of(c)] \in {seen[c], NoCode}
      BY <2>1, <2>4 DEF CountInv
    <3>2. \A m, n \in Nat : m <= n => m < n + 1
      OBVIOUS
    <3> QED  BY ONLY <2>1, <2>3, <3>1, <3>2
  <2>5. ASSUME NEW d \in Call, Of(d) \notin overlapped'
        PROVE  /\ pc'[d] = "resetting" /\ req[d].op = "link" =>
                      tested[d] = 0 /\ otp[Of(d)] \in {d, NoCode}
               /\ pc'[d] = "resetting" /\ req[d].op # "link" => otp[Of(d)] = NoCode
               /\ pc'[d] \in {"counting", "storing count"} => otp[Of(d)] \in {seen'[d], NoCode}
               /\ pc'[d] = "counting" => tested[seen'[d]] <= attempts[Of(d)]
               /\ pc'[d] = "storing count" => tested[seen'[d]] < tries'[d]
    <3>1. CASE d = c
      BY <1>1, <2>1, <2>4, <2>5, <3>1
    <3>2. CASE d # c
      BY <1>1, <2>5, <3>2 DEF CountInv
    <3> QED  BY <3>1, <3>2
  <2> QED  BY <1>1, <1>2, <2>5 DEF CountInv
<1> QED  BY <1>3, <1>4

\* One more comparison of the code, and the count that goes with it.
LEMMA CountStore ==
  ASSUME CountsInv, NEW c \in Call, StoreAttempts(c)
  PROVE  CountInv' /\ AttemptLimit'
<1> USE DEF CountsInv, TypeOK
<1>1. /\ pc[c] = "storing count" /\ \A d \in Call : d # c => pc'[d] = pc[d]
      /\ pc'[c] \in {"spent", "right", "failed"}
      /\ attempts' = [attempts EXCEPT ![Of(c)] = tries[c]]
      /\ UNCHANGED <<req, otp, seen, tries, overlapped>>
  BY DEF StoreAttempts, GoTo, request, history
<1>2. \A d \in Call : Of(d)' = Of(d)
  BY <1>1 DEF Of
<1>3. seen[c] \in Call /\ Of(c) \in User /\ IsLink(seen[c], Of(c))
  BY <1>1, RequestType DEF StageInv, CodeInv
<1>4. tries[c] \in Nat /\ tested[seen[c]] \in Nat /\ MaxAttempts \in Nat
  BY <1>3, LinkAssumption
<1>5. /\ \A k \in Call : k # seen[c] => tested'[k] = tested[k]
      /\ \/ tested'[seen[c]] = tested[seen[c]]
         \/ tested'[seen[c]] = tested[seen[c]] + 1 /\ ~(tries[c] > MaxAttempts)
  BY <1>3 DEF StoreAttempts
<1>6. ASSUME Of(c) \notin overlapped
      PROVE  /\ tested'[seen[c]] <= tries[c] /\ tested[seen[c]] <= MaxAttempts
             /\ tested'[seen[c]] <= MaxAttempts /\ otp[Of(c)] \in {seen[c], NoCode}
  <2>1. tested[seen[c]] < tries[c] /\ otp[Of(c)] \in {seen[c], NoCode}
    BY <1>1, <1>6 DEF CountInv
  <2>2. tested[seen[c]] <= MaxAttempts
    BY <1>3, <1>6 DEF AttemptLimit, IsLink
  <2> QED  BY <1>4, <1>5, <2>1, <2>2
<1>7. AttemptLimit'
  BY <1>1, <1>2, <1>3, <1>5, <1>6 DEF AttemptLimit, IsLink
<1>8. ASSUME NEW u \in User \ overlapped, otp[u] # NoCode
      PROVE  tested'[otp[u]] <= attempts'[u]
  <2>1. CASE u = Of(c)
    BY <1>1, <1>3, <1>6, <1>8, <2>1
  <2>2. CASE u # Of(c)
    <3>1. otp[u] # seen[c] /\ otp[u] \in Call
      BY <1>3, <1>8, <2>2 DEF CodeInv, IsLink
    <3>2. tested'[otp[u]] = tested[otp[u]] /\ attempts'[u] = attempts[u]
      BY <1>1, <1>5, <2>2, <3>1
    <3> QED  BY <1>8, <3>2 DEF CountInv
  <2> QED  BY <2>1, <2>2
<1>9. ASSUME NEW d \in Call, Of(d) \notin overlapped
      PROVE  /\ pc'[d] = "resetting" /\ req[d].op = "link" =>
                    tested'[d] = 0 /\ otp[Of(d)] \in {d, NoCode}
             /\ pc'[d] = "resetting" /\ req[d].op # "link" => otp[Of(d)] = NoCode
             /\ pc'[d] \in {"counting", "storing count"} => otp[Of(d)] \in {seen[d], NoCode}
             /\ pc'[d] = "counting" => tested'[seen[d]] <= attempts'[Of(d)]
             /\ pc'[d] = "storing count" => tested'[seen[d]] < tries[d]
  <2>1. CASE d = c
    BY <1>1, <2>1
  <2>2. CASE d # c /\ Of(d) = Of(c)
    BY <1>1, <1>9, <2>2, Others DEF Active, Terminal
  <2>3. CASE d # c /\ Of(d) # Of(c)
    <3>1. pc'[d] = pc[d] /\ attempts'[Of(d)] = attempts[Of(d)]
      BY <1>1, <2>3, RequestType
    <3>2. d # seen[c] \/ Of(d) = Of(c)
      BY <1>3 DEF IsLink
    <3>3. seen[d] # NoCode => seen[d] \in Call /\ seen[d] # seen[c]
      BY <1>3, <2>3 DEF CodeInv, IsLink
    <3>4. pc[d] \in {"counting", "storing count"} => seen[d] # NoCode
      BY DEF StageInv
    <3>5. tested'[d] = tested[d]
      BY <1>5, <2>3, <3>2
    <3>6. pc[d] \in {"counting", "storing count"} => tested'[seen[d]] = tested[seen[d]]
      BY <1>5, <3>3, <3>4
    <3> QED  BY <1>9, <3>1, <3>5, <3>6 DEF CountInv
  <2> QED  BY <2>1, <2>2, <2>3
<1> QED  BY <1>1, <1>2, <1>7, <1>8, <1>9 DEF CountInv

LEMMA CountDrop ==
  ASSUME CountsInv, NEW c \in Call, DropCode(c)
  PROVE  CountInv'
<1> USE DEF CountsInv, TypeOK
<1>1. /\ pc[c] \in {"spent", "right"} /\ \A d \in Call : d # c => pc'[d] = pc[d]
      /\ pc'[c] \in {"failed", "resetting"}
      /\ otp' = [otp EXCEPT ![Of(c)] = NoCode]
      /\ UNCHANGED <<req, seen, tries, attempts, tested, overlapped>>
  BY DEF DropCode, GoTo, request, history
<1>2. \A d \in Call : Of(d)' = Of(d)
  BY <1>1 DEF Of
<1>3. Of(c) \in User /\ req[c].op # "link"
  BY <1>1, RequestType DEF StageInv
<1>4. ASSUME NEW u \in User \ overlapped, otp'[u] # NoCode
      PROVE  tested[otp'[u]] <= attempts[u]
  BY <1>1, <1>4 DEF CountInv
<1>5. ASSUME NEW d \in Call, Of(d) \notin overlapped
      PROVE  /\ pc'[d] = "resetting" /\ req[d].op = "link" =>
                    tested[d] = 0 /\ otp'[Of(d)] \in {d, NoCode}
             /\ pc'[d] = "resetting" /\ req[d].op # "link" => otp'[Of(d)] = NoCode
             /\ pc'[d] \in {"counting", "storing count"} => otp'[Of(d)] \in {seen[d], NoCode}
             /\ pc'[d] = "counting" => tested[seen[d]] <= attempts[Of(d)]
             /\ pc'[d] = "storing count" => tested[seen[d]] < tries[d]
  <2>1. CASE d = c
    BY <1>1, <1>3, <2>1
  <2>2. CASE d # c /\ Of(d) = Of(c)
    BY <1>1, <1>5, <2>2, Others DEF Active, Terminal
  <2>3. CASE d # c /\ Of(d) # Of(c)
    BY <1>1, <1>3, <1>5, <2>3, RequestType DEF CountInv
  <2> QED  BY <2>1, <2>2, <2>3
<1> QED  BY <1>1, <1>2, <1>4, <1>5 DEF CountInv

\* The key of the count expires after the code it was kept of.
LEMMA CountExpire ==
  ASSUME CountsInv, NEW u \in User, ExpireCode(u) \/ ExpireAttempts(u)
  PROVE  CountInv'
<1> USE DEF CountsInv, TypeOK
<1>1. UNCHANGED <<req, pc, seen, tries, tested, overlapped>>
  BY DEF ExpireCode, ExpireAttempts, request, history
<1>2. \A d \in Call : Of(d)' = Of(d)
  BY <1>1 DEF Of
<1>3. CASE ExpireCode(u)
  BY <1>1, <1>2, <1>3, RequestType DEF ExpireCode, CountInv
<1>4. CASE ExpireAttempts(u)
  <2>1. /\ UNCHANGED otp /\ attempts' = [attempts EXCEPT ![u] = 0]
        /\ otp[u] # NoCode => tested[otp[u]] = 0
        /\ \A d \in Call : Of(d) = u => pc[d] # "counting"
    BY <1>4 DEF ExpireAttempts
  <2>2. ASSUME NEW v \in User \ overlapped, otp[v] # NoCode
        PROVE  tested[otp[v]] <= attempts'[v]
    <3>1. CASE v = u
      <4>1. tested[otp[v]] = 0 /\ attempts'[v] = 0
        BY <2>1, <2>2, <3>1
      <4> QED  BY ONLY <4>1
    <3>2. CASE v # u
      BY <2>1, <2>2, <3>2 DEF CountInv
    <3> QED  BY <3>1, <3>2
  <2>3. \A d \in Call : Of(d) \notin overlapped /\ pc[d] = "counting" =>
          tested[seen[d]] <= attempts'[Of(d)]
    BY <2>1, RequestType DEF CountInv
  <2> QED  BY <1>1, <1>2, <2>1, <2>2, <2>3 DEF CountInv
<1> QED  BY <1>3, <1>4

LEMMA CountStep ==
  ASSUME CountsInv, [Next]_vars
  PROVE  CountInv' /\ AttemptLimit'
<1>1. /\ req' = req /\ overlapped \subseteq overlapped' /\ \A d \in Call : Of(d)' = Of(d)
  BY Frame, Overlaps DEF CountsInv
<1>2. UNCHANGED tested => AttemptLimit'
  BY <1>1 DEF CountsInv, AttemptLimit
<1>3. CASE Quiet
  <2>1. \A c \in Call : pc'[c] \in {"resetting", "counting", "storing count"} => pc'[c] = pc[c]
    BY <1>3 DEF Quiet
  <2> QED  BY <1>1, <1>2, <1>3, <2>1 DEF Quiet, CountsInv, CountInv
<1>4. ASSUME NEW c \in Call, SetCode(c) \/ ResetAttempts(c) \/ ReadCode(c) \/ ReadAttempts(c)
                             \/ DropCode(c)
      PROVE  CountInv' /\ AttemptLimit'
  <2>1. UNCHANGED tested
    BY <1>4 DEF SetCode, ResetAttempts, ReadCode, ReadAttempts, DropCode, history
  <2> QED  BY <1>2, <1>4, <2>1, CountSetCode, CountReset, CountRead, CountDrop
<1>5. ASSUME NEW u \in User, ExpireCode(u) \/ ExpireAttempts(u)
      PROVE  CountInv' /\ AttemptLimit'
  <2>1. UNCHANGED tested
    BY <1>5 DEF ExpireCode, ExpireAttempts, history
  <2> QED  BY <1>2, <1>5, <2>1, CountExpire
<1> QED  BY <1>3, <1>4, <1>5, CountStore, Effects DEF CountsInv

-----------------------------------------------------------------------------
(* One use *)

LEMMA UseKept ==
  ASSUME CountsInv, UseInv, [Next]_vars,
         UNCHANGED seen, \A u \in User : otp'[u] = otp[u] \/ otp'[u] = NoCode,
         \A c \in Call : (Took(c)' => Took(c)) /\ (Holds(c)' => Holds(c))
  PROVE  UseInv'
<1> USE DEF CountsInv
<1>1. /\ req' = req /\ overlapped \subseteq overlapped' /\ \A d \in Call : Of(d)' = Of(d)
  BY Frame, Overlaps
<1>2. SUFFICES ASSUME NEW c \in Call, Took(c)'
               PROVE  /\ seen[c] # NoCode
                      /\ Of(c) \notin overlapped => otp'[Of(c)] # seen[c]
                      /\ Of(c) \notin overlapped => \A d \in Call :
                           d # c /\ Of(d) = Of(c) /\ (Holds(d)' \/ Took(d)') => seen[d] # seen[c]
  BY <1>1 DEF UseInv
<1>3. Took(c)
  BY <1>2
<1> QED  BY <1>3, RequestType DEF UseInv

LEMMA UseStep ==
  ASSUME CountsInv, UseInv, [Next]_vars
  PROVE  UseInv'
<1> USE DEF CountsInv, TypeOK
<1>1. /\ req' = req /\ overlapped \subseteq overlapped' /\ \A d \in Call : Of(d)' = Of(d)
  BY Frame, Overlaps
<1>2. CASE Quiet
  <2>1. \A c \in Call : (Took(c)' => Took(c)) /\ (Holds(c)' => Holds(c))
    BY <1>1, <1>2 DEF Quiet, Took, Holds
  <2> QED  BY <1>2, <2>1, UseKept DEF Quiet
<1>3. ASSUME NEW u \in User, ExpireCode(u) \/ ExpireAttempts(u)
      PROVE  UseInv'
  <2>1. UNCHANGED <<req, pc, seen>> /\ \A v \in User : otp'[v] = otp[v] \/ otp'[v] = NoCode
    BY <1>3 DEF ExpireCode, ExpireAttempts, request
  <2> QED  BY <2>1, UseKept DEF Took, Holds
<1>4. ASSUME NEW c \in Call, ResetAttempts(c) \/ ReadAttempts(c) \/ StoreAttempts(c)
      PROVE  UseInv'
  <2>1. UNCHANGED <<req, seen, otp>>
    BY <1>4 DEF ResetAttempts, ReadAttempts, StoreAttempts, request, redis
  <2>2. \A d \in Call : (Took(d)' => Took(d)) /\ (Holds(d)' => Holds(d))
    BY <1>4, <2>1 DEF ResetAttempts, ReadAttempts, StoreAttempts, GoTo, Took, Holds
  <2> QED  BY <2>1, <2>2, UseKept
\* A new code has been seen by nobody.
<1>5. ASSUME NEW c \in Call, SetCode(c)
      PROVE  UseInv'
  <2>1. /\ pc[c] = "storing code" /\ pc' = [pc EXCEPT ![c] = "resetting"]
        /\ otp' = [otp EXCEPT ![Of(c)] = c] /\ seen' = seen
    BY <1>5 DEF SetCode, GoTo, request
  <2>2. \A d \in Call : (Took(d)' => Took(d)) /\ (Holds(d)' => Holds(d))
    BY <1>1, <2>1 DEF Took, Holds, StageInv
  <2>3. \A d \in Call : seen[d] # c
    BY <2>1 DEF FreshInv
  <2>4. \A u \in User : otp'[u] = otp[u] \/ otp'[u] = c
    BY <2>1
  <2>5. SUFFICES ASSUME NEW d \in Call, Took(d)'
                 PROVE  /\ seen[d] # NoCode
                        /\ Of(d) \notin overlapped => otp'[Of(d)] # seen[d]
                        /\ Of(d) \notin overlapped => \A e \in Call :
                             e # d /\ Of(e) = Of(d) /\ (Holds(e)' \/ Took(e)') => seen[e] # seen[d]
    BY <1>1, <2>1 DEF UseInv
  <2>6. Took(d)
    BY <2>2, <2>5
  <2> QED  BY <2>2, <2>3, <2>4, <2>6, RequestType DEF UseInv
\* A verify reads a code that is still in Redis, so nobody took it.
<1>6. ASSUME NEW c \in Call, ReadCode(c)
      PROVE  UseInv'
  <2>1. /\ pc[c] = "idle" /\ otp' = otp /\ pc'[c] \in {"failed", "counting"}
        /\ pc'[c] = "counting" => seen'[c] = otp[Of(c)]
        /\ \A d \in Call : d # c => pc'[d] = pc[d] /\ seen'[d] = seen[d]
    BY <1>6 DEF ReadCode, Begin, GoTo, redis
  <2>2. ~Took(c)' /\ \A d \in Call : d # c => (Took(d)' <=> Took(d)) /\ (Holds(d)' <=> Holds(d))
    BY <1>1, <2>1 DEF Took, Holds
  <2>3. Holds(c)' => seen'[c] = otp[Of(c)]
    BY <2>1 DEF Holds
  <2>4. SUFFICES ASSUME NEW d \in Call, d # c, Took(d)
                 PROVE  /\ seen[d] # NoCode
                        /\ Of(d) \notin overlapped => otp[Of(d)] # seen[d]
                        /\ Of(d) \notin overlapped => \A e \in Call :
                             e # d /\ Of(e) = Of(d) /\ (Holds(e)' \/ Took(e)') => seen'[e] # seen[d]
    BY <1>1, <2>1, <2>2 DEF UseInv
  <2> QED  BY <2>1, <2>2, <2>3, <2>4 DEF UseInv
\* A verify takes its code, and there is no other call of the user that has it.
<1>7. ASSUME NEW c \in Call, DropCode(c)
      PROVE  UseInv'
  <2>1. /\ pc[c] \in {"spent", "right"} /\ pc'[c] \in {"failed", "resetting"}
        /\ otp' = [otp EXCEPT ![Of(c)] = NoCode] /\ seen' = seen /\ overlapped' = overlapped
        /\ \A d \in Call : d # c => pc'[d] = pc[d]
    BY <1>7 DEF DropCode, GoTo, request, history
  <2>2. seen[c] # NoCode /\ Of(c) \in User /\ Holds(c) /\ ~Holds(c)'
    BY <2>1, RequestType DEF StageInv, Holds
  <2>3. \A d \in Call : d # c => (Took(d)' <=> Took(d)) /\ (Holds(d)' <=> Holds(d))
    BY <1>1, <2>1 DEF Took, Holds
  <2>4. ASSUME NEW d \in Call, d # c, Took(d)
        PROVE  /\ seen[d] # NoCode
               /\ Of(d) \notin overlapped => otp'[Of(d)] # seen[d]
               /\ Of(d) \notin overlapped => \A e \in Call :
                    e # d /\ Of(e) = Of(d) /\ (Holds(e)' \/ Took(e)') => seen[e] # seen[d]
    <3>1. otp'[Of(d)] = otp[Of(d)] \/ otp'[Of(d)] = NoCode
      BY <2>1, RequestType
    <3> QED  BY <2>2, <2>3, <2>4, <3>1 DEF UseInv
  <2>5. otp'[Of(c)] = NoCode
    BY <2>1, <2>2
  <2>6. ASSUME NEW e \in Call, e # c, Of(e) = Of(c), Of(c) \notin overlapped,
               Holds(e)' \/ Took(e)'
        PROVE  seen[e] # seen[c]
    <3>1. pc[e] \in {"idle", "ok", "failed"}
      BY <2>1, <2>6, Others DEF Active, Terminal
    <3>2. Took(e)
      BY <2>3, <2>6, <3>1 DEF Holds
    <3> QED  BY <2>2, <2>6, <3>2 DEF UseInv
  <2>7. SUFFICES ASSUME NEW d \in Call, Took(d)'
                 PROVE  /\ seen[d] # NoCode
                        /\ Of(d) \notin overlapped => otp'[Of(d)] # seen[d]
                        /\ Of(d) \notin overlapped => \A e \in Call :
                             e # d /\ Of(e) = Of(d) /\ (Holds(e)' \/ Took(e)') => seen[e] # seen[d]
    BY <1>1, <2>1 DEF UseInv
  <2>8. CASE d = c
    BY <2>2, <2>5, <2>6, <2>8
  <2>9. CASE d # c
    BY <2>3, <2>4, <2>7, <2>9
  <2> QED  BY <2>8, <2>9
<1> QED  BY <1>2, <1>3, <1>4, <1>5, <1>6, <1>7, Effects

LEMMA CountsInductive == Spec => [](CountsInv /\ UseInv)
<1>1. Init => CountsInv /\ UseInv
  <2> SUFFICES ASSUME Init PROVE CountsInv /\ UseInv
    OBVIOUS
  <2>1. TypeOK /\ StageInv /\ CodeInv
    BY LinkAssumption DEF Init, TypeOK, PC, StageInv, CodeInv
  <2>2. AloneInv /\ FreshInv
    BY LinkAssumption DEF Init, AloneInv, FreshInv, Active
  <2>3. CountInv /\ AttemptLimit
    BY LinkAssumption DEF Init, CountInv, AttemptLimit
  <2>4. UseInv
    BY DEF Init, UseInv, Took
  <2> QED  BY <2>1, <2>2, <2>3, <2>4 DEF CountsInv
<1>2. CountsInv /\ UseInv /\ [Next]_vars => (CountsInv /\ UseInv)'
  <2> SUFFICES ASSUME CountsInv, UseInv, [Next]_vars PROVE (CountsInv /\ UseInv)'
    OBVIOUS
  <2>1. TypeOK' /\ StageInv' /\ CodeInv' /\ AloneInv' /\ FreshInv'
    BY TypeStep, StageStep, CodeStep, AloneStep, FreshStep DEF CountsInv
  <2> QED  BY <2>1, CountStep, UseStep DEF CountsInv
<1> QED  BY <1>1, <1>2, PTL DEF Spec

\* OTP_MAX_ATTEMPTS bounds the comparisons of a code of a user who sends one
\* call after the other, whatever fails, expires or is linked again.
THEOREM AttemptsLimited == Spec => []AttemptLimit
<1>1. CountsInv => AttemptLimit
  BY DEF CountsInv
<1> QED  BY <1>1, CountsInductive, PTL

\* Such a user links a number once with a code, also when calls stop half way.
THEOREM CodeOnce == Spec => []CodeUsedOnce
<1>1. UseInv => CodeUsedOnce
  BY DEF UseInv, CodeUsedOnce, Took
<1> QED  BY <1>1, CountsInductive, PTL
=============================================================================
