-------------------------- MODULE MCWhatsappLink --------------------------
(* Instances of WhatsappLink for TLC: two colleagues of one business.       *)
EXTENDS WhatsappLink, TLC

CONSTANTS c1, c2, c3, c4, c5, u1, u2, p1, p2, b1

Ask(op, u, p) == [op |-> op, user |-> u, phone |-> p]

OneBusiness == [u \in User |-> b1]

\* A user changes the number while a verification is under way.
Change == c1 :> Ask("link", u1, p1) @@ c2 :> Ask("link", u1, p2)
          @@ c3 :> Ask("verify", u1, p1) @@ c4 :> Ask("verify", u1, p1)
          @@ c5 :> Ask("verify", u1, p1)
\* Two colleagues want one number; one lets it go.
Rivals == c1 :> Ask("link", u1, p1) @@ c2 :> Ask("link", u2, p1)
          @@ c3 :> Ask("verify", u1, p1) @@ c4 :> Ask("verify", u2, p1)
          @@ c5 :> Ask("unlink", u1, p1)
\* Two colleagues with a number each; one unlinks.
Colleagues == c1 :> Ask("link", u1, p1) @@ c2 :> Ask("link", u2, p2)
              @@ c3 :> Ask("verify", u1, p1) @@ c4 :> Ask("verify", u2, p2)
              @@ c5 :> Ask("unlink", u1, p1)

LinkWorkload == {Change, Rivals, Colleagues}
===========================================================================
