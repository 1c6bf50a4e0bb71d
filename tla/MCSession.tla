----------------------------- MODULE MCSession -----------------------------
(* Instances of Session for TLC: tabs of one browser that share a cookie, a  *)
(* second browser of the same user, and registrations that compete.          *)
EXTENDS Session, TLC

CONSTANTS c1, c2, c3, c4, c5, b1, b2, u1, u2

Ask(op, b, u) == [op |-> op, browser |-> b, user |-> u]

\* Three refreshes from the tabs of one browser.
Tabs == c1 :> Ask("register", b1, u1) @@ c2 :> Ask("refresh", b1, u1)
        @@ c3 :> Ask("refresh", b1, u1) @@ c4 :> Ask("refresh", b1, u1)
        @@ c5 :> Ask("logout", b1, u1)
\* Two browsers of one user.
Devices == c1 :> Ask("register", b1, u1) @@ c2 :> Ask("login", b2, u1)
           @@ c3 :> Ask("refresh", b1, u1) @@ c4 :> Ask("refresh", b2, u1)
           @@ c5 :> Ask("refresh", b2, u1)
\* Two registrations with one email, and another user in the same browser.
Rivals == c1 :> Ask("register", b1, u1) @@ c2 :> Ask("register", b2, u1)
          @@ c3 :> Ask("register", b2, u2) @@ c4 :> Ask("login", b1, u2)
          @@ c5 :> Ask("refresh", b1, u1)

SessionWorkload == {Tabs, Devices, Rivals}

=============================================================================
