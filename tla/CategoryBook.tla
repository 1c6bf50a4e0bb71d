---------------------------- MODULE CategoryBook ----------------------------
(***************************************************************************)
(* CategoryService: the owner's categories, checked and written in         *)
(* separate statements, and the bookings made under them meanwhile.  No    *)
(* index keeps the names of a business apart.                              *)
(***************************************************************************)
EXTENDS Business

CONSTANTS
    Name,
    Lower,      \* the name as a comparison without case sees it
    NameOf,     \* the names of DEFAULT_CATEGORIES
    NoCall

NameRequest == [op: {"create"}, name: Name] \cup [op: {"rename"}, cat: Category, name: Name]
RemoveRequest == [op: {"remove"}, cat: Category]
EnterRequest == [op: {"enter"}, user: User, acc: Nat, type: {"MASUK", "KELUAR"}, amt: Nat \ {0},
                 cat: Category \cup {NoCategory}]

ASSUME CategoryAssumption ==
    /\ Lower \in [Name -> Name]
    /\ NameOf \in [DefaultCategory -> Name]
    /\ \A k, d \in DefaultCategory : Lower[NameOf[k]] = Lower[NameOf[d]] => k = d
    /\ NoCall \notin Call /\ Name # {}
    /\ \A w \in Workload, c \in Call : w[c].op \in {"create", "rename"} => w[c] \in NameRequest

VARIABLE cats   \* Category; by and dropper are history: the call that last
                \* named it, the call that deleted it

Seeded(k) == [state |-> "live", name |-> NameOf[k], default |-> TRUE,
              by |-> NoCall, dropper |-> NoCall]
Unborn == [state |-> "absent", name |-> CHOOSE n \in Name : TRUE, default |-> FALSE,
           by |-> NoCall, dropper |-> NoCall]

\* seedDefaults ran at registration.
SeedDefaults == cats = [k \in Category |-> IF k \in DefaultCategory THEN Seeded(k) ELSE Unborn]

Live == {k \in Category : cats[k].state = "live"}

\* Variant: the comparison minds the case.
TakenExactly(n, k) == \E d \in Live \ {k} : cats[d].name = n

\* Another live category than k has name n, whatever the case.
Taken(n, k) == \E d \in Live \ {k} : Lower[cats[d].name] = Lower[n]

-----------------------------------------------------------------------------
(* create *)

CheckName(c) ==
    /\ req[c].op = "create" /\ Arrive(c, IF Taken(req[c].name, c) THEN "failed" ELSE "naming")
    /\ UNCHANGED <<req, book, clock, cats>>

InsertCategory(c) ==
    /\ pc[c] = "naming" /\ Go(c, "ok")
    /\ cats' = [cats EXCEPT ![c] = [@ EXCEPT !.state = "live", !.name = req[c].name, !.by = c]]
    /\ UNCHANGED <<req, book, clock>>

-----------------------------------------------------------------------------
(* update and remove *)

FindCategory(c) ==
    /\ req[c].op \in {"rename", "remove"}
    /\ Arrive(c, IF req[c].cat \in Live /\ ~cats[req[c].cat].default
                 THEN IF req[c].op = "rename" THEN "comparing" ELSE "counting"
                 ELSE "failed")
    /\ UNCHANGED <<req, book, clock, cats>>

FindDuplicate(c) ==
    /\ pc[c] = "comparing"
    /\ Go(c, IF Taken(req[c].name, req[c].cat) THEN "failed" ELSE "renaming")
    /\ UNCHANGED <<req, book, clock, cats>>

\* The update is by id alone: a category deleted meanwhile is renamed too.
Rename(c) ==
    /\ pc[c] = "renaming" /\ Go(c, "ok")
    /\ cats' = [cats EXCEPT ![req[c].cat] = [@ EXCEPT !.name = req[c].name, !.by = c]]
    /\ UNCHANGED <<req, book, clock>>

\* Variant: voided transactions do not count.
UsesConfirmed(k) == {i \in Confirmed : rows[i].cat = k}

\* Voided transactions count.
Uses(k) == {i \in DOMAIN rows : rows[i].cat = k}

CountUses(c) ==
    /\ pc[c] = "counting"
    /\ Go(c, IF Uses(req[c].cat) # {} THEN "failed" ELSE "deleting")
    /\ UNCHANGED <<req, book, clock, cats>>

SoftDelete(c) ==
    /\ pc[c] = "deleting" /\ Go(c, "ok")
    /\ cats' = [cats EXCEPT ![req[c].cat] = [@ EXCEPT !.state = "deleted", !.dropper = c]]
    /\ UNCHANGED <<req, book, clock>>

-----------------------------------------------------------------------------
(* createTransaction with a categoryId: it locks the account and reads the *)
(* category, and commits later.                                            *)

Accepted(r) ==
    /\ r.acc \in DOMAIN accounts
    /\ Affords(r.acc, r.type, r.amt)
    /\ r.cat \in Live \cup {NoCategory}

Enter(c) ==
    /\ req[c].op = "enter" /\ Unheld(req[c].acc)
    /\ Arrive(c, IF Accepted(req[c]) THEN "booking" ELSE "failed")
    /\ UNCHANGED <<req, book, clock, cats>>

Commit(c) ==
    /\ pc[c] = "booking" /\ Go(c, "ok")
    /\ LET r == req[c]
       IN Post([by |-> r.user, acc |-> r.acc, type |-> r.type, amt |-> r.amt, cat |-> r.cat,
                at |-> clock, status |-> "CONFIRMED", call |-> c, k |-> 0])
    /\ UNCHANGED <<req, clock, cats>>

-----------------------------------------------------------------------------
\* A statement fails, or the process stops.
GiveUp(c) ==
    /\ pc[c] \in {"naming", "comparing", "renaming", "counting", "deleting", "booking"}
    /\ Go(c, "failed")
    /\ UNCHANGED <<req, book, clock, cats>>

CategoryStep(c) ==
    \/ CheckName(c) \/ InsertCategory(c)
    \/ FindCategory(c) \/ FindDuplicate(c) \/ Rename(c) \/ CountUses(c) \/ SoftDelete(c)
    \/ Enter(c) \/ Commit(c) \/ GiveUp(c)

-----------------------------------------------------------------------------
(* Properties. *)

CategoryType ==
    cats \in [Category -> [state: {"absent", "live", "deleted"}, name: Name, default: BOOLEAN,
                           by: Call \cup {NoCall}, dropper: Call \cup {NoCall}]]

\* Two live categories with one name, but for its case, can only come from
\* two calls that overlapped: a call that comes after the other has answered
\* is refused, whichever of create and update they are.
NamesDistinct ==
    \A k, d \in Live :
        k # d /\ Lower[cats[k].name] = Lower[cats[d].name]
        => cats[d].by \in Call /\ cats[k].by \in met[cats[d].by]

\* A transaction is never left under a deleted category, unless it was being
\* booked while the category was being deleted.
UsedCategoryLives ==
    \A i \in DOMAIN rows :
        rows[i].cat \in Category /\ cats[rows[i].cat].state = "deleted"
        => cats[rows[i].cat].dropper \in met[rows[i].call]

\* Whatever the owner sends, the categories the system made keep their names
\* and are never deleted.
DefaultsStand == \A k \in DefaultCategory : cats[k] = Seeded(k)
=============================================================================
