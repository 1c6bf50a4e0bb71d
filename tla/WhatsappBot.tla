---------------------------- MODULE WhatsappBot ----------------------------
(***************************************************************************)
(* The bot: a webhook of Meta carries a batch of messages, which the       *)
(* controller hands one after the other to WhatsappBotService.  Each       *)
(* message books, voids or asks, and is answered.  Meta repeats a webhook  *)
(* it got no 200 for, even while the first one is still being handled; the *)
(* service gives every booking a key of its own, so nothing here is        *)
(* recognised as a repetition.                                             *)
(***************************************************************************)
EXTENDS Business

CONSTANTS
    Phone,
    UserOf,      \* the user whose verified number it is, or NoUser
    NoUser,
    Window,      \* the minutes in which BATAL still voids, 5 in the code
    Documented   \* texts of the documents with the amount they give them

-----------------------------------------------------------------------------
(* NlpParserService.  A text is a command, or a verb with an amount before *)
(* or behind it and perhaps a note.  The amount is written as digits with  *)
(* a dot or comma, and a unit that is glued to it or a word of its own.    *)

Command == [word: {"saldo", "batal", "bantuan", "help", "laporan", "other"}]
Entry == {e \in [verb: {"masuk", "keluar"}, amountFirst: BOOLEAN, note: BOOLEAN,
                 lead: Nat, sep: {"none", "dot", "comma"}, tail: Nat, digits: 0..3,
                 unit: {"none", "rb", "jt"}, glued: BOOLEAN] : e.sep = "comma" => e.digits < 3}

\* The messages with a text of a webhook, which does nothing if there are none;
\* of is the call that was given the same ones first.
Webhook == [op: {"deliver"}, of: Call,
            batch: Seq([from: Phone, text: Command \cup Entry]) \ {<<>>}]

ASSUME BotAssumption ==
    /\ UserOf \in [Phone -> User \cup {NoUser}] /\ NoUser \notin User
    /\ Window \in Nat

IsCommand(t) == "word" \in DOMAIN t

Factor(unit) == IF unit = "rb" THEN 1000 ELSE IF unit = "jt" THEN 1000000 ELSE 1

\* The powers of ten, by the number of digits.
Tens == [n \in 0..3 |-> IF n = 0 THEN 1 ELSE IF n = 1 THEN 10 ELSE IF n = 2 THEN 100 ELSE 1000]

\* In cents: a dot before three digits groups thousands, any other dot and
\* every comma is decimal.
Number(t) ==
    IF t.sep = "none" THEN 100 * t.lead
    ELSE IF t.sep = "dot" /\ t.digits = 3 THEN 100 * (1000 * t.lead + t.tail)
    ELSE 100 * t.lead + (100 * t.tail) \div Tens[t.digits]

\* parseNominal sees the unit only when it is glued to the digits.
ParseNominal(t) == Number(t) * (IF t.glued THEN Factor(t.unit) ELSE 1)

\* What an amount behind the verb, or before it, needs around it to match.
Matches(t) ==
    IF t.amountFirst THEN t.verb = "masuk" /\ (t.glued \/ t.unit = "none") /\ t.note
    ELSE t.note \/ (~t.glued /\ t.unit # "none")

Intent(t) ==
    IF IsCommand(t)
    THEN IF t.word = "help" THEN "bantuan" ELSE t.word
    ELSE IF Matches(t) /\ ParseNominal(t) # 0 THEN t.verb ELSE "other"

-----------------------------------------------------------------------------
VARIABLES
    mem,      \* the locals of each webhook: the message it is at, the user, the
              \* account or row it found; heard is history: the rows its senders
              \* had been told of when it came in
    replies   \* what was sent to Meta

botVars == <<mem, replies>>

Blank == [k |-> 1, user |-> NoUser, acc |-> 0, row |-> 0, heard |-> {}]

BotInit == mem = [c \in Call |-> Blank] /\ replies = {}

Message(c) == req[c].batch[mem[c].k]

Say(c, what, row) ==
    replies' = replies \cup
        {[to |-> Message(c).from, call |-> c, k |-> mem[c].k, what |-> what, row |-> row]}

\* Message c is at has been dealt with; the next one follows, or the 200.
Proceed(c) ==
    IF mem[c].k < Len(req[c].batch)
    THEN Go(c, "user") /\ mem' = [mem EXCEPT ![c].k = @ + 1]
    ELSE Go(c, "ok") /\ UNCHANGED mem

Answer(c, what, row) == Say(c, what, row) /\ Proceed(c)

\* The POST: the signature is Meta's.  A repetition comes only when there
\* was no 200 yet.
Deliver(c) ==
    /\ req[c].op = "deliver"
    /\ req[c].of # c => pc[req[c].of] \notin {"idle", "ok"}
    /\ Arrive(c, "user")
    /\ mem' = [mem EXCEPT ![c].heard = {r.row : r \in {r \in replies : r.what = "booked"}}]
    /\ UNCHANGED <<req, book, clock, replies>>

\* Who wrote, and what about.
FindUser(c) ==
    /\ pc[c] = "user"
    /\ LET u == UserOf[Message(c).from]
           i == Intent(Message(c).text)
       IN IF u = NoUser THEN Answer(c, "unregistered", 0)
          ELSE IF i \in {"bantuan", "other"} THEN Answer(c, i, 0)
          ELSE /\ mem' = [mem EXCEPT ![c].user = u]
               /\ Go(c, IF i = "laporan" THEN "report" ELSE IF i = "batal" THEN "last" ELSE "account")
               /\ UNCHANGED replies
    /\ UNCHANGED <<req, book, clock>>

-----------------------------------------------------------------------------
(* MASUK, KELUAR, SALDO and LAPORAN *)

\* The first CASH account, or else the first.
Default == LET cash == {a \in DOMAIN accounts : accounts[a].kind = "CASH"}
           IN Min(IF cash # {} THEN cash ELSE DOMAIN accounts)

FindAccount(c) ==
    /\ pc[c] = "account"
    /\ IF accounts = <<>> THEN Answer(c, "no account", 0)
       ELSE IF Intent(Message(c).text) = "saldo" THEN Answer(c, "balances", 0)
       ELSE /\ mem' = [mem EXCEPT ![c].acc = Default]
            /\ Go(c, "posting")
            /\ UNCHANGED replies
    /\ UNCHANGED <<req, book, clock>>

Report(c) ==
    /\ pc[c] = "report"
    /\ Answer(c, "report", 0)
    /\ UNCHANGED <<req, book, clock>>

Booking(c) ==
    LET t == Message(c).text
    IN [by |-> mem[c].user, acc |-> mem[c].acc, amt |-> ParseNominal(t),
        type |-> IF t.verb = "masuk" THEN "MASUK" ELSE "KELUAR",
        cat |-> NoCategory, at |-> clock, status |-> "CONFIRMED", call |-> c, k |-> mem[c].k]

Book(c) ==
    /\ pc[c] = "posting" /\ Unheld(mem[c].acc)
    /\ Affords(mem[c].acc, Booking(c).type, Booking(c).amt)
    /\ Post(Booking(c))
    /\ mem' = [mem EXCEPT ![c].row = Len(rows) + 1]
    /\ Go(c, "reading back")
    /\ UNCHANGED <<req, clock, replies>>

CannotAfford(c) ==
    /\ pc[c] = "posting" /\ Unheld(mem[c].acc)
    /\ ~Affords(mem[c].acc, Booking(c).type, Booking(c).amt)
    /\ Answer(c, "not booked", 0)
    /\ UNCHANGED <<req, book, clock>>

\* The new balance is read for the answer.
ReadBack(c) ==
    /\ pc[c] = "reading back"
    /\ Answer(c, "booked", mem[c].row)
    /\ UNCHANGED <<req, book, clock>>

-----------------------------------------------------------------------------
(* BATAL *)

Recent(c) == {i \in Confirmed : rows[i].by = mem[c].user /\ rows[i].at >= clock - Window}

\* Variant: the rows in ascending order.
FindOldest(c) ==
    /\ pc[c] = "last"
    /\ IF Recent(c) = {} THEN Answer(c, "nothing to cancel", 0)
       ELSE /\ mem' = [mem EXCEPT ![c].row = Min(Recent(c))]
            /\ Go(c, "cancelling")
            /\ UNCHANGED replies
    /\ UNCHANGED <<req, book, clock>>

FindLast(c) ==
    /\ pc[c] = "last"
    /\ IF Recent(c) = {} THEN Answer(c, "nothing to cancel", 0)
       ELSE /\ mem' = [mem EXCEPT ![c].row = Max(Recent(c))]
            /\ Go(c, "cancelling")
            /\ UNCHANGED replies
    /\ UNCHANGED <<req, book, clock>>

\* voidTransaction looks at the status before its database transaction.
FindExisting(c) ==
    /\ pc[c] = "cancelling"
    /\ IF rows[mem[c].row].status = "VOID" THEN Answer(c, "not cancelled", 0)
       ELSE Go(c, "voiding") /\ UNCHANGED botVars
    /\ UNCHANGED <<req, book, clock>>

Void(c) ==
    /\ pc[c] = "voiding" /\ Unheld(rows[mem[c].row].acc)
    /\ Reverse(mem[c].row)
    /\ Answer(c, "cancelled", mem[c].row)
    /\ UNCHANGED <<req, clock>>

-----------------------------------------------------------------------------
\* An error inside the two try blocks is answered; that of the balance read
\* after the commit looks to the sender like a booking that failed.
Apologise(c) ==
    /\ pc[c] \in {"posting", "reading back", "cancelling", "voiding"}
    /\ Answer(c, IF pc[c] \in {"posting", "reading back"} THEN "not booked" ELSE "not cancelled", 0)
    /\ UNCHANGED <<req, book, clock>>

\* A query outside of them fails, or the process stops: Meta gets no 200 and
\* the rest of the batch is not looked at.
Drop(c) ==
    /\ pc[c] \in {"user", "account", "report", "last", "posting", "reading back",
                  "cancelling", "voiding"}
    /\ Go(c, "lost")
    /\ UNCHANGED <<req, book, clock, botVars>>

BotStep(c) ==
    \/ Deliver(c) \/ FindUser(c) \/ FindAccount(c) \/ Report(c)
    \/ Book(c) \/ CannotAfford(c) \/ ReadBack(c)
    \/ FindLast(c) \/ FindExisting(c) \/ Void(c)
    \/ Apologise(c) \/ Drop(c)

-----------------------------------------------------------------------------
(* Properties. *)

Reply == [to: Phone, call: Call, k: Nat, row: Nat,
          what: {"unregistered", "no account", "balances", "report", "booked", "not booked",
                 "cancelled", "not cancelled", "nothing to cancel", "bantuan", "other"}]

BotType ==
    /\ mem \in [Call -> [k: Nat, user: User \cup {NoUser}, acc: Nat, row: Nat, heard: SUBSET Nat]]
    /\ replies \subseteq Reply

\* "Salah? Balas batal": the BATAL of a sender who has been told of a booking
\* never reaches past it to an older row of theirs while it stands, however many
\* other webhooks and the web application are booking and voiding.
BatalReachesLastTold ==
    \A c \in Call : pc[c] \in {"cancelling", "voiding"} =>
        \A i \in mem[c].heard \cap Confirmed :
            rows[i].by = mem[c].user => i <= mem[c].row

\* A text the documents give an amount for is booked with that amount.
BooksAsDocumented ==
    \A i \in DOMAIN rows : rows[i].k > 0 =>
        LET t == req[rows[i].call].batch[rows[i].k].text
        IN t \in DOMAIN Documented => rows[i].amt = Documented[t]
=============================================================================
